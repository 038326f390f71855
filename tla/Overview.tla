------------------------------- MODULE Overview -------------------------------
(***************************************************************************)
(* The overview of an account's posts                                      *)
(* (app/api/instagram/overview/route.ts): the library is read page by      *)
(* page, then the insights of every post are asked for by a pool of        *)
(* workers that share a cursor, then the followers.                        *)
(*                                                                         *)
(* The pool is one JavaScript thread: between two awaits a worker is alone,*)
(* so the end of one request and the start of the worker's next are one    *)
(* step.  A post is its place in the library; the metrics are left out, and *)
(* the totals are the posts that add to them.                              *)
(***************************************************************************)
EXTENDS PostInsights

Workers == 1 .. Concurrency

VARIABLES
    cursor,        \* the next post whose insights nobody has asked for
    working,       \* the post of each worker, 0 for none
    available,     \* insightsAvailable
    denied         \* permissionDenied

vars == <<phase, target, media, cursor, working, asked, insights, available, denied, overview>>

NoAnswer == [reach |-> {}, insights |-> FALSE, followers |-> FALSE]

Init ==
    /\ phase = "library"
    /\ target \in 1 .. MaxPosts
    /\ media = 0 /\ cursor = 1
    /\ working = [w \in Workers |-> 0]
    /\ asked = [p \in Posts |-> 0]
    /\ insights = [p \in Posts |-> NotYet]
    /\ available = FALSE /\ denied = FALSE
    /\ overview = NoAnswer

-----------------------------------------------------------------------------
\* The library.

\* A page, as long as more are wanted and there are more; then the pool starts, of no
\* more workers than there are posts, and each takes a post.
ReadPage ==
    LET read == Least(media + Least(PageSize, target), Library)
        posts == Least(read, target)
        some == Least(Concurrency, posts)
    IN  /\ phase = "library"
        /\ media' = posts
        /\ IF posts < target /\ read < Library
           THEN UNCHANGED <<phase, cursor, working, asked>>
           ELSE /\ phase' = "pool"
                /\ cursor' = some + 1
                /\ working' = [w \in Workers |-> IF w <= some THEN w ELSE 0]
                /\ asked' = [p \in Posts |-> IF p <= some THEN 1 ELSE 0]
        /\ UNCHANGED <<target, insights, available, denied, overview>>

-----------------------------------------------------------------------------
\* The pool.

\* The worker takes the post under the cursor, or ends.
Take(w) ==
    IF cursor <= media
    THEN /\ working' = [working EXCEPT ![w] = cursor]
         /\ asked' = [asked EXCEPT ![cursor] = @ + 1]
         /\ cursor' = cursor + 1
    ELSE /\ working' = [working EXCEPT ![w] = 0]
         /\ UNCHANGED <<asked, cursor>>

\* A bug: the place is read off the shared cursor when the answer has come.
PlaceAtCursor(w) == cursor - 1

\* The place of the post the worker took.
Place(w) == working[w]

\* The insights of the worker's post come.
InsightsCome(w) ==
    /\ phase = "pool" /\ working[w] # 0
    /\ insights' = [insights EXCEPT ![Place(w)] = working[w]]
    /\ available' = TRUE
    /\ Take(w)
    /\ UNCHANGED <<phase, target, media, denied, overview>>

\* They are refused, or any other error: the post is left without.
InsightsFail(w) ==
    /\ phase = "pool" /\ working[w] # 0
    /\ insights' = [insights EXCEPT ![Place(w)] = Null]
    /\ denied' \in {denied, TRUE}
    /\ Take(w)
    /\ UNCHANGED <<phase, target, media, available, overview>>

-----------------------------------------------------------------------------
\* The answer.

\* A post without insights adds nothing.
Reach == {p \in 1 .. media : insights[p] = p}

\* All workers have ended.
Worked == phase = "pool" /\ \A w \in Workers : working[w] = 0

\* The followers may fail without the posts.
Respond ==
    /\ Worked
    /\ phase' = "answered"
    /\ \E f \in BOOLEAN :
          overview' = [reach |-> Reach, insights |-> available /\ ~denied, followers |-> f]
    /\ UNCHANGED <<target, media, cursor, working, asked, insights, available, denied>>

\* The library cannot be read, or the list of accounts: no overview at all.
Fail ==
    /\ phase = "library" \/ Worked
    /\ phase' = "failed"
    /\ UNCHANGED <<target, media, cursor, working, asked, insights, available, denied, overview>>

Next ==
    \/ ReadPage
    \/ \E w \in Workers : InsightsCome(w) \/ InsightsFail(w)
    \/ Respond \/ Fail

Spec == Init /\ [][Next]_vars
=============================================================================
