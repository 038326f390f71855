-------------------------- MODULE ConversationPaging --------------------------
(***************************************************************************)
(* Reading the conversations of an account (getConversations in            *)
(* lib/meta/client.ts): pages of the list, newest first, where one         *)
(* conversation whose details Instagram cannot give makes its whole page   *)
(* fail.  The page is halved until the conversation is alone in it; then   *)
(* it is read without its details and the list goes on after it.           *)
(*                                                                         *)
(* While the list is read conversations move to its head, as messages      *)
(* arrive.  A cursor is the place after the last conversation of a page.   *)
(* What has been read is a set; its order is left out.                     *)
(***************************************************************************)
EXTENDS ConversationList

VARIABLES
    order,       \* [place -> conversation], newest first
    after,       \* how many conversations are after the cursor, all if there is none
    pages,       \* pages read
    pageSize, limit

vars == <<order, broken, moved, results, after, pages, pageSize, limit, step>>

Least(a, b) == IF a <= b THEN a ELSE b
Most(a, b) == IF a >= b THEN a ELSE b

Init ==
    /\ order = [k \in Conversations |-> k]
    /\ broken \in SUBSET Conversations
    /\ moved = {}
    /\ results = {}
    /\ after = Size
    /\ pages = 0 /\ pageSize = Wanted /\ limit = 0 /\ step = "loop"

\* The first n conversations after the cursor.
Count(n) == Least(n, after)
Page(n) == {order[k] : k \in Size - after + 1 .. Size - after + Count(n)}

\* The conversation at place i moves to the head, and so away from what is after the
\* cursor, if there is one.
Move(i) ==
    /\ step # "done" /\ Cardinality(moved) < MaxMoves
    /\ order' = [k \in Conversations |->
                    IF k = 1 THEN order[i] ELSE IF k <= i THEN order[k - 1] ELSE order[k]]
    /\ moved' = moved \union {order[i]}
    /\ after' = IF pages > 0 /\ i > Size - after THEN after - 1 ELSE after
    /\ UNCHANGED <<broken, results, pages, pageSize, limit, step>>

\* The for loop's condition; a list that takes too many pages is an error.
BeginPage ==
    /\ step = "loop"
    /\ IF pages < MaxPages /\ Cardinality(results) < Wanted
       THEN limit' = Least(pageSize, Wanted - Cardinality(results)) /\ step' = "read"
       ELSE step' = "failed" /\ UNCHANGED limit
    /\ UNCHANGED <<order, broken, moved, results, after, pages, pageSize>>

\* A bug: the page is not made smaller; its conversations are all taken bare.
HalveNot ==
    /\ step = "read" /\ Page(limit) \intersect broken # {}
    /\ step' = "bare"
    /\ UNCHANGED <<order, broken, moved, results, after, pages, pageSize, limit>>

\* Code 1: a smaller page, or the one conversation without its details.
Halve ==
    /\ step = "read" /\ Page(limit) \intersect broken # {}
    /\ IF limit > 1 THEN limit' = Most(1, limit \div 2) /\ UNCHANGED step
       ELSE step' = "bare" /\ UNCHANGED limit
    /\ UNCHANGED <<order, broken, moved, results, after, pages, pageSize>>

\* Where the list goes on: after the last conversation of a page, or with it again, as
\* Meta may repeat data.
Following(n) == {after - Count(n), Least(after, after - Count(n) + 1)}

\* The rows of a page of n are taken unless they have been; the list ends when enough
\* have, or when nothing is left.  (A page is never longer than what is still wanted, so
\* that none of its rows is too many.)
Take(n, bare, size) ==
    /\ results' = results \union {[id |-> c, bare |-> bare] : c \in Page(n) \ SeenIds}
    /\ after' \in Following(n)
    /\ pages' = pages + 1
    /\ step' = IF Cardinality(results') >= Wanted \/ Count(n) = after THEN "done" ELSE "loop"
    /\ pageSize' = size
    /\ UNCHANGED <<order, broken, moved, limit>>

ReadPage ==
    /\ step = "read" /\ Page(limit) \intersect broken = {}
    /\ Take(limit, FALSE, Least(Wanted, limit * 2))

ReadBare == step = "bare" /\ Take(1, TRUE, 1)

\* Any other error ends the reading.
Fail ==
    /\ step \in {"read", "bare"}
    /\ step' = "failed"
    /\ UNCHANGED <<order, broken, moved, results, after, pages, pageSize, limit>>

Reading == BeginPage \/ Halve \/ ReadPage \/ ReadBare

Next == Reading \/ Fail \/ \E i \in 2 .. Size : Move(i)

Spec == Init /\ [][Next]_vars
=============================================================================
