----------------------------- MODULE PostInsights -----------------------------
(***************************************************************************)
(* The posts of an account and their insights, as the overview reads them, *)
(* and what is expected of it.  Overview has the steps of the reading.     *)
(***************************************************************************)
EXTENDS Naturals

CONSTANTS
    Library,       \* posts of the account
    MaxPosts,      \* MAX_POSTS
    PageSize,      \* MEDIA_PAGE_SIZE
    Concurrency    \* INSIGHTS_CONCURRENCY

ASSUME OverviewAssumption ==
    /\ Library \in Nat /\ MaxPosts \in Nat /\ PageSize \in Nat
    /\ Concurrency \in Nat \ {0}

VARIABLES
    phase,         \* the library is read, the pool works, or it is over
    target,        \* posts asked for, at most MaxPosts
    media,         \* posts read
    asked,         \* history: how often each post was asked for
    insights,      \* [place in the library -> what the request brought]
    overview       \* the answer: posts that add to the reach, insightsAvailable, followers

Posts == 1 .. Library

\* What stands at a post's place: nothing yet, no insights, or the insights of a post.
NotYet == 0
Null == Library + 1

Least(m, n) == IF m < n THEN m ELSE n

\* However the answers overtake each other, each of the newest posts that were asked
\* for has its insights asked for exactly once, what stands at its place is its own,
\* and just the posts whose insights came add to the totals; the insights are only
\* said to be there when some came.
EachPostOnce ==
    /\ \A p \in Posts : asked[p] <= 1 /\ insights[p] \in {NotYet, Null, p}
    /\ phase = "answered" =>
        /\ media = Least(target, Library)
        /\ \A p \in Posts : asked[p] = (IF p <= media THEN 1 ELSE 0)
        /\ \A p \in 1 .. media : insights[p] # NotYet
        /\ overview.reach = {p \in Posts : insights[p] = p}
        /\ overview.insights => overview.reach # {}
=============================================================================
