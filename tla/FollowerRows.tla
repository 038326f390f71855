----------------------------- MODULE FollowerRows -----------------------------
(***************************************************************************)
(* The follower totals kept of one account, a row a day, the runs that     *)
(* write them, and what is expected of both.  FollowerHistory has the      *)
(* steps of the runs.                                                      *)
(***************************************************************************)
EXTENDS Integers

CONSTANTS
    LastDay,     \* days 1 .. LastDay are modelled
    MaxTotal,    \* followers at most
    Runs,        \* runs of the cron and of the page at once
    MaxRuns      \* runs of a behaviour

ASSUME FollowerAssumption == LastDay \in Nat \ {0} /\ MaxTotal \in Nat /\ MaxRuns \in Nat

VARIABLES
    snap,        \* [day -> the row of FollowerSnapshot]
    run          \* [Runs -> position]

Days == 1 .. LastDay
NoSnap == [n |-> -1, backfilled |-> FALSE]

Observed(d) == snap[d] # NoSnap /\ ~snap[d].backfilled

\* A reconstructed total is the total of its day, as far as no follower came or went
\* between the reading of the total and that of the changes.
DerivedIsTrue ==
    \A r \in Runs : run[r].pc \in {"observed", "write"} /\ run[r].same
                        => run[r].points \subseteq run[r].truth

\* An observed total gives way to observed totals only, though a run looks for
\* observed days before it writes.  One day is excepted: midnight passed between
\* the run's own observation and its reading of the changes, so that it writes the
\* row of the new day too, which nobody had observed when it looked.
ObservedStays ==
    [][\A d \in Days :
          Observed(d) => Observed(d)' \/ \E r \in Runs : /\ run[r].pc = "write"
                                                         /\ run'[r].pc = "idle"
                                                         /\ run[r].recorded # d
                                                         /\ run[r].day = d]_snap

\* The history holds: what is derived is true, and never replaces what was observed.
HistoryHolds == []DerivedIsTrue /\ ObservedStays
=============================================================================
