--------------------------- MODULE FollowerHistory ---------------------------
(***************************************************************************)
(* The follower totals of one account, a row a day                         *)
(* (lib/reports/follower-history.ts): observed by the daily cron and by    *)
(* the overview page, and, when the account has no more than one row,      *)
(* reconstructed from Instagram's daily changes.  A Zernio account's rows  *)
(* are all imported totals.                                                *)
(***************************************************************************)
EXTENDS FollowerRows

VARIABLES
    provider,    \* the account's provider
    today,
    total,       \* followers now
    ends,        \* [day -> followers at its end], days before today, and day 0
    runs         \* runs begun so far

vars == <<provider, today, total, ends, snap, run, runs>>

\* day is the day of the reading; truth, history, what Instagram then knew.
Idle == [pc |-> "idle", count |-> 0, recorded |-> 0, points |-> {}, day |-> 0, same |-> FALSE,
         truth |-> {}]

Init ==
    /\ provider \in {"META", "ZERNIO"}
    /\ today = 1
    /\ total \in 0 .. MaxTotal
    /\ ends \in [{0} -> 0 .. MaxTotal]
    /\ snap = [d \in Days |-> NoSnap]
    /\ run = [r \in Runs |-> Idle]
    /\ runs = 0

-----------------------------------------------------------------------------
\* The account and the calendar.

Gain ==
    /\ total' \in (0 .. MaxTotal) \intersect {total - 1, total + 1}
    /\ UNCHANGED <<provider, today, ends, snap, run, runs>>

Midnight ==
    /\ today < LastDay
    /\ today' = today + 1
    /\ ends' = [d \in 0 .. today |-> IF d = today THEN total ELSE ends[d]]
    /\ UNCHANGED <<provider, total, snap, run, runs>>

Total(d) == IF d = today THEN total ELSE ends[d]

\* The totals day by day, the last one the present one.
Totals == {[day |-> d, n |-> Total(d)] : d \in 1 .. today}

\* The net change of each day.
Series == [d \in 1 .. today |-> Total(d) - ends[d - 1]]

-----------------------------------------------------------------------------
\* A run.

Goto(r, pc) == run' = [run EXCEPT ![r].pc = pc]

Begin(r) ==
    /\ run[r].pc = "idle" /\ runs < MaxRuns
    /\ runs' = runs + 1
    /\ Goto(r, IF provider = "META" THEN "info" ELSE "series")
    /\ UNCHANGED <<provider, today, total, ends, snap>>

\* getUserInfo
Info(r) ==
    /\ run[r].pc = "info"
    /\ run' = [run EXCEPT ![r].pc = "record", ![r].count = total]
    /\ UNCHANGED <<provider, today, total, ends, snap, runs>>

\* recordFollowerSnapshot: the row of the day it is now.
Record(r) ==
    /\ run[r].pc = "record"
    /\ snap' = [snap EXCEPT ![today] = [n |-> run[r].count, backfilled |-> FALSE]]
    /\ run' = [run EXCEPT ![r].pc = "count", ![r].recorded = today]
    /\ UNCHANGED <<provider, today, total, ends, runs>>

Rows == {d \in Days : snap[d] # NoSnap}

\* The history is reconstructed for an account seen for the first time: it has one
\* row at most.
CountRows(r) ==
    /\ run[r].pc = "count"
    /\ IF \A d, e \in Rows : d = e
       THEN Goto(r, "series")
       ELSE run' = [run EXCEPT ![r] = Idle]
    /\ UNCHANGED <<provider, today, total, ends, snap, runs>>

\* The total that is running when the loop is at each day, back from the last.
Running(series, last, now) ==
    LET running[d \in 1 .. last] ==
            IF d = last THEN now ELSE running[d + 1] - series[d + 1]
    IN  running

\* reconstructFollowerTotals: back from the present total, as long as the totals
\* are not negative.
Reconstruct(series, last, now) ==
    LET running == Running(series, last, now)
    IN  {[day |-> d, n |-> running[d]] :
            d \in {e \in 1 .. last : \A f \in e .. last : running[f] >= 0}}

\* The changes, or a Zernio account's totals, and what they tell.
ReadSeries(r) ==
    /\ run[r].pc = "series"
    /\ LET points == IF provider = "META" THEN Reconstruct(Series, today, run[r].count)
                                           ELSE Totals
       IN  run' = [run EXCEPT ![r] =
                      IF points = {} THEN Idle
                      ELSE [@ EXCEPT !.pc = "observed", !.points = points, !.day = today,
                                     !.same = provider = "ZERNIO" \/ run[r].count = total,
                                     !.truth = Totals]]
    /\ UNCHANGED <<provider, today, total, ends, snap, runs>>

\* A bug: the days that were observed are written too.
WritableAll(points) == points

\* The days that have not been observed.
Writable(points) == {p \in points : ~Observed(p.day)}

ReadObserved(r) ==
    /\ run[r].pc = "observed"
    /\ LET rest == Writable(run[r].points)
       IN  run' = [run EXCEPT ![r] = IF rest = {} THEN Idle
                                     ELSE [@ EXCEPT !.pc = "write", !.points = rest]]
    /\ UNCHANGED <<provider, today, total, ends, snap, runs>>

\* One transaction writes them all.
Write(r) ==
    /\ run[r].pc = "write"
    /\ snap' = [d \in Days |->
                   IF \E p \in run[r].points : p.day = d
                   THEN [n |-> (CHOOSE p \in run[r].points : p.day = d).n, backfilled |-> TRUE]
                   ELSE snap[d]]
    /\ run' = [run EXCEPT ![r] = Idle]
    /\ UNCHANGED <<provider, today, total, ends, runs>>

\* Instagram or the database fails: the run ends.
Fail(r) ==
    /\ run[r].pc # "idle"
    /\ run' = [run EXCEPT ![r] = Idle]
    /\ UNCHANGED <<provider, today, total, ends, snap, runs>>

Step(r) ==
    \/ Begin(r) \/ Info(r) \/ Record(r) \/ CountRows(r)
    \/ ReadSeries(r) \/ ReadObserved(r) \/ Write(r) \/ Fail(r)

Next == Gain \/ Midnight \/ \E r \in Runs : Step(r)

Spec == Init /\ [][Next]_vars
=============================================================================
