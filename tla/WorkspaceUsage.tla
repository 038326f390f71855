--------------------------- MODULE WorkspaceUsage ---------------------------
(***************************************************************************)
(* The monthly counter of a workspace (src/lib/billing/usage.ts): jobs     *)
(* reserve a send before it and give the reservation back when it fails;   *)
(* the counter starts again with each month.  The reserving transaction is *)
(* read committed, so its three statements interleave with those of other  *)
(* jobs and with the turn of the month; each statement is atomic.          *)
(***************************************************************************)
EXTENDS UsageCounter

VARIABLES
  month,     \* the current month, on the clock of every process
  period,    \* usagePeriodStart, as its month
  pc,        \* where each sender is
  start,     \* the month each sender last took from the clock
  found,     \* the periodStart of each sender's reservation
  charged    \* history: the month in which each reservation was counted

vars == <<month, period, count, pc, start, found, charged, owed>>

Months == 0..LastMonth

TypeOK ==
  /\ month \in Months /\ period \in Months
  /\ count \in Nat /\ owed \in Int
  /\ pc \in [Senders -> {"idle", "find", "increment", "reserved"}]
  /\ start \in [Senders -> Months]
  /\ found \in [Senders -> Months]
  /\ charged \in [Senders -> Months]

Init ==
  /\ month = 0 /\ period = 0
  /\ count = 0 /\ owed = 0
  /\ pc = [s \in Senders |-> "idle"]
  /\ start = [s \in Senders |-> 0]
  /\ found = [s \in Senders |-> 0]
  /\ charged = [s \in Senders |-> 0]
-----------------------------------------------------------------------------
Go(s, from, to) ==
  /\ pc[s] = from
  /\ pc' = [pc EXCEPT ![s] = to]

NextMonth ==
  /\ month < LastMonth
  /\ month' = month + 1
  /\ UNCHANGED <<period, count, pc, start, found, charged, owed>>

(* resetUsageIfNeededTx: one conditional update, for the month its process *)
(* read from the clock.                                                    *)
ResetTo(m) ==
  IF period < m
  THEN period' = m /\ count' = 0 /\ owed' = 0
  ELSE UNCHANGED <<period, count, owed>>

(* The first statement of a reservation: the clock is read before it runs, *)
(* maybe a month earlier.                                                  *)
Begin(s) ==
  /\ Go(s, "idle", "find")
  /\ \E m \in Months :
       /\ m \in {month - 1, month}
       /\ ResetTo(m)
       /\ start' = [start EXCEPT ![s] = m]
  /\ UNCHANGED <<month, found, charged>>

(* The clock is read again, and findUnique tells the period and whether    *)
(* the limit is reached.                                                   *)
Find(s) ==
  /\ Go(s, "find", IF count >= Limit THEN "idle" ELSE "increment")
  /\ \E m \in start[s]..month : start' = [start EXCEPT ![s] = m]
  /\ found' = [found EXCEPT ![s] = period]
  /\ UNCHANGED <<month, period, count, charged, owed>>

(* An increment that trusts the limit found before.                        *)
IncrementUnchecked(s) ==
  /\ Go(s, "increment", "reserved")
  /\ count' = count + 1 /\ owed' = owed + 1
  /\ charged' = [charged EXCEPT ![s] = period]
  /\ UNCHANGED <<month, period, start, found>>

(* The conditional increment, checked again on the row itself.             *)
Increment(s) ==
  /\ IF period >= start[s] /\ count < Limit
     THEN /\ Go(s, "increment", "reserved")
          /\ count' = count + 1 /\ owed' = owed + 1
          /\ charged' = [charged EXCEPT ![s] = period]
     ELSE /\ Go(s, "increment", "idle")
          /\ UNCHANGED <<count, owed, charged>>
  /\ UNCHANGED <<month, period, start, found>>

Settle(s) ==
  /\ Go(s, "reserved", "idle")
  /\ owed' = IF charged[s] = period THEN owed - 1 ELSE owed
  /\ UNCHANGED <<month, period, start, found, charged>>

(* A release that does not look at the period.                             *)
ReleaseAnyPeriod(s) ==
  /\ Settle(s)
  /\ count' = IF count > 0 THEN count - 1 ELSE count

(* releaseWorkspaceDMReservation: only while the period of the reservation *)
(* is still the current one.                                               *)
Release(s) ==
  /\ Settle(s)
  /\ count' = IF period = found[s] /\ count > 0 THEN count - 1 ELSE count

(* The send succeeded: its reservation is kept for good.                   *)
Keep(s) ==
  /\ Go(s, "reserved", "idle")
  /\ UNCHANGED <<month, period, count, start, found, charged, owed>>

(* The nightly job of /api/cron/refresh-tokens, or a reader of the usage   *)
(* (canSendDMForWorkspace), resets the counter too.                        *)
Reset ==
  /\ \E m \in Months : m \in {month - 1, month} /\ ResetTo(m)
  /\ UNCHANGED <<month, pc, start, found, charged>>

Next ==
  \/ NextMonth
  \/ Reset
  \/ \E s \in Senders :
       Begin(s) \/ Find(s) \/ Increment(s) \/ Release(s) \/ Keep(s)

Spec == Init /\ [][Next]_vars
-----------------------------------------------------------------------------
(* The period never goes back, whichever process resets it late.           *)
PeriodAdvances == [][period' >= period]_vars
=============================================================================
