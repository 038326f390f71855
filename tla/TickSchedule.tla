----------------------------- MODULE TickSchedule -----------------------------
(***************************************************************************)
(* The times of the poll tick, of its lock and of the heartbeat, and what  *)
(* is expected of them.  PollTick has the calls and timers that move them. *)
(*                                                                         *)
(* There are two deployments.  "cron": every five minutes a call starts a  *)
(* tick (lib/ops/cron-poll.ts), which a lock in Redis keeps from running   *)
(* twice and the host kills after maxDuration.  "process": one worker      *)
(* process (worker/dm-worker.ts) beats and polls on timers.                *)
(*                                                                         *)
(* Time is counted in units of 50 s in the first and 30 s in the second    *)
(* deployment; a limit that is not a whole number of units is rounded      *)
(* towards the limit it is compared with, and the order of all of them is  *)
(* kept: the budget < the lock's expiry < maxDuration = the interval < the *)
(* heartbeat's expiry.                                                     *)
(***************************************************************************)
EXTENDS Integers

CONSTANTS
    Ticks,      \* invocations of the cron route that may run at once
    Horizon     \* the time a behaviour lasts

ASSUME TickAssumption == Horizon \in Nat

\* A bug: the lock outlives the function that took it.
LockTtlLong == 9

LockTtl == 5             \* LOCK_TTL_SECONDS, 290 s

\* WORKER_HEARTBEAT_TTL_SECONDS: 420 s on Vercel, 120 s by default.
BeatTtl(m) == IF m = "cron" THEN 8 ELSE 4

VARIABLES
    mode,    \* the deployment
    now,
    due,     \* "cron": when the schedule calls next; "process": when the poll runs next
    tick,    \* [Ticks -> the tick's position]
    beat,    \* the time of the last heartbeat, or None
    worker,  \* "process": [st, beat, polls]: its state, next beat, running polls
    extra,   \* unscheduled calls so far
    missed,  \* history: a heartbeat could not be written
    raced    \* history: a lock was deleted by a tick that no longer owned it

None == -1

\* getWorkerHealth: the key is there until it expires.
Healthy == beat # None /\ now - beat <= BeatTtl(mode)

Running(t) == tick[t].pc \notin {"idle", "del"}

\* Two ticks run side by side only when the older has outlived the lock, and a
\* tick never takes away the lock of another: a second scheduler or a call by
\* hand starts nothing while a tick is younger than LOCK_TTL_SECONDS.  (The GET
\* and the DEL are two commands; a lock that expires between them is left out.)
OneTick ==
    \A t, u \in Ticks :
        t # u /\ Running(t) /\ Running(u) /\ ~raced =>
            \/ now >= tick[t].start + LockTtl
            \/ now >= tick[u].start + LockTtl

\* /api/health does not flap: on the schedule alone, whichever ticks are killed
\* or run to the last, and in the process until it is told to stop, the worker is
\* healthy once it has begun, as long as Redis takes its heartbeats.
HealthHolds ==
    \/ missed
    \/ mode = "cron" /\ (extra > 0 \/ due = 0)
    \/ mode = "process" /\ worker.st # "up"
    \/ Healthy

=============================================================================
