------------------------------ MODULE PollTick ------------------------------
(***************************************************************************)
(* When the sweep and the worker run, and what /api/health says of them.   *)
(* TickSchedule has the times, in which unit they are counted, and what is *)
(* expected of them.                                                       *)
(***************************************************************************)
EXTENDS TickSchedule

CONSTANTS
    MaxExtra    \* calls that do not come from the schedule

Budget == 4              \* budgetMs, 240 s
MaxRun == 6              \* maxDuration, 300 s
Interval == 6            \* the schedule of the poll, 300 s
BeatEvery == 1           \* HEARTBEAT_INTERVAL_MS, 30 s
PollEvery == 10          \* POLL_INTERVAL_MS, 300 s

VARIABLES
    lock     \* [owner, until]: lock:cron:poll

vars == <<mode, now, due, lock, tick, beat, worker, extra, missed, raced>>

NoTick == [pc |-> "idle", start |-> 0, empty |-> 0, mine |-> FALSE]
Free == [owner |-> <<>>, until |-> 0]
Down == [st |-> "down", beat |-> 0, polls |-> 0]

Init ==
    /\ mode \in {"cron", "process"}
    /\ now = 0 /\ due = 0
    /\ lock = Free
    /\ tick = [t \in Ticks |-> NoTick]
    /\ beat = None
    /\ worker = Down
    /\ extra = 0 /\ missed = FALSE /\ raced = FALSE

Locked == lock.owner # <<>> /\ now < lock.until
Token(t) == <<t, tick[t].start>>

\* recordWorkerHeartbeat, which may fail.
Beat ==
    \/ beat' = now /\ UNCHANGED missed
    \/ UNCHANGED beat /\ missed' = TRUE

-----------------------------------------------------------------------------
\* "cron": a tick.

Goto(t, pc) == tick' = [tick EXCEPT ![t].pc = pc]

\* The SET NX EX and the first heartbeat.
Enter(t) ==
    IF Locked THEN UNCHANGED <<lock, tick, beat, missed>>
    ELSE /\ tick[t].pc = "idle"
         /\ lock' = [owner |-> <<t, now>>, until |-> now + LockTtl]
         /\ tick' = [tick EXCEPT ![t] =
                      [pc |-> "sweep", start |-> now, empty |-> 0, mine |-> FALSE]]
         /\ Beat

\* The schedule calls; the tick runs after the answer.
Call(t) ==
    /\ mode = "cron" /\ now = due
    /\ due' = now + Interval
    /\ Enter(t)
    /\ UNCHANGED <<mode, now, worker, extra, raced>>

\* A call by hand or by a second scheduler.
ExtraCall(t) ==
    /\ mode = "cron" /\ extra < MaxExtra
    /\ extra' = extra + 1
    /\ Enter(t)
    /\ UNCHANGED <<mode, now, due, worker, raced>>

\* attachNextReels and reconcile have ended, well or badly.
StartWorker(t) ==
    /\ tick[t].pc = "sweep"
    /\ Goto(t, "drain")
    /\ UNCHANGED <<mode, now, due, lock, beat, worker, extra, missed, raced>>

\* The queue is empty twice running, or the budget is spent.
CheckQueue(t) ==
    /\ tick[t].pc = "drain"
    /\ \/ now >= tick[t].start + Budget /\ Goto(t, "close")
       \/ /\ now < tick[t].start + Budget
          /\ \/ tick[t].empty = 1 /\ Goto(t, "close")
             \/ \E n \in {0, 1} : tick' = [tick EXCEPT ![t].empty = n]
    /\ UNCHANGED <<mode, now, due, lock, beat, worker, extra, missed, raced>>

\* worker.close has waited for the jobs in flight; the second heartbeat.
Close(t) ==
    /\ tick[t].pc = "close"
    /\ Goto(t, "get")
    /\ beat' \in {beat, now}
    /\ UNCHANGED <<mode, now, due, lock, worker, extra, missed, raced>>

\* A bug: the tick deletes the lock without looking whose it is.
GetAny(t) ==
    /\ tick[t].pc = "get"
    /\ tick' = [tick EXCEPT ![t].pc = "del",
                            ![t].mine = Locked /\ lock.owner = Token(t)]
    /\ UNCHANGED <<mode, now, due, lock, beat, worker, extra, missed, raced>>

\* The GET of the finally block; `mine` is a history of what it found.
Get(t) ==
    LET mine == Locked /\ lock.owner = Token(t) IN
    /\ tick[t].pc = "get"
    /\ tick' = [tick EXCEPT ![t].pc = IF mine THEN "del" ELSE "idle", ![t].mine = mine]
    /\ UNCHANGED <<mode, now, due, lock, beat, worker, extra, missed, raced>>

\* The DEL: the lock may have expired and be another's by now.
Del(t) ==
    /\ tick[t].pc = "del"
    /\ lock' = Free
    /\ tick' = [tick EXCEPT ![t] = NoTick]
    /\ raced' = (raced \/ (tick[t].mine /\ lock.owner # Token(t)))
    /\ UNCHANGED <<mode, now, due, beat, worker, extra, missed>>

\* The process of the function dies, at the latest when maxDuration is up.
Kill(t) ==
    /\ tick[t].pc # "idle"
    /\ tick' = [tick EXCEPT ![t] = NoTick]
    /\ UNCHANGED <<mode, now, due, lock, beat, worker, extra, missed, raced>>

TickStep(t) ==
    \/ Call(t) \/ ExtraCall(t) \/ StartWorker(t) \/ CheckQueue(t) \/ Close(t)
    \/ Get(t) \/ Del(t) \/ Kill(t)

-----------------------------------------------------------------------------
\* "process": the worker process.

\* The process starts with a heartbeat and polls 10 s later.
Boot ==
    /\ mode = "process" /\ worker.st = "down"
    /\ worker' = [st |-> "up", beat |-> now + BeatEvery, polls |-> 0]
    /\ due' = now
    /\ Beat
    /\ UNCHANGED <<mode, now, lock, tick, extra, raced>>

\* A bug: the heartbeat is sent by the poll's timer.
TimerBeatWithPoll ==
    /\ worker.st = "up" /\ now = worker.beat
    /\ worker' = [worker EXCEPT !.beat = now + PollEvery]
    /\ Beat
    /\ UNCHANGED <<mode, now, due, lock, tick, extra, raced>>

TimerBeat ==
    /\ worker.st = "up" /\ now = worker.beat
    /\ worker' = [worker EXCEPT !.beat = now + BeatEvery]
    /\ Beat
    /\ UNCHANGED <<mode, now, due, lock, tick, extra, raced>>

\* The timer starts a poll whether the last one has ended or not.
TimerPoll ==
    /\ worker.st = "up" /\ now = due
    /\ worker' = [worker EXCEPT !.polls = @ + 1]
    /\ due' = now + PollEvery
    /\ UNCHANGED <<mode, now, lock, tick, beat, extra, missed, raced>>

PollEnds ==
    /\ worker.st = "up" /\ worker.polls > 0
    /\ worker' = [worker EXCEPT !.polls = @ - 1]
    /\ UNCHANGED <<mode, now, due, lock, tick, beat, extra, missed, raced>>

\* SIGTERM: the timers stop, and close waits for the jobs in flight.
Shutdown ==
    /\ worker.st = "up"
    /\ worker' = [worker EXCEPT !.st = "closing"]
    /\ UNCHANGED <<mode, now, due, lock, tick, beat, extra, missed, raced>>

\* The process has closed its worker, or dies.
Exit ==
    /\ worker.st # "down"
    /\ worker' = Down
    /\ UNCHANGED <<mode, now, due, lock, tick, beat, extra, missed, raced>>

WorkerStep ==
    Boot \/ TimerBeat \/ TimerPoll \/ PollEnds \/ Shutdown \/ Exit

-----------------------------------------------------------------------------
\* Time passes when no call, no timer and no end of maxDuration is due.
Pass ==
    /\ now < Horizon
    /\ mode = "cron" => now < due
    /\ worker.st = "up" => now < due /\ now < worker.beat
    /\ \A t \in Ticks : tick[t].pc # "idle" => now < tick[t].start + MaxRun
    /\ now' = now + 1
    /\ UNCHANGED <<mode, due, lock, tick, beat, worker, extra, missed, raced>>

Next == (\E t \in Ticks : TickStep(t)) \/ WorkerStep \/ Pass

Spec == Init /\ [][Next]_vars

-----------------------------------------------------------------------------
TypeOK ==
    /\ mode \in {"cron", "process"}
    /\ now \in 0 .. Horizon /\ due \in 0 .. Horizon + PollEvery
    /\ lock \in [owner : {<<>>} \union (Ticks \X (0 .. now)), until : Nat]
    /\ tick \in [Ticks -> [pc : {"idle", "sweep", "drain", "close", "get", "del"},
                           start : 0 .. now, empty : {0, 1}, mine : BOOLEAN]]
    /\ beat \in {None} \union 0 .. now
    /\ worker \in [st : {"down", "up", "closing"}, beat : Nat, polls : Nat]
    /\ extra \in Nat /\ missed \in BOOLEAN /\ raced \in BOOLEAN
=============================================================================
