------------------------ MODULE CommentWorkerProofs ------------------------
(***************************************************************************)
(* Machine-checked proofs about CommentWorker, for any number of campaigns *)
(* and jobs, any attempts and requeues, and any number of faults.          *)
(*                                                                         *)
(* Of any jobs, in any order: what is on record was delivered, through     *)
(* Composio nothing goes out twice, and neither counter falls below what   *)
(* the jobs hold.  The inductive invariant says what a claim excludes and  *)
(* what a job that is about to write a row knows of its delivery.          *)
(*                                                                         *)
(* Of one chain of jobs, taken up one after the other: what is marked or   *)
(* on record is not sent again, and without faults no row is left PENDING  *)
(* to nobody, no public reply is left out, no SENT is lost and nothing     *)
(* that was reserved leaks.  Its invariant says what a job remembers of    *)
(* its row and of the campaigns behind it.                                 *)
(*                                                                         *)
(* Of jobs that run one after the other, with any faults: what they leave  *)
(* is what CommentOutcome says, which CommentIntake takes for the worker.  *)
(*                                                                         *)
(* Of any jobs again: every step but a crash brings one nearer to its end. *)
(***************************************************************************)
EXTENDS CommentWorker, FiniteSetTheorems, TLAPS

(* A row that is skipped is marked with the reason.                        *)
Skips == {"SKIPPED_DEDUP", "SKIPPED_PLAN_LIMIT", "SKIPPED_RATE_LIMIT"}

(* The types of all that a step reads, the two counters left aside: their  *)
(* bound below is a theorem of its own.                                    *)
Typed ==
  /\ provider \in Providers
  /\ log \in [Campaigns -> Rows]
  /\ job \in [Jobs -> JobRecords]
  /\ receipt \in [Channels -> {"none", "claimed", "answered"}]
  /\ delivered \in [Channels -> [Campaigns -> Nat]]
  /\ faults \in 0..Faults

(* What is about to be recorded was delivered; a claim is held only while  *)
(* its send is under way, and then nothing went out on its channel.        *)
Sound(j) ==
  /\ job[j].state # "active" => job[j].step = "read"
  /\ job[j].state # "failed" => job[j].attempts < MaxAttempts
  /\ job[j].mark \in {"none"} \union Skips
  /\ job[j].step = "skip" => job[j].mark \in Skips
  /\ job[j].step \in {"defer", "requeue"} => RequeueAttempt(j) < MaxRequeue
  /\ job[j].step = "sent" => Copies("dm") # {}
  /\ job[j].step = "replied" => Copies("reply") # {}
  /\ job[j].claimed =>
       /\ provider = "COMPOSIO" /\ Sending(j) /\ receipt[Channel(j)] = "claimed"
       /\ Copies(Channel(j)) = {}

(* One job at most holds the claim of a channel; a free channel has sent   *)
(* nothing, an answered one something, and none has sent twice.            *)
Claims ==
  /\ \A i, j \in Jobs : job[i].claimed /\ job[j].claimed /\ Channel(i) = Channel(j) => i = j
  /\ \A k \in Channels : receipt[k] = "answered" => Copies(k) # {}
  /\ provider = "COMPOSIO" =>
       \A k \in Channels :
         /\ receipt[k] = "none" => Copies(k) = {}
         /\ \A a \in Copies(k) : delivered[k][a] = 1
         /\ \A a, b \in Copies(k) : a = b

(* All of it, with the claims of the runs' RecordsAreTrue.                 *)
IInv == Typed /\ RecordsAreTrue /\ Claims /\ \A j \in Jobs : Sound(j)

-----------------------------------------------------------------------------
(* The records a step gives its job.                                       *)

(* A worker runs job j.                                                    *)
Active(j) == job[j].state = "active"

(* A job at the start of a campaign, or not under way, remembers nothing.  *)
Blank(q) == /\ q.step = "read" /\ q.mark = "none" /\ q.err = "none"
            /\ q.needsDm = FALSE /\ q.replyDue = FALSE /\ q.claimed = FALSE

(* Any fresh record is a job's record and blank.                           *)
LEMMA FreshTyped ==
  ASSUME NEW state \in {"absent", "waiting", "active", "completed", "failed"},
         NEW n \in 0..MaxAttempts, NEW a \in Campaigns
  PROVE  /\ Fresh(state, n, a) \in JobRecords /\ Blank(Fresh(state, n, a))
         /\ Fresh(state, n, a).state = state /\ Fresh(state, n, a).attempts = n
         /\ Fresh(state, n, a).at = a
BY DEF Fresh, JobRecords, Steps, Statuses, Errors, Blank

(* What a job's record holds, field by field.                              *)
LEMMA JobFields ==
  ASSUME NEW q \in JobRecords
  PROVE  /\ q.state \in {"absent", "waiting", "active", "completed", "failed"}
         /\ q.attempts \in 0..MaxAttempts /\ q.step \in Steps /\ q.at \in Campaigns
         /\ q.found \in BOOLEAN /\ q.needsDm \in BOOLEAN /\ q.replyDue \in BOOLEAN
         /\ q.mark \in Statuses /\ q.err \in Errors /\ q.claimed \in BOOLEAN
BY DEF JobRecords

(* The next campaign of the list, or the end of the job, starts blank and  *)
(* keeps the attempts.                                                     *)
LEMMA AdvancedIs ==
  ASSUME job \in [Jobs -> JobRecords], NEW j \in Jobs
  PROVE  /\ Advanced(j) \in JobRecords /\ Blank(Advanced(j))
         /\ Advanced(j).attempts = job[j].attempts
         /\ \/ /\ Here(j) < NCampaigns /\ Advanced(j).state = "active"
               /\ Advanced(j).at = Here(j) + 1
            \/ /\ Here(j) = NCampaigns /\ Advanced(j).state = "completed"
               /\ Advanced(j).at = 1
<1>1. job[j].attempts \in 0..MaxAttempts /\ Here(j) \in Campaigns
  BY JobFields DEF Here
<1>2. 1 \in Campaigns /\ (Here(j) < NCampaigns => Here(j) + 1 \in Campaigns)
      /\ (Here(j) < NCampaigns \/ Here(j) = NCampaigns)
  BY <1>1, CommentWorkerAssumption DEF Campaigns
<1> QED
  BY <1>1, <1>2, FreshTyped DEF Advanced

(* A job that throws waits for its next attempt or has failed; either way  *)
(* it is blank and back at the first campaign.                             *)
LEMMA ThrownIs ==
  ASSUME job \in [Jobs -> JobRecords], NEW j \in Jobs, job[j].attempts < MaxAttempts, NEW err
  PROVE  /\ Thrown(j, err) \in JobRecords /\ Blank(Thrown(j, err))
         /\ Thrown(j, err).attempts \in 1..MaxAttempts /\ Thrown(j, err).at = 1
         /\ \/ Thrown(j, err).state = "failed"
            \/ Thrown(j, err).state = "waiting" /\ Thrown(j, err).attempts < MaxAttempts
<1>1. job[j].attempts + 1 \in 1..MaxAttempts
  BY JobFields, CommentWorkerAssumption
<1>2. 1 \in Campaigns /\ 1..MaxAttempts \subseteq 0..MaxAttempts /\ MaxAttempts \in Nat
  BY CommentWorkerAssumption DEF Campaigns
<1> DEFINE n == job[j].attempts + 1
<1>3. n \in 0..MaxAttempts
  BY <1>1, <1>2
<1>4. CASE err = "unconfirmed" \/ n = MaxAttempts
  <2>1. Thrown(j, err) = Fresh("failed", n, 1)
    BY <1>4 DEF Thrown
  <2> QED
    BY <1>1, <1>2, <1>3, <2>1, FreshTyped
<1>5. CASE ~(err = "unconfirmed" \/ n = MaxAttempts)
  <2>1. Thrown(j, err) = Fresh("waiting", n, 1) /\ n < MaxAttempts
    BY <1>1, <1>2, <1>5 DEF Thrown
  <2> QED
    BY <1>1, <1>2, <1>3, <2>1, FreshTyped
<1> QED
  BY <1>4, <1>5

(* Past the public reply the job remembers what it read.                   *)
LEMMA AfterReplyIs ==
  ASSUME job \in [Jobs -> JobRecords], NEW j \in Jobs
  PROVE  /\ AfterReply(j) \in JobRecords
         /\ ~job[j].needsDm => AfterReply(j) = Advanced(j)
         /\ job[j].needsDm =>
              /\ AfterReply(j).state = job[j].state /\ AfterReply(j).step = "dedup"
              /\ AfterReply(j).at = job[j].at /\ AfterReply(j).attempts = job[j].attempts
              /\ AfterReply(j).mark = job[j].mark /\ AfterReply(j).needsDm = job[j].needsDm
              /\ AfterReply(j).claimed = FALSE
<1>1. job[j] \in JobRecords
  OBVIOUS
<1> QED
  BY <1>1, AdvancedIs DEF AfterReply, JobRecords, Steps, Errors

(* What an outcome leads to: the reply is noted one way or the other, the  *)
(* private reply is recorded, tried again as text or undone.               *)
LEMMA LandingsAre ==
  ASSUME job \in [Jobs -> JobRecords], NEW j \in Jobs, Sending(j), NEW answer \in Errors,
         NEW q \in Landings(j, answer)
  PROVE  /\ q \in JobRecords
         /\ q.state = "active" /\ q.at = job[j].at /\ q.attempts = job[j].attempts
         /\ q.mark = job[j].mark /\ q.needsDm = job[j].needsDm /\ q.claimed = FALSE
         /\ IF Channel(j) = "reply" THEN q.step = IF answer = "none" THEN "replied" ELSE "reply-failed"
            ELSE IF answer = "none" THEN q.step = "sent" ELSE q.step \in {"free-slot", "text"}
<1>1. job[j] \in JobRecords /\ job[j].state = "active" /\ job[j].step \in {"reply", "dm", "text"}
  BY DEF Sending, At
<1>2. CASE job[j].step = "reply"
  <2>1. q = [job[j] EXCEPT !.step = IF answer = "none" THEN "replied" ELSE "reply-failed",
                           !.err = answer, !.claimed = FALSE]
    BY <1>2 DEF Landings
  <2> QED
    BY <1>1, <1>2, <2>1 DEF JobRecords, Steps, Channel
<1>3. CASE job[j].step # "reply" /\ answer = "none"
  <2>1. q = [job[j] EXCEPT !.step = "sent", !.err = answer, !.claimed = FALSE]
    BY <1>1, <1>3 DEF Landings
  <2> QED
    BY <1>1, <1>3, <2>1 DEF JobRecords, Steps, Channel
<1>4. CASE job[j].step # "reply" /\ answer # "none"
  <2>1. \/ q = Undo(j, answer) \/ q = Undo(j, "error")
        \/ q = [job[j] EXCEPT !.step = "text", !.claimed = FALSE]
    BY <1>1, <1>4 DEF Landings
  <2> QED
    BY <1>1, <1>4, <2>1 DEF JobRecords, Steps, Errors, Channel, Undo
<1> QED
  BY <1>2, <1>3, <1>4

-----------------------------------------------------------------------------
(* No job has begun, no row exists and nothing was delivered.              *)
LEMMA InitInv == Init => IInv
<1> SUFFICES ASSUME Init PROVE IInv
  OBVIOUS
<1>1. \A j \in Jobs : /\ job[j] \in JobRecords /\ Blank(job[j]) /\ job[j].state # "failed"
                      /\ job[j].attempts = 0 /\ job[j].claimed = FALSE
  <2> TAKE j \in Jobs
  <2>1. 0 \in 0..MaxAttempts /\ 1 \in Campaigns
    BY CommentWorkerAssumption DEF Campaigns
  <2>2. CASE j \in BaseJobs
    <3>1. job[j] = Fresh("waiting", 0, 1)
      BY <2>2 DEF Init
    <3>2. /\ Fresh("waiting", 0, 1) \in JobRecords /\ Blank(Fresh("waiting", 0, 1))
          /\ Fresh("waiting", 0, 1).state = "waiting" /\ Fresh("waiting", 0, 1).attempts = 0
      BY <2>1, FreshTyped
    <3> QED
      BY <3>1, <3>2 DEF Blank
  <2>3. CASE j \notin BaseJobs
    <3>1. job[j] = Fresh("absent", 0, 1)
      BY <2>3 DEF Init
    <3>2. /\ Fresh("absent", 0, 1) \in JobRecords /\ Blank(Fresh("absent", 0, 1))
          /\ Fresh("absent", 0, 1).state = "absent" /\ Fresh("absent", 0, 1).attempts = 0
      BY <2>1, FreshTyped
    <3> QED
      BY <3>1, <3>2 DEF Blank
  <2> QED
    BY <2>2, <2>3
<1>2. Typed
  <2>1. job \in [Jobs -> JobRecords]
    BY <1>1 DEF Init
  <2>2. log \in [Campaigns -> Rows]
    BY DEF Init, NoRow, Rows, Statuses
  <2> QED
    BY <2>1, <2>2, CommentWorkerAssumption DEF Init, Typed
<1>3. \A k \in Channels : Copies(k) = {}
  BY DEF Init, Copies
<1>4. \A j \in Jobs : Sound(j)
  BY <1>1, CommentWorkerAssumption DEF Sound, Blank
<1>5. Claims
  BY <1>1, <1>3 DEF Init, Claims
<1>6. RecordsAreTrue
  BY DEF Init, NoRow, RecordsAreTrue
<1> QED
  BY <1>2, <1>4, <1>5, <1>6 DEF IInv

(* A step of one job.                                                      *)
Only(j) == \A i \in Jobs \ {j} : job'[i] = job[i]

(* A step that replaces the record of job j leaves the other jobs alone.   *)
LEMMA MoveIs ==
  ASSUME job \in [Jobs -> JobRecords], NEW j \in Jobs, NEW q, job' = [job EXCEPT ![j] = q]
  PROVE  job'[j] = q /\ Only(j) /\ (q \in JobRecords => job' \in [Jobs -> JobRecords])
BY DEF Only

(* A record that holds no claim and is not about to record a delivery.     *)
Plain(j, q) ==
  /\ q \in JobRecords /\ q.claimed = FALSE
  /\ q.state # "active" => q.step = "read"
  /\ q.state # "failed" => q.attempts < MaxAttempts
  /\ q.mark \in {"none"} \union Skips
  /\ q.step = "skip" => q.mark \in Skips
  /\ q.step \notin {"sent", "replied"}
  /\ q.step \in {"defer", "requeue"} => RequeueAttempt(j) < MaxRequeue

(* A step that sends nothing and leaves the receipts alone.                *)
LEMMA QuietStep ==
  ASSUME IInv, NEW j \in Jobs, UNCHANGED <<provider, receipt, delivered>>,
         Plain(j, job'[j]), job' \in [Jobs -> JobRecords],
         \A i \in Jobs \ {j} : job'[i] = job[i] \/
           /\ job[i].state = "absent" /\ job'[i] = [job[i] EXCEPT !.state = "waiting"],
         log' \in [Campaigns -> Rows], RecordsAreTrue', faults' \in 0..Faults
  PROVE  IInv'
<1>1. Typed'
  BY DEF IInv, Typed
<1>2. \A k : Copies(k)' = Copies(k)
  BY DEF Copies
<1>3. ASSUME NEW i \in Jobs \ {j} PROVE Sound(i)' /\ (job'[i].claimed => job[i].claimed)
                                        /\ (job'[i].claimed => Channel(i)' = Channel(i))
  <2>1. CASE job'[i] = job[i]
    BY <1>2, <2>1 DEF IInv, Sound, Sending, At, Channel
  <2>2. CASE job[i].state = "absent" /\ job'[i] = [job[i] EXCEPT !.state = "waiting"]
    <3>1. /\ job'[i].state = "waiting" /\ job'[i].step = job[i].step
          /\ job'[i].attempts = job[i].attempts /\ job'[i].mark = job[i].mark
          /\ job'[i].claimed = job[i].claimed
      BY <2>2 DEF IInv, Typed, JobRecords
    <3>2. Sound(i) /\ job[i].claimed = FALSE
      BY <2>2 DEF IInv, Sound, Sending, At, Typed, JobRecords
    <3> QED
      BY <1>2, <2>2, <3>1, <3>2 DEF Sound
  <2> QED
    BY <2>1, <2>2
<1>4. Sound(j)' /\ ~job'[j].claimed
  BY DEF Plain, Sound
<1>5. Claims'
  BY <1>2, <1>3, <1>4 DEF IInv, Claims
<1> QED
  BY <1>1, <1>3, <1>4, <1>5 DEF IInv

(* What a step writes on the row of its campaign.                          *)
LEMMA StatusWritten ==
  ASSUME IInv, NEW j \in Jobs, NEW status \in Statuses, SetStatus(j, status),
         UNCHANGED delivered, status = "SENT" => Copies("dm") # {}
  PROVE  log' \in [Campaigns -> Rows] /\ RecordsAreTrue'
<1>1. log' = [log EXCEPT ![Here(j)] = [log[Here(j)] EXCEPT !.status = status]]
  BY DEF SetStatus
<1>2. \A a \in Campaigns : log[a] \in Rows
  BY DEF IInv, Typed
<1>3. \A a \in Campaigns : [log[a] EXCEPT !.status = status] \in Rows
  BY <1>2 DEF Rows
<1>4. \A a \in Campaigns : /\ [log[a] EXCEPT !.status = status].status = status
                           /\ [log[a] EXCEPT !.status = status].replied = log[a].replied
  BY <1>2 DEF Rows
<1>5. \A a \in Campaigns : /\ log'[a].status \in {log[a].status, status}
                           /\ log'[a].replied = log[a].replied
  BY <1>1, <1>4 DEF IInv, Typed
<1> QED
  BY <1>1, <1>3, <1>5 DEF IInv, Typed, RecordsAreTrue, Copies

(* Writing a row keeps the log typed, and true as long as the status and   *)
(* the flag of the reply speak of deliveries that took place.              *)
LEMMA RowWritten ==
  ASSUME IInv, NEW j \in Jobs, NEW row \in Rows, Write(j, row), UNCHANGED delivered,
         row.status = "SENT" => Copies("dm") # {}, row.replied => Copies("reply") # {}
  PROVE  log' \in [Campaigns -> Rows] /\ RecordsAreTrue'
<1>1. log' \in [Campaigns -> Rows] /\ \A a \in Campaigns : log'[a] = log[a] \/ log'[a] = row
  BY DEF Write, IInv, Typed
<1> QED
  BY <1>1 DEF IInv, RecordsAreTrue, Copies

(* A step that leaves the log and the deliveries alone keeps it true.      *)
LEMMA LogKept ==
  ASSUME IInv, UNCHANGED <<log, delivered>>
  PROVE  log' \in [Campaigns -> Rows] /\ RecordsAreTrue'
BY DEF IInv, Typed, RecordsAreTrue, Copies

-----------------------------------------------------------------------------
(* One lemma per step.                                                     *)

(* A job under way, between its sends, holds no claim.                     *)
LEMMA UnderWay ==
  ASSUME IInv, NEW j \in Jobs, Active(j)
  PROVE  /\ job \in [Jobs -> JobRecords] /\ job[j] \in JobRecords
         /\ job[j].attempts < MaxAttempts /\ job[j].mark \in {"none"} \union Skips
         /\ job[j].step \notin {"reply", "dm", "text"} => job[j].claimed = FALSE
BY DEF IInv, Typed, Sound, Active, Sending, At, JobRecords

(* The job moves on and nothing is sent.                                   *)
LEMMA Moved ==
  ASSUME IInv, NEW j \in Jobs, UNCHANGED <<provider, receipt, delivered>>,
         NEW q, job' = [job EXCEPT ![j] = q], Plain(j, q),
         log' \in [Campaigns -> Rows], RecordsAreTrue', faults' \in 0..Faults
  PROVE  IInv'
<1>1. job \in [Jobs -> JobRecords] /\ q \in JobRecords
  BY DEF IInv, Typed, Plain
<1>2. job'[j] = q /\ Only(j) /\ job' \in [Jobs -> JobRecords]
  BY <1>1, MoveIs
<1>3. \A i \in Jobs \ {j} : job'[i] = job[i]
  BY <1>2 DEF Only
<1> QED
  BY <1>2, <1>3, QuietStep

(* A record that differs in its step, and perhaps in what it remembers.    *)
LEMMA StepIsPlain ==
  ASSUME IInv, NEW j \in Jobs, Active(j), job[j].step \notin {"reply", "dm", "text"},
         NEW step \in Steps \ {"sent", "replied", "skip", "defer", "requeue"}
  PROVE  Plain(j, [job[j] EXCEPT !.step = step])
<1>1. /\ job[j] \in JobRecords /\ job[j].state = "active" /\ job[j].attempts < MaxAttempts
      /\ job[j].mark \in {"none"} \union Skips /\ job[j].claimed = FALSE
  BY UnderWay DEF Active
<1> QED
  BY <1>1 DEF Plain, JobRecords

(* The same, with the error that is to be thrown.                          *)
LEMMA ErrStepIsPlain ==
  ASSUME IInv, NEW j \in Jobs, Active(j), NEW step \in Steps \ {"sent", "replied", "skip", "defer", "requeue"},
         NEW err \in Errors
  PROVE  /\ Plain(j, [job[j] EXCEPT !.step = step, !.err = err, !.claimed = FALSE])
         /\ job[j].claimed = FALSE => Plain(j, [job[j] EXCEPT !.step = step, !.err = err])
<1>1. /\ job[j] \in JobRecords /\ job[j].state = "active" /\ job[j].attempts < MaxAttempts
      /\ job[j].mark \in {"none"} \union Skips
  BY UnderWay DEF Active
<1> QED
  BY <1>1 DEF Plain, JobRecords

(* Plain: on to the delayed requeue, while the chain has room.             *)
LEMMA DeferIsPlain ==
  ASSUME IInv, NEW j \in Jobs, Active(j), job[j].step \notin {"reply", "dm", "text"},
         NEW step \in {"defer", "requeue"}, RequeueAttempt(j) < MaxRequeue
  PROVE  Plain(j, [job[j] EXCEPT !.step = step])
<1>1. /\ job[j] \in JobRecords /\ job[j].state = "active" /\ job[j].attempts < MaxAttempts
      /\ job[j].mark \in {"none"} \union Skips /\ job[j].claimed = FALSE
  BY UnderWay DEF Active
<1>2. step \in Steps
  BY DEF Steps
<1> QED
  BY <1>1, <1>2 DEF Plain, JobRecords

(* Plain: on to the marking of a skipped row.                              *)
LEMMA SkipIsPlain ==
  ASSUME IInv, NEW j \in Jobs, Active(j), job[j].step \notin {"reply", "dm", "text"},
         NEW mark \in Skips
  PROVE  Plain(j, [job[j] EXCEPT !.step = "skip", !.mark = mark])
<1>1. /\ job[j] \in JobRecords /\ job[j].state = "active" /\ job[j].attempts < MaxAttempts
      /\ job[j].claimed = FALSE
  BY UnderWay DEF Active
<1>2. mark \in Statuses /\ "skip" \in Steps
  BY DEF Skips, Statuses, Steps
<1> QED
  BY <1>1, <1>2 DEF Plain, JobRecords

(* Two fields of one record are set in one assignment.                     *)
LEMMA Marked ==
  ASSUME job \in [Jobs -> JobRecords], NEW j \in Jobs, NEW mark
  PROVE  [job EXCEPT ![j].step = "skip", ![j].mark = mark] =
           [job EXCEPT ![j] = [job[j] EXCEPT !.step = "skip", !.mark = mark]]
BY DEF JobRecords

(* Plain: the next campaign.                                               *)
LEMMA AdvancedIsPlain ==
  ASSUME IInv, NEW j \in Jobs, Active(j)
  PROVE  Plain(j, Advanced(j))
BY UnderWay, AdvancedIs DEF Plain, Blank

(* Plain: past the public reply.                                           *)
LEMMA AfterReplyIsPlain ==
  ASSUME IInv, NEW j \in Jobs, Active(j)
  PROVE  Plain(j, AfterReply(j))
<1>1. CASE ~job[j].needsDm
  BY <1>1, UnderWay, AfterReplyIs, AdvancedIsPlain
<1>2. CASE job[j].needsDm
  BY <1>2, UnderWay, AfterReplyIs DEF Plain, Active
<1> QED
  BY <1>1, <1>2

(* Plain: the error is thrown.                                             *)
LEMMA ThrownIsPlain ==
  ASSUME IInv, NEW j \in Jobs, Active(j), NEW err
  PROVE  Plain(j, Thrown(j, err))
BY UnderWay, ThrownIs DEF Plain, Blank

(* The worker takes the job up.                                            *)
LEMMA StartStep == ASSUME IInv, NEW j \in Jobs, Start(j) PROVE IInv'
<1>1. /\ job[j] \in JobRecords /\ job[j].state = "waiting" /\ job[j].attempts < MaxAttempts
      /\ job[j].mark \in {"none"} \union Skips /\ job[j].claimed = FALSE /\ job[j].step = "read"
  BY DEF Start, IInv, Typed, Sound, Sending, At, JobRecords
<1>2. Plain(j, [job[j] EXCEPT !.state = "active"])
  BY <1>1 DEF Plain, JobRecords
<1>3. faults \in 0..Faults /\ log' \in [Campaigns -> Rows] /\ RecordsAreTrue'
  BY LogKept DEF Start, IInv, Typed
<1> QED
  BY <1>2, <1>3, Moved DEF Start

(* It reads the row of the campaign it is at.                              *)
LEMMA ReadLogStep == ASSUME IInv, NEW j \in Jobs, ReadLog(j) PROVE IInv'
<1>1. Active(j) /\ job[j].step = "read"
  BY DEF ReadLog, At, Active
<1>2. faults' \in 0..Faults /\ log' \in [Campaigns -> Rows] /\ RecordsAreTrue'
  BY LogKept DEF ReadLog, IInv, Typed
<1>3. CASE Advance(j)
  BY <1>1, <1>2, <1>3, AdvancedIsPlain, Moved DEF ReadLog, Advance
<1>4. CASE job' = [job EXCEPT ![j].step = "write", ![j].found = (Row(j).status # "none"),
                              ![j].needsDm = NeedsDm(j), ![j].replyDue = ReplyDue(j)]
  <2> DEFINE q == [job[j] EXCEPT !.step = "write", !.found = (Row(j).status # "none"),
                                 !.needsDm = NeedsDm(j), !.replyDue = ReplyDue(j)]
  <2>1. /\ (Row(j).status # "none") \in BOOLEAN /\ NeedsDm(j) \in BOOLEAN
        /\ ReplyDue(j) \in BOOLEAN
    BY DEF NeedsDm, ReplyDue
  <2>2. Plain(j, q)
    <3>1. /\ job[j] \in JobRecords /\ job[j].state = "active" /\ job[j].claimed = FALSE
          /\ job[j].attempts < MaxAttempts /\ job[j].mark \in {"none"} \union Skips
      BY <1>1, UnderWay DEF Active
    <3>2. "write" \in Steps
      BY DEF Steps
    <3> QED
      BY <2>1, <3>1, <3>2 DEF Plain, JobRecords
  <2>3. job' = [job EXCEPT ![j] = q]
    BY <1>4 DEF IInv, Typed, JobRecords
  <2> HIDE DEF q
  <2> QED
    BY <1>2, <2>2, <2>3, Moved DEF ReadLog
<1> QED
  BY <1>3, <1>4 DEF ReadLog

(* It makes the row PENDING, and goes to the reply or past it.             *)
LEMMA WriteLogStep == ASSUME IInv, NEW j \in Jobs, WriteLog(j) PROVE IInv'
<1>1. Active(j) /\ job[j].step = "write"
  BY DEF WriteLog, At, Active
<1>2. faults' \in 0..Faults
  BY DEF WriteLog, IInv, Typed
<1>3. CASE Throw(j, "error") /\ UNCHANGED log
  <2>1. log' \in [Campaigns -> Rows] /\ RecordsAreTrue'
    BY <1>3, LogKept DEF WriteLog
  <2> QED
    BY <1>1, <1>2, <1>3, <2>1, ThrownIsPlain, Moved DEF WriteLog, Throw
<1>4. CASE /\ IF job[j].needsDm THEN SetStatus(j, "PENDING") ELSE UNCHANGED log
           /\ IF job[j].replyDue THEN Go(j, "reply")
                                 ELSE job' = [job EXCEPT ![j] = AfterReply(j)]
  <2>1. log' \in [Campaigns -> Rows] /\ RecordsAreTrue'
    BY <1>4, LogKept, StatusWritten DEF WriteLog, Statuses
  <2>2. CASE Go(j, "reply")
    BY <1>1, <1>2, <2>1, <2>2, StepIsPlain, Moved DEF WriteLog, Go, Steps
  <2>3. CASE job' = [job EXCEPT ![j] = AfterReply(j)]
    BY <1>1, <1>2, <2>1, <2>3, AfterReplyIsPlain, Moved DEF WriteLog
  <2> QED
    BY <1>4, <2>2, <2>3
<1> QED
  BY <1>3, <1>4 DEF WriteLog

(* Without a token the row is FAILED, which claims nothing.                *)
LEMMA NoCredentialsStep == ASSUME IInv, NEW j \in Jobs, NoCredentials(j) PROVE IInv'
<1>1. Active(j)
  BY DEF NoCredentials, At, Active
<1>2. faults' \in 0..Faults
  BY CommentWorkerAssumption DEF NoCredentials, IInv, Typed
<1>3. log' \in [Campaigns -> Rows] /\ RecordsAreTrue'
  BY StatusWritten DEF NoCredentials, Statuses
<1> QED
  BY <1>1, <1>2, <1>3, AdvancedIsPlain, Moved DEF NoCredentials, Advance

(* A recorded reply was delivered: the record said so.                     *)
LEMMA RecordReplyStep == ASSUME IInv, NEW j \in Jobs, RecordReply(j) PROVE IInv'
<1>1. Active(j)
  BY DEF RecordReply, At, Active
<1>2. faults' \in 0..Faults /\ Copies("reply") # {}
  BY DEF RecordReply, At, IInv, Typed, Sound
<1>3. Row(j) \in Rows
  BY JobFields DEF Row, Here, IInv, Typed
<1>4. /\ [Row(j) EXCEPT !.replied = TRUE] \in Rows
      /\ [Row(j) EXCEPT !.replied = TRUE].status = Row(j).status
  BY <1>3 DEF Rows
<1>5. Row(j).status = "SENT" => Copies("dm") # {}
  BY JobFields DEF IInv, Typed, RecordsAreTrue, Row, Here
<1>6. log' \in [Campaigns -> Rows] /\ RecordsAreTrue'
  BY <1>2, <1>4, <1>5, RowWritten DEF RecordReply
<1> QED
  BY <1>1, <1>2, <1>6, AfterReplyIsPlain, Moved DEF RecordReply

(* A failed reply only sets the flag of the doubt.                         *)
LEMMA RecordReplyErrorStep == ASSUME IInv, NEW j \in Jobs, RecordReplyError(j) PROVE IInv'
<1>1. Active(j)
  BY DEF RecordReplyError, At, Active
<1>2. faults' \in 0..Faults
  BY DEF RecordReplyError, IInv, Typed
<1>3. Row(j) \in Rows
  BY JobFields DEF Row, Here, IInv, Typed
<1> DEFINE row == [Row(j) EXCEPT !.replyUnconfirmed = (job[j].err = "unconfirmed")]
<1>4. row \in Rows /\ row.status = Row(j).status /\ row.replied = Row(j).replied
  BY <1>3 DEF Rows
<1>5. /\ Row(j).status = "SENT" => Copies("dm") # {}
      /\ Row(j).replied => Copies("reply") # {}
  BY JobFields DEF IInv, Typed, RecordsAreTrue, Row, Here
<1>6. Write(j, row)
  BY DEF RecordReplyError
<1> HIDE DEF row
<1>7. log' \in [Campaigns -> Rows] /\ RecordsAreTrue'
  BY <1>4, <1>5, <1>6, RowWritten DEF RecordReplyError
<1> QED
  BY <1>1, <1>2, <1>7, AfterReplyIsPlain, Moved DEF RecordReplyError

(* It looks for an earlier private reply to the person.                    *)
LEMMA DedupStep == ASSUME IInv, NEW j \in Jobs, Dedup(j) PROVE IInv'
<1>1. Active(j) /\ job[j].step = "dedup"
  BY DEF Dedup, At, Active
<1>2. faults' \in 0..Faults /\ log' \in [Campaigns -> Rows] /\ RecordsAreTrue'
  BY LogKept DEF Dedup, IInv, Typed
<1>3. CASE job' = [job EXCEPT ![j].step = "skip", ![j].mark = "SKIPPED_DEDUP"]
  <2> DEFINE q == [job[j] EXCEPT !.step = "skip", !.mark = "SKIPPED_DEDUP"]
  <2>1. Plain(j, q)
    BY <1>1, SkipIsPlain DEF Skips
  <2>2. job' = [job EXCEPT ![j] = q]
    BY <1>1, <1>3, Marked, UnderWay
  <2> HIDE DEF q
  <2> QED
    BY <1>2, <2>1, <2>2, Moved DEF Dedup
<1>4. CASE Go(j, "usage")
  BY <1>1, <1>2, <1>4, StepIsPlain, Moved DEF Dedup, Go, Steps
<1> QED
  BY <1>3, <1>4 DEF Dedup

(* A skipped row claims no delivery.                                       *)
LEMMA SkipStep == ASSUME IInv, NEW j \in Jobs, Skip(j) PROVE IInv'
<1>1. Active(j) /\ job[j].mark \in Skips /\ job[j].mark \in Statuses /\ job[j].mark # "SENT"
  BY DEF Skip, At, Active, IInv, Sound, Skips, Statuses
<1>2. faults' \in 0..Faults
  BY DEF Skip, IInv, Typed
<1>3. log' \in [Campaigns -> Rows] /\ RecordsAreTrue'
  BY <1>1, StatusWritten DEF Skip
<1> QED
  BY <1>1, <1>2, <1>3, AdvancedIsPlain, Moved DEF Skip, Advance

(* A message of the month is reserved, or the plan is at its end.          *)
LEMMA ReserveUsageStep == ASSUME IInv, NEW j \in Jobs, ReserveUsage(j) PROVE IInv'
<1>1. Active(j) /\ job[j].step = "usage"
  BY DEF ReserveUsage, At, Active
<1>2. faults' \in 0..Faults /\ log' \in [Campaigns -> Rows] /\ RecordsAreTrue'
  BY LogKept DEF ReserveUsage, IInv, Typed
<1>3. CASE Go(j, "slot")
  BY <1>1, <1>2, <1>3, StepIsPlain, Moved DEF ReserveUsage, Go, Steps
<1>4. CASE job' = [job EXCEPT ![j].step = "skip", ![j].mark = "SKIPPED_PLAN_LIMIT"]
  <2> DEFINE q == [job[j] EXCEPT !.step = "skip", !.mark = "SKIPPED_PLAN_LIMIT"]
  <2>1. Plain(j, q)
    BY <1>1, SkipIsPlain DEF Skips
  <2>2. job' = [job EXCEPT ![j] = q]
    BY <1>1, <1>4, Marked, UnderWay
  <2> HIDE DEF q
  <2> QED
    BY <1>2, <2>1, <2>2, Moved DEF ReserveUsage
<1> QED
  BY <1>3, <1>4 DEF ReserveUsage

(* A slot of the hour is reserved, or there is none.                       *)
LEMMA ReserveSlotStep == ASSUME IInv, NEW j \in Jobs, ReserveSlot(j) PROVE IInv'
<1>1. Active(j) /\ job[j].step = "slot"
  BY DEF ReserveSlot, At, Active
<1>2. faults' \in 0..Faults /\ log' \in [Campaigns -> Rows] /\ RecordsAreTrue'
  BY LogKept DEF ReserveSlot, IInv, Typed
<1>3. CASE Go(j, "dm")
  BY <1>1, <1>2, <1>3, StepIsPlain, Moved DEF ReserveSlot, Go, Steps
<1>4. CASE Go(j, "no-slot")
  BY <1>1, <1>2, <1>4, StepIsPlain, Moved DEF ReserveSlot, Go, Steps
<1> QED
  BY <1>3, <1>4 DEF ReserveSlot

(* Without a slot the message of the month goes back.                      *)
LEMMA NoSlotStep == ASSUME IInv, NEW j \in Jobs, NoSlot(j) PROVE IInv'
<1>1. Active(j) /\ job[j].step = "no-slot"
  BY DEF NoSlot, At, Active
<1>2. faults' \in 0..Faults /\ log' \in [Campaigns -> Rows] /\ RecordsAreTrue'
  BY LogKept DEF NoSlot, IInv, Typed
<1>3. CASE job' = [job EXCEPT ![j].step = "skip", ![j].mark = "SKIPPED_RATE_LIMIT"]
  <2> DEFINE q == [job[j] EXCEPT !.step = "skip", !.mark = "SKIPPED_RATE_LIMIT"]
  <2>1. Plain(j, q)
    BY <1>1, SkipIsPlain DEF Skips
  <2>2. job' = [job EXCEPT ![j] = q]
    BY <1>1, <1>3, Marked, UnderWay
  <2> HIDE DEF q
  <2> QED
    BY <1>2, <2>1, <2>2, Moved DEF NoSlot
<1>4. CASE job' = [job EXCEPT ![j].step = "defer"] /\ RequeueAttempt(j) < MaxRequeue
  BY <1>1, <1>2, <1>4, DeferIsPlain, Moved DEF NoSlot
<1>5. RequeueAttempt(j) >= MaxRequeue \/ RequeueAttempt(j) < MaxRequeue
  BY CommentWorkerAssumption DEF RequeueAttempt, Jobs, RetryJobs
<1> QED
  BY <1>3, <1>4, <1>5 DEF NoSlot, Blocked

(* A deferred row is PENDING, or skipped at the end of the chain.          *)
LEMMA DeferStep == ASSUME IInv, NEW j \in Jobs, Defer(j) PROVE IInv'
<1>1. Active(j) /\ job[j].step = "defer" /\ RequeueAttempt(j) < MaxRequeue
  BY DEF Defer, At, Active, IInv, Sound
<1>2. faults' \in 0..Faults
  BY DEF Defer, IInv, Typed
<1>3. log' \in [Campaigns -> Rows] /\ RecordsAreTrue'
  BY StatusWritten DEF Defer, Statuses
<1> QED
  BY <1>1, <1>2, <1>3, DeferIsPlain, Moved DEF Defer, Go

(* A private reply on record was delivered: the record said so.            *)
LEMMA RecordSentStep == ASSUME IInv, NEW j \in Jobs, RecordSent(j) PROVE IInv'
<1>1. Active(j) /\ Copies("dm") # {}
  BY DEF RecordSent, At, Active, IInv, Sound
<1>2. faults' \in 0..Faults
  BY DEF RecordSent, IInv, Typed
<1>3. log' \in [Campaigns -> Rows] /\ RecordsAreTrue'
  BY <1>1, StatusWritten DEF RecordSent, Statuses
<1> QED
  BY <1>1, <1>2, <1>3, AdvancedIsPlain, Moved DEF RecordSent, Advance

(* The slot goes back.                                                     *)
LEMMA FreeSlotStep == ASSUME IInv, NEW j \in Jobs, FreeSlot(j) PROVE IInv'
<1>1. Active(j) /\ job[j].step = "free-slot"
  BY DEF FreeSlot, At, Active
<1>2. faults' \in 0..Faults /\ log' \in [Campaigns -> Rows] /\ RecordsAreTrue'
  BY LogKept DEF FreeSlot, IInv, Typed
<1> QED
  BY <1>1, <1>2, StepIsPlain, Moved DEF FreeSlot, Go, Steps

(* The message of the month goes back.                                     *)
LEMMA FreeUsageStep == ASSUME IInv, NEW j \in Jobs, FreeUsage(j) PROVE IInv'
<1>1. Active(j) /\ job[j].step = "free-usage"
  BY DEF FreeUsage, At, Active
<1>2. faults' \in 0..Faults /\ log' \in [Campaigns -> Rows] /\ RecordsAreTrue'
  BY LogKept DEF FreeUsage, IInv, Typed
<1> QED
  BY <1>1, <1>2, StepIsPlain, Moved DEF FreeUsage, Go, Steps

(* The row is FAILED and the error thrown.                                 *)
LEMMA FailStep == ASSUME IInv, NEW j \in Jobs, Fail(j) PROVE IInv'
<1>1. Active(j)
  BY DEF Fail, At, Active
<1>2. faults' \in 0..Faults
  BY DEF Fail, IInv, Typed
<1>3. Row(j) \in Rows
  BY JobFields DEF Row, Here, IInv, Typed
<1> DEFINE row == [Row(j) EXCEPT !.status = "FAILED",
                                 !.dmUnconfirmed = (job[j].err = "unconfirmed")]
<1>4. row \in Rows /\ row.status = "FAILED" /\ row.replied = Row(j).replied
  BY <1>3 DEF Rows, Statuses
<1>5. Row(j).replied => Copies("reply") # {}
  BY JobFields DEF IInv, Typed, RecordsAreTrue, Row, Here
<1>6. Write(j, row)
  BY DEF Fail
<1> HIDE DEF row
<1>7. log' \in [Campaigns -> Rows] /\ RecordsAreTrue'
  BY <1>4, <1>5, <1>6, RowWritten DEF Fail
<1> QED
  BY <1>1, <1>2, <1>7, ThrownIsPlain, Moved DEF Fail, Throw

(* A crash forgets the claim in the job; the one on the channel stays, and *)
(* with it the channel is closed for good.                                 *)
LEMMA CrashStep == ASSUME IInv, NEW j \in Jobs, Crash(j) PROVE IInv'
<1>1. /\ job[j].attempts \in 0..MaxAttempts /\ job[j].attempts < MaxAttempts
      /\ 1 \in Campaigns
  <2>1. job[j] \in JobRecords /\ job[j].attempts < MaxAttempts
    BY UnderWay DEF Crash, Active
  <2> QED
    BY <2>1, JobFields, CommentWorkerAssumption DEF Campaigns
<1>2. faults' \in 0..Faults
  BY CommentWorkerAssumption DEF Crash, IInv, Typed
<1>3. log' \in [Campaigns -> Rows] /\ RecordsAreTrue'
  BY LogKept DEF Crash
<1>4. Plain(j, Fresh("waiting", job[j].attempts, 1))
  <2> DEFINE q == Fresh("waiting", job[j].attempts, 1)
  <2>1. /\ q \in JobRecords /\ Blank(q) /\ q.state = "waiting"
        /\ q.attempts = job[j].attempts
    BY <1>1, FreshTyped
  <2> HIDE DEF q
  <2>2. Plain(j, q)
    BY <1>1, <2>1 DEF Plain, Blank
  <2> QED
    BY <2>2 DEF q
<1> QED
  BY <1>2, <1>3, <1>4, Moved DEF Crash


(* The job a requeue puts into the queue is another one of the chain.      *)
LEMMA NextRequeue ==
  ASSUME NEW j \in Jobs, RequeueAttempt(j) < MaxRequeue
  PROVE  /\ RequeueAttempt(j) + 1 \in RetryJobs /\ RequeueAttempt(j) + 1 \in Jobs
         /\ RequeueAttempt(j) + 1 # j
<1>1. CASE j \in BaseJobs
  <2>1. RequeueAttempt(j) = 0
    BY <1>1 DEF RequeueAttempt
  <2>2. 1 \in RetryJobs /\ 0 + 1 = 1
    BY <2>1, CommentWorkerAssumption DEF RetryJobs
  <2>3. 1 \notin BaseJobs
    BY <2>2, CommentWorkerAssumption
  <2> QED
    BY <1>1, <2>1, <2>2, <2>3 DEF Jobs
<1>2. CASE j \notin BaseJobs
  <2>1. RequeueAttempt(j) = j /\ j \in 1..MaxRequeue
    BY <1>2 DEF RequeueAttempt, Jobs, RetryJobs
  <2> QED
    BY <2>1, CommentWorkerAssumption DEF RetryJobs, Jobs
<1> QED
  BY <1>1, <1>2

(* What a requeue does to the queue.                                       *)
LEMMA RequeueIs ==
  ASSUME IInv, NEW j \in Jobs, Requeue(j), NEW r, r = RequeueAttempt(j) + 1
  PROVE  /\ r \in RetryJobs /\ r \in Jobs /\ r # j
         /\ job' \in [Jobs -> JobRecords] /\ job'[j] = Advanced(j)
         /\ job'[r] = [job[r] EXCEPT !.state = IF job[r].state = "absent" THEN "waiting"
                                                                          ELSE job[r].state]
         /\ job[r].state # "absent" => job'[r] = job[r]
         /\ \A i \in Jobs \ {j, r} : job'[i] = job[i]
<1>1. Active(j) /\ RequeueAttempt(j) < MaxRequeue
  BY DEF Requeue, At, Active, IInv, Sound
<1>2. r \in RetryJobs /\ r \in Jobs /\ r # j
  BY <1>1, NextRequeue
<1> DEFINE other == [job[r] EXCEPT !.state = IF job[r].state = "absent" THEN "waiting"
                                                                       ELSE job[r].state]
<1>3. Advanced(j) \in JobRecords /\ job \in [Jobs -> JobRecords]
  BY <1>1, UnderWay, AdvancedIs
<1>4. job' = [[job EXCEPT ![j] = Advanced(j)] EXCEPT ![r] = other]
  BY <1>2, <1>3 DEF Requeue
<1>5. other \in JobRecords /\ (job[r].state # "absent" => other = job[r])
  BY <1>2, <1>3 DEF JobRecords
<1> HIDE DEF other
<1>6. /\ job' \in [Jobs -> JobRecords] /\ job'[j] = Advanced(j) /\ job'[r] = other
      /\ \A i \in Jobs \ {j, r} : job'[i] = job[i]
  BY <1>2, <1>3, <1>4, <1>5
<1> QED
  BY <1>2, <1>5, <1>6 DEF other

(* The next requeue waits and the job goes on.                             *)
LEMMA RequeueStep == ASSUME IInv, NEW j \in Jobs, Requeue(j) PROVE IInv'
<1>1. Active(j)
  BY DEF Requeue, At, Active
<1>2. faults' \in 0..Faults /\ log' \in [Campaigns -> Rows] /\ RecordsAreTrue'
  BY LogKept DEF Requeue, IInv, Typed
<1>3. job' \in [Jobs -> JobRecords] /\ Plain(j, job'[j])
  BY <1>1, RequeueIs, AdvancedIsPlain
<1>4. ASSUME NEW i \in Jobs \ {j}
      PROVE  job'[i] = job[i] \/ /\ job[i].state = "absent"
                                 /\ job'[i] = [job[i] EXCEPT !.state = "waiting"]
  BY RequeueIs
<1> QED
  BY <1>2, <1>3, <1>4, QuietStep DEF Requeue

(* A send that fails before anything was sent, or is answered from its     *)
(* receipt.                                                                *)
LEMMA LandStep ==
  ASSUME IInv, NEW j \in Jobs, Sending(j), NEW answer \in Errors, Land(j, answer),
         UNCHANGED <<provider, log, receipt, delivered>>, faults' \in 0..Faults,
         answer = "none" => Copies(Channel(j)) # {}
  PROVE  IInv'
<1>1. Active(j) /\ job \in [Jobs -> JobRecords] /\ job[j].attempts < MaxAttempts
      /\ job[j].mark \in {"none"} \union Skips
  BY UnderWay DEF Sending, At, Active
<1>2. PICK q \in Landings(j, answer) : job' = [job EXCEPT ![j] = q]
  BY DEF Land
<1>3. /\ q \in JobRecords
      /\ q.state = "active" /\ q.at = job[j].at /\ q.attempts = job[j].attempts
      /\ q.mark = job[j].mark /\ q.claimed = FALSE
      /\ IF Channel(j) = "reply" THEN q.step = IF answer = "none" THEN "replied" ELSE "reply-failed"
         ELSE IF answer = "none" THEN q.step = "sent" ELSE q.step \in {"free-slot", "text"}
  BY <1>1, LandingsAre
<1>4. job'[j] = q /\ Only(j) /\ job' \in [Jobs -> JobRecords]
  BY <1>1, <1>2, <1>3, MoveIs
<1>5. log' \in [Campaigns -> Rows] /\ RecordsAreTrue'
  BY LogKept
<1>6. Typed'
  BY <1>4, <1>5 DEF IInv, Typed
<1>7. \A k : Copies(k)' = Copies(k)
  BY DEF Copies
<1>8. Sound(j)' /\ ~job'[j].claimed
  <2>1. Channel(j) \in {"reply", "dm"}
    BY DEF Channel
  <2>2. (q.step = "sent" => Copies("dm") # {}) /\ (q.step = "replied" => Copies("reply") # {})
    BY <1>3, <2>1
  <2> QED
    BY <1>1, <1>3, <1>4, <1>7, <2>2 DEF Sound
<1>9. ASSUME NEW i \in Jobs \ {j}
      PROVE  Sound(i)' /\ job'[i] = job[i] /\ Channel(i)' = Channel(i)
  BY <1>4, <1>7 DEF Only, IInv, Sound, Sending, At, Channel
<1>10. Claims'
  BY <1>7, <1>8, <1>9 DEF IInv, Claims
<1> QED
  BY <1>5, <1>6, <1>8, <1>9, <1>10 DEF IInv

(* The first claim of a free channel holds it alone; a claim that is       *)
(* already there answers from the receipt or fails the send.               *)
LEMMA ClaimReceiptStep == ASSUME IInv, NEW j \in Jobs, ClaimReceipt(j) PROVE IInv'
<1> DEFINE k == Channel(j)
<1>1. /\ Active(j) /\ job \in [Jobs -> JobRecords] /\ job[j].attempts < MaxAttempts
      /\ job[j].mark \in {"none"} \union Skips /\ Sending(j) /\ provider = "COMPOSIO"
      /\ job[j].claimed = FALSE /\ k \in Channels /\ faults' \in 0..Faults
  BY UnderWay DEF ClaimReceipt, Sending, At, Active, Channel, Channels, IInv, Typed, JobRecords
<1>2. CASE Land(j, "unconfirmed") /\ UNCHANGED receipt
  BY <1>1, <1>2, LandStep DEF ClaimReceipt, Errors
<1>3. CASE receipt[k] = "answered" /\ Land(j, "none") /\ UNCHANGED receipt
  BY <1>1, <1>3, LandStep DEF ClaimReceipt, Errors, IInv, Claims
<1>4. CASE /\ receipt[k] = "none" /\ receipt' = [receipt EXCEPT ![k] = "claimed"]
           /\ job' = [job EXCEPT ![j].claimed = TRUE]
  <2> DEFINE q == [job[j] EXCEPT !.claimed = TRUE]
  <2>1. /\ q \in JobRecords /\ q.state = job[j].state /\ q.step = job[j].step
        /\ q.attempts = job[j].attempts /\ q.mark = job[j].mark /\ q.claimed = TRUE
    BY <1>1 DEF JobRecords
  <2>2. job' = [job EXCEPT ![j] = q]
    BY <1>4
  <2> HIDE DEF q
  <2>3. job'[j] = q /\ Only(j) /\ job' \in [Jobs -> JobRecords]
    BY <1>1, <2>1, <2>2, MoveIs
  <2>4. /\ receipt' \in [Channels -> {"none", "claimed", "answered"}] /\ receipt'[k] = "claimed"
        /\ \A c \in Channels \ {k} : receipt'[c] = receipt[c]
    BY <1>1, <1>4 DEF IInv, Typed
  <2>5. (\A c : Copies(c)' = Copies(c)) /\ Copies(k) = {}
    BY <1>1, <1>4 DEF ClaimReceipt, Copies, IInv, Claims
  <2>6. log' \in [Campaigns -> Rows] /\ RecordsAreTrue'
    BY LogKept DEF ClaimReceipt
  <2>7. Typed'
    BY <1>1, <2>3, <2>4, <2>6 DEF ClaimReceipt, IInv, Typed
  <2>8. \A i \in Jobs : /\ Channel(i)' = Channel(i) /\ Sending(i)' = Sending(i)
                        /\ Channel(i) \in Channels
    BY <2>1, <2>3 DEF Only, Channel, Channels, Sending, At
  <2>9. \A i \in Jobs : job[i].claimed => Channel(i) # k
    BY <1>4 DEF IInv, Sound
  <2>10. Sound(j)'
    BY <1>1, <2>1, <2>3, <2>4, <2>5, <2>8 DEF IInv, Sound, ClaimReceipt
  <2>11. ASSUME NEW i \in Jobs \ {j} PROVE Sound(i)'
    BY <2>3, <2>4, <2>5, <2>8, <2>9 DEF Only, IInv, Sound, ClaimReceipt
  <2>12. Claims'
    <3>1. \A i \in Jobs : job'[i].claimed => i = j \/ job[i].claimed
      BY <2>3 DEF Only
    <3>2. \A a, b \in Jobs : job'[a].claimed /\ job'[b].claimed /\ Channel(a)' = Channel(b)' => a = b
      BY <2>8, <2>9, <3>1 DEF IInv, Claims
    <3>3. /\ \A c \in Channels : receipt'[c] = "answered" => Copies(c)' # {}
          /\ \A c \in Channels : receipt'[c] = "none" => Copies(c)' = {}
      BY <1>1, <2>4, <2>5 DEF IInv, Claims
    <3>4. \A c \in Channels : /\ \A a \in Copies(c) : delivered[c][a] = 1
                              /\ \A a, b \in Copies(c) : a = b
      BY <1>1 DEF IInv, Claims
    <3>5. delivered' = delivered
      BY DEF ClaimReceipt
    <3> QED
      BY <2>5, <3>2, <3>3, <3>4, <3>5 DEF Claims
  <2> QED
    BY <2>6, <2>7, <2>10, <2>11, <2>12 DEF IInv
<1>5. receipt[k] \in {"none", "claimed", "answered"}
  BY <1>1 DEF IInv, Typed
<1> QED
  BY <1>2, <1>3, <1>4, <1>5 DEF ClaimReceipt

(* What a send does to the deliveries: one more at most, of its campaign.  *)
LEMMA Delivery ==
  ASSUME IInv, NEW j \in Jobs, Active(j), NEW k \in Channels, NEW sent \in BOOLEAN,
         delivered' = IF sent THEN [delivered EXCEPT ![k][Here(j)] = @ + 1] ELSE delivered
  PROVE  /\ delivered' \in [Channels -> [Campaigns -> Nat]]
         /\ \A c \in Channels : Copies(c) \subseteq Copies(c)'
         /\ \A c \in Channels \ {k} : delivered'[c] = delivered[c] /\ Copies(c)' = Copies(c)
         /\ ~sent => Copies(k)' = Copies(k)
         /\ sent /\ Copies(k) = {} => Copies(k)' = {Here(j)} /\ delivered'[k][Here(j)] = 1
         /\ sent => Copies(k)' # {}
<1>1. Here(j) \in Campaigns /\ delivered \in [Channels -> [Campaigns -> Nat]]
  BY JobFields DEF Here, IInv, Typed
<1>2. CASE ~sent
  BY <1>1, <1>2 DEF Copies
<1>3. CASE sent
  <2> DEFINE counts == [delivered[k] EXCEPT ![Here(j)] = delivered[k][Here(j)] + 1]
  <2>1. delivered' = [delivered EXCEPT ![k] = counts]
    BY <1>3
  <2>2. /\ counts \in [Campaigns -> Nat] /\ counts[Here(j)] = delivered[k][Here(j)] + 1
        /\ \A a \in Campaigns \ {Here(j)} : counts[a] = delivered[k][a]
    BY <1>1
  <2> HIDE DEF counts
  <2>3. /\ delivered' \in [Channels -> [Campaigns -> Nat]] /\ delivered'[k] = counts
        /\ \A c \in Channels \ {k} : delivered'[c] = delivered[c]
    BY <1>1, <2>1, <2>2
  <2>4. \A c \in Channels \ {k} : Copies(c)' = Copies(c)
    BY <2>3 DEF Copies
  <2>5. \A a \in Campaigns : delivered[k][a] \in Nat
    BY <1>1
  <2>6. Copies(k) \subseteq Copies(k)' /\ Here(j) \in Copies(k)'
    BY <1>1, <2>2, <2>3, <2>5 DEF Copies
  <2>7. Copies(k) = {} => Copies(k)' = {Here(j)} /\ delivered'[k][Here(j)] = 1
    BY <1>1, <2>2, <2>3, <2>5 DEF Copies
  <2> QED
    BY <1>3, <2>3, <2>4, <2>6, <2>7
<1> QED
  BY <1>2, <1>3

(* A send delivers once at most, and through Composio only under the       *)
(* claim, which it gives up with the outcome.                              *)
LEMMA SendStep == ASSUME IInv, NEW j \in Jobs, Send(j) PROVE IInv'
<1>0. PICK k \in Channels : k = Channel(j)
  BY DEF Channel, Channels
<1>1. /\ Active(j) /\ job \in [Jobs -> JobRecords] /\ job[j].attempts < MaxAttempts
      /\ job[j].mark \in {"none"} \union Skips /\ Sending(j)
      /\ UNCHANGED <<provider, log, faults>>
  BY UnderWay DEF Send, Sending, At, Active
<1>2. PICK o \in Outcomes :
        /\ delivered' = IF o.sent THEN [delivered EXCEPT ![k][Here(j)] = @ + 1] ELSE delivered
        /\ receipt' = IF provider = "COMPOSIO"
                      THEN [receipt EXCEPT ![k] = Settled(k, o.err)] ELSE receipt
        /\ Land(j, o.err)
  BY <1>0 DEF Send
<1>3. /\ o.sent \in BOOLEAN /\ o.err \in Errors
      /\ o.err = "none" => o.sent
      /\ o.err = "error" => ~o.sent
      /\ provider = "COMPOSIO" => o.err \in {"none", "error", "unconfirmed"}
  <2>1. \/ o = [sent |-> TRUE, err |-> "none"] \/ o = [sent |-> FALSE, err |-> "error"]
        \/ provider = "META" /\ \E s \in BOOLEAN : o = [sent |-> s, err |-> "lost"]
        \/ provider # "META" /\ \E s \in BOOLEAN : o = [sent |-> s, err |-> "unconfirmed"]
    BY DEF Outcomes
  <2>2. CASE o = [sent |-> TRUE, err |-> "none"]
    <3>1. o.sent = TRUE /\ o.err = "none"
      BY <2>2
    <3> QED
      BY <3>1 DEF Errors
  <2>5. CASE o = [sent |-> FALSE, err |-> "error"]
    <3>1. o.sent = FALSE /\ o.err = "error"
      BY <2>5
    <3> QED
      BY <3>1 DEF Errors
  <2>3. ASSUME provider = "META", NEW s \in BOOLEAN, o = [sent |-> s, err |-> "lost"]
        PROVE  /\ o.sent \in BOOLEAN /\ o.err \in Errors /\ o.err \notin {"none", "error"}
               /\ provider # "COMPOSIO"
    BY <2>3 DEF Errors
  <2>4. ASSUME NEW s \in BOOLEAN, o = [sent |-> s, err |-> "unconfirmed"]
        PROVE  o.sent \in BOOLEAN /\ o.err \in Errors /\ o.err = "unconfirmed"
    BY <2>4 DEF Errors
  <2> QED
    BY <2>1, <2>2, <2>3, <2>4, <2>5
<1>4. /\ delivered' \in [Channels -> [Campaigns -> Nat]]
      /\ \A c \in Channels : Copies(c) \subseteq Copies(c)'
      /\ \A c \in Channels \ {k} : delivered'[c] = delivered[c] /\ Copies(c)' = Copies(c)
      /\ ~o.sent => Copies(k)' = Copies(k)
      /\ o.sent /\ Copies(k) = {} => Copies(k)' = {Here(j)} /\ delivered'[k][Here(j)] = 1
      /\ o.sent => Copies(k)' # {}
  BY <1>0, <1>1, <1>2, <1>3, Delivery
<1>5. PICK q \in Landings(j, o.err) : job' = [job EXCEPT ![j] = q]
  BY <1>2 DEF Land
<1>6. /\ q \in JobRecords
      /\ q.state = "active" /\ q.at = job[j].at /\ q.attempts = job[j].attempts
      /\ q.mark = job[j].mark /\ q.claimed = FALSE
      /\ IF k = "reply" THEN q.step = IF o.err = "none" THEN "replied" ELSE "reply-failed"
         ELSE IF o.err = "none" THEN q.step = "sent" ELSE q.step \in {"free-slot", "text"}
  BY <1>0, <1>1, <1>3, LandingsAre
<1>7. job'[j] = q /\ Only(j) /\ job' \in [Jobs -> JobRecords]
  BY <1>1, <1>5, <1>6, MoveIs
<1>8. \A i \in Jobs \ {j} : job'[i] = job[i] /\ Channel(i)' = Channel(i)
                            /\ Sending(i)' = Sending(i) /\ Channel(i) \in Channels
  BY <1>7 DEF Only, Channel, Channels, Sending, At
<1>9. /\ receipt' \in [Channels -> {"none", "claimed", "answered"}]
      /\ \A c \in Channels \ {k} : receipt'[c] = receipt[c]
      /\ provider # "COMPOSIO" => receipt' = receipt
      /\ provider = "COMPOSIO" => receipt'[k] = Settled(k, o.err)
  <2>1. receipt \in [Channels -> {"none", "claimed", "answered"}]
    BY DEF IInv, Typed
  <2>2. Settled(k, o.err) \in {"none", "claimed", "answered"}
    BY <2>1 DEF Settled
  <2> QED
    BY <1>1, <1>2, <2>1, <2>2
<1>10. provider = "COMPOSIO" =>
         /\ receipt[k] = "claimed" /\ Copies(k) = {}
         /\ receipt'[k] = "answered" => o.sent
         /\ receipt'[k] = "none" => ~o.sent
  BY <1>0, <1>1, <1>3, <1>9 DEF Send, IInv, Sound, Settled
<1>11. RecordsAreTrue'
  BY <1>1, <1>4 DEF IInv, RecordsAreTrue, Channels
<1>12. Typed'
  BY <1>1, <1>4, <1>7, <1>9 DEF IInv, Typed
<1>13. Sound(j)' /\ ~job'[j].claimed
  <2>1. (q.step = "sent" => Copies("dm")' # {}) /\ (q.step = "replied" => Copies("reply")' # {})
    <3>1. k \in {"reply", "dm"}
      BY <1>1 DEF Channels
    <3> QED
      BY <1>3, <1>4, <1>6, <3>1
  <2>2. q.step \notin {"skip", "defer", "requeue"}
    BY <1>6
  <2> QED
    BY <1>1, <1>6, <1>7, <2>1, <2>2 DEF Sound
<1>14. \A i \in Jobs \ {j} : job[i].claimed => provider = "COMPOSIO" /\ Channel(i) # k
  <2> SUFFICES ASSUME NEW i \in Jobs \ {j}, job[i].claimed
               PROVE  provider = "COMPOSIO" /\ Channel(i) # k
    OBVIOUS
  <2>1. provider = "COMPOSIO" /\ job[j].claimed
    BY DEF IInv, Sound, Send
  <2> QED
    BY <1>0, <2>1 DEF IInv, Claims
<1>15. ASSUME NEW i \in Jobs \ {j} PROVE Sound(i)'
  BY <1>1, <1>4, <1>8, <1>9, <1>14 DEF IInv, Sound, Channels
<1>16. Claims'
  <2>1. \A a, b \in Jobs : job'[a].claimed /\ job'[b].claimed /\ Channel(a)' = Channel(b)' => a = b
    BY <1>8, <1>13 DEF IInv, Claims
  <2>2. \A c \in Channels : receipt'[c] = "answered" => Copies(c)' # {}
    BY <1>4, <1>9, <1>10 DEF IInv, Claims
  <2>3. ASSUME provider = "COMPOSIO", NEW c \in Channels
        PROVE  /\ receipt'[c] = "none" => Copies(c)' = {}
               /\ \A a \in Copies(c)' : delivered'[c][a] = 1
               /\ \A a, b \in Copies(c)' : a = b
    <3>1. CASE c # k
      BY <1>4, <1>9, <2>3, <3>1 DEF IInv, Claims
    <3>2. CASE c = k /\ ~o.sent
      <4>1. Copies(k)' = {}
        BY <1>4, <1>10, <2>3, <3>2
      <4> QED
        BY <3>2, <4>1
    <3>3. CASE c = k /\ o.sent
      <4>1. Copies(k)' = {Here(j)} /\ delivered'[k][Here(j)] = 1 /\ receipt'[k] # "none"
        BY <1>4, <1>10, <2>3, <3>3
      <4> QED
        BY <3>3, <4>1
    <3> QED
      BY <1>3, <3>1, <3>2, <3>3
  <2> QED
    BY <1>1, <2>1, <2>2, <2>3 DEF Claims
<1> QED
  BY <1>11, <1>12, <1>13, <1>15, <1>16 DEF IInv

(* A failed statement sends nothing and records nothing.                   *)
LEMMA StatementFailsStep == ASSUME IInv, NEW j \in Jobs, StatementFails(j) PROVE IInv'
<1>1. Active(j) /\ job \in [Jobs -> JobRecords]
  BY UnderWay DEF StatementFails, Active
<1>2. faults' \in 0..Faults
  BY CommentWorkerAssumption DEF StatementFails, IInv, Typed
<1>3. log' \in [Campaigns -> Rows] /\ RecordsAreTrue'
  BY LogKept DEF StatementFails
<1>4. CASE Sending(j) /\ Land(j, "error")
  BY <1>2, <1>4, LandStep DEF StatementFails, Errors
<1>5. CASE job' = [job EXCEPT ![j].step = "reply-failed", ![j].err = "error"]
  <2> DEFINE q == [job[j] EXCEPT !.step = "reply-failed", !.err = "error"]
  <2>1. job[j].step \notin {"reply", "dm", "text"} => Plain(j, q)
    BY <1>1, UnderWay, ErrStepIsPlain DEF Steps, Errors
  <2>2. job' = [job EXCEPT ![j] = q]
    BY <1>1, <1>5 DEF JobRecords
  <2>3. CASE job[j].step \notin {"reply", "dm", "text"}
    <3> HIDE DEF q
    <3> QED
      BY <1>2, <1>3, <2>1, <2>2, <2>3, Moved DEF StatementFails
  <2>4. CASE job[j].step \in {"reply", "dm", "text"}
    BY <1>1, <1>4, <2>4 DEF StatementFails, Sending, At, Active
  <2> QED
    BY <2>3, <2>4
<1>6. CASE job' = [job EXCEPT ![j] = AfterReply(j)]
  BY <1>1, <1>2, <1>3, <1>6, AfterReplyIsPlain, Moved DEF StatementFails
<1>7. CASE job' = [job EXCEPT ![j] = Undo(j, "error")]
  <2>1. Plain(j, Undo(j, "error"))
    BY <1>1, ErrStepIsPlain DEF Undo, Steps, Errors
  <2> QED
    BY <1>2, <1>3, <1>7, <2>1, Moved DEF StatementFails
<1>8. CASE ~Sending(j) /\ job' = [job EXCEPT ![j].step = "free-usage", ![j].err = "error"]
  <2> DEFINE q == [job[j] EXCEPT !.step = "free-usage", !.err = "error"]
  <2>1. job[j].step \notin {"reply", "dm", "text"}
    BY <1>1, <1>8 DEF Sending, At, Active
  <2>2. Plain(j, q)
    BY <1>1, <2>1, UnderWay, ErrStepIsPlain DEF Steps, Errors
  <2>3. job' = [job EXCEPT ![j] = q]
    BY <1>1, <1>8 DEF JobRecords
  <2> HIDE DEF q
  <2> QED
    BY <1>2, <1>3, <2>2, <2>3, Moved DEF StatementFails
<1>9. CASE Throw(j, "error")
  BY <1>1, <1>2, <1>3, <1>9, ThrownIsPlain, Moved DEF StatementFails, Throw
<1>10. CASE Sending(j)
  <2>1. job[j].step \in {"reply", "dm", "text"}
    BY <1>10 DEF Sending, At
  <2>2. Land(j, "error")
    BY <1>10, <2>1 DEF StatementFails
  <2> QED
    BY <1>4, <1>10, <2>2
<1>11. CASE ~Sending(j)
  <2>1. \/ job' = [job EXCEPT ![j].step = "reply-failed", ![j].err = "error"]
        \/ job' = [job EXCEPT ![j] = AfterReply(j)]
        \/ job' = [job EXCEPT ![j] = Undo(j, "error")]
        \/ job' = [job EXCEPT ![j].step = "free-usage", ![j].err = "error"]
        \/ Throw(j, "error")
    BY <1>11 DEF StatementFails
  <2> QED
    BY <1>5, <1>6, <1>7, <1>8, <1>9, <1>11, <2>1
<1> QED
  BY <1>10, <1>11

(* Every step preserves the invariant: of JobStep, of Fault, none at all.  *)
LEMMA InvStep == IInv /\ [Next]_vars => IInv'
<1> SUFFICES ASSUME IInv, [Next]_vars PROVE IInv'
  OBVIOUS
<1>1. ASSUME NEW j \in Jobs, JobStep(j) PROVE IInv'
  BY <1>1, StartStep, ReadLogStep, WriteLogStep, RecordReplyStep, RecordReplyErrorStep,
     ClaimReceiptStep, SendStep, DedupStep, SkipStep, ReserveUsageStep, ReserveSlotStep,
     NoSlotStep, DeferStep, RequeueStep, RecordSentStep, FreeSlotStep, FreeUsageStep,
     FailStep DEF JobStep
<1>2. ASSUME NEW j \in Jobs, Fault(j) PROVE IInv'
  BY <1>2, NoCredentialsStep, CrashStep, StatementFailsStep DEF Fault
<1>3. CASE UNCHANGED vars
  BY <1>3 DEF vars, IInv, Typed, RecordsAreTrue, Claims, Sound, Copies, Channel, Sending, At
<1> QED
  BY <1>1, <1>2, <1>3 DEF Next, Done

(* The worker, for any campaigns, jobs, attempts, requeues, providers and  *)
(* faults, keeps the inductive invariant: claims are exclusive, and what   *)
(* is about to be recorded was delivered.                                  *)
THEOREM Invariance == Spec => []IInv
<1> QED
  BY InitInv, InvStep, PTL DEF Spec

(* What the reply log says was sent or replied was delivered (lines 433    *)
(* and 717 of dm-worker.ts write it after the answer of the provider): no  *)
(* crash, failed statement or lost answer, and no order of the jobs of a   *)
(* comment, makes a row claim a message that never went out.               *)
THEOREM RecordsStayTrue == Spec => []RecordsAreTrue
<1>1. IInv => RecordsAreTrue
  BY DEF IInv
<1> QED
  BY <1>1, Invariance, PTL

(* A channel that never sent twice never sent two campaigns' messages:     *)
(* NothingTwice says it by count.                                          *)
LEMMA OnceEach == IInv /\ provider = "COMPOSIO" => NothingTwice
<1> SUFFICES ASSUME IInv, provider = "COMPOSIO" PROVE NothingTwice
  OBVIOUS
<1>1. \A k \in Channels : /\ \A a \in Copies(k) : delivered[k][a] = 1
                          /\ \A a, b \in Copies(k) : a = b
  BY DEF IInv, Claims
<1>2. ASSUME NEW k \in Channels, NEW a \in Campaigns PROVE delivered[k][a] <= 1
  <2>1. delivered[k][a] \in Nat
    BY DEF IInv, Typed
  <2> QED
    BY <1>1, <2>1 DEF Copies
<1>3. Cardinality(Copies("dm")) <= 1
  <2>1. CASE Copies("dm") = {}
    BY <2>1, FS_EmptySet
  <2>2. CASE Copies("dm") # {}
    <3>1. PICK a \in Copies("dm") : TRUE
      BY <2>2
    <3>2. Copies("dm") = {a}
      BY <1>1, <3>1 DEF Channels
    <3>3. Cardinality({a}) = 1
      BY FS_Singleton
    <3> QED
      BY <3>2, <3>3
  <2> QED
    BY <2>1, <2>2
<1> QED
  BY <1>2, <1>3 DEF NothingTwice

(* Through Composio no public reply and no private reply of a campaign     *)
(* goes out twice, and one private reply at most goes out per comment,     *)
(* however many jobs handle the comment at once, whatever is retried,      *)
(* requeued, lost or crashed: the claims of transport.ts hold it.          *)
THEOREM NothingGoesOutTwice == Spec => [](provider = "COMPOSIO" => NothingTwice)
<1>1. IInv => (provider = "COMPOSIO" => NothingTwice)
  BY OnceEach
<1> QED
  BY <1>1, Invariance, PTL

-----------------------------------------------------------------------------
(* What the receipts promise (AtMostOnceSend), of the messages of one      *)
(* comment: its public reply and its private reply, whichever campaign's.  *)

(* Copies the comment got on a channel: none, one, or too many.            *)
Got(k) ==
  IF Copies(k) = {} THEN 0
  ELSE IF \E a \in Campaigns : Copies(k) = {a} /\ delivered[k][a] = 1 THEN 1 ELSE 2

Promise ==
  INSTANCE AtMostOnceSend WITH
    Messages <- Channels, delivered <- [k \in Channels |-> Got(k)],
    recorded <- {k \in Channels : receipt[k] = "answered"}

(* A step that sends nothing and answers no receipt is none of the promise. *)
LEMMA PromiseKept ==
  ASSUME delivered' = delivered,
         \A k \in Channels : receipt'[k] = "answered" <=> receipt[k] = "answered"
  PROVE  UNCHANGED Promise!vars
<1>1. \A k \in Channels : Got(k)' = Got(k)
  BY DEF Got, Copies
<1> QED
  BY <1>1 DEF Promise!vars

(* A send is a delivery, recorded at once if its answer came.              *)
LEMMA PromiseSend ==
  ASSUME IInv, provider = "COMPOSIO", NEW j \in Jobs, Send(j)
  PROVE  [Promise!Next]_(Promise!vars)
<1>0. PICK k \in Channels : k = Channel(j)
  BY DEF Channel, Channels
<1>1. /\ Active(j) /\ Sending(j) /\ job[j].claimed
      /\ receipt \in [Channels -> {"none", "claimed", "answered"}]
  BY DEF Send, Sending, At, Active, IInv, Typed
<1>2. receipt[k] = "claimed" /\ Copies(k) = {}
  BY <1>0, <1>1 DEF IInv, Sound
<1>3. PICK o \in Outcomes :
        /\ delivered' = IF o.sent THEN [delivered EXCEPT ![k][Here(j)] = @ + 1] ELSE delivered
        /\ receipt' = [receipt EXCEPT ![k] = Settled(k, o.err)]
  BY <1>0 DEF Send
<1>4. o.sent \in BOOLEAN /\ (o.err = "none" => o.sent)
  <2>1. \/ o = [sent |-> TRUE, err |-> "none"] \/ o = [sent |-> FALSE, err |-> "error"]
        \/ \E s \in BOOLEAN : o = [sent |-> s, err |-> "unconfirmed"]
    BY DEF Outcomes
  <2>2. ASSUME NEW s \in BOOLEAN, o = [sent |-> s, err |-> "unconfirmed"]
        PROVE  o.sent \in BOOLEAN /\ o.err # "none"
    <3>1. o.sent = s /\ o.err = "unconfirmed"
      BY <2>2
    <3> QED
      BY <3>1
  <2>3. ASSUME o = [sent |-> TRUE, err |-> "none"] \/ o = [sent |-> FALSE, err |-> "error"]
        PROVE  o.sent \in BOOLEAN /\ (o.err = "none" => o.sent)
    <3>1. CASE o = [sent |-> TRUE, err |-> "none"]
      BY <3>1
    <3>2. CASE o = [sent |-> FALSE, err |-> "error"]
      BY <3>2
    <3> QED
      BY <2>3, <3>1, <3>2
  <2> QED
    BY <2>1, <2>2, <2>3
<1>5. /\ receipt'[k] = Settled(k, o.err)
      /\ \A c \in Channels \ {k} : receipt'[c] = receipt[c]
  BY <1>1, <1>3
<1>6. Settled(k, o.err) = "answered" => o.err = "none"
  BY <1>2 DEF Settled
<1>7. CASE ~o.sent
  <2>1. \A c \in Channels : receipt'[c] = "answered" <=> receipt[c] = "answered"
    BY <1>2, <1>4, <1>5, <1>6, <1>7
  <2> QED
    BY <1>3, <1>7, <2>1, PromiseKept
<1>8. CASE o.sent
  <2>1. /\ \A c \in Channels \ {k} : delivered'[c] = delivered[c] /\ Copies(c)' = Copies(c)
        /\ Copies(k)' = {Here(j)} /\ delivered'[k][Here(j)] = 1
    BY <1>1, <1>2, <1>3, <1>4, <1>8, Delivery
  <2>2. Here(j) \in Campaigns
    BY JobFields DEF Here, IInv, Typed
  <2>3. Got(k) = 0 /\ Got(k)' = 1
    <3>1. Copies(k)' # {} /\ \E a \in Campaigns : Copies(k)' = {a} /\ delivered'[k][a] = 1
      BY <2>1, <2>2
    <3> QED
      BY <1>2, <3>1 DEF Got
  <2>4. \A c \in Channels \ {k} : Got(c)' = Got(c)
    BY <2>1 DEF Got
  <2>5. [c \in Channels |-> Got(c)]' = [[c \in Channels |-> Got(c)] EXCEPT ![k] = 1]
    BY <2>3, <2>4
  <2> DEFINE answered == {c \in Channels : receipt[c] = "answered"}
  <2>6. answered' \in {answered, answered \union {k}}
    <3>1. CASE receipt'[k] = "answered"
      <4>1. answered' = answered \union {k}
        BY <1>5, <3>1
      <4> QED
        BY <4>1
    <3>2. CASE receipt'[k] # "answered"
      <4>1. answered' = answered
        BY <1>2, <1>5, <3>2
      <4> QED
        BY <4>1
    <3> QED
      BY <3>1, <3>2
  <2>7. Promise!Deliver(k)
    BY <2>3, <2>5, <2>6 DEF Promise!Deliver
  <2> QED
    BY <2>7 DEF Promise!Next
<1> QED
  BY <1>4, <1>7, <1>8

(* Through Composio the jobs of a comment, however many run at once and    *)
(* whatever crashes, fails or is lost, keep the receipts' promise: of all  *)
(* its campaigns' public replies one at most reaches the comment, of all   *)
(* their private replies one at most, and a receipt says it was answered   *)
(* for good and only of one that did (lib/composio/transport.ts).          *)
THEOREM ReceiptsKeepThePromise == Spec /\ provider = "COMPOSIO" => Promise!Spec
<1>1. Init => Promise!Init
  <2> SUFFICES ASSUME Init PROVE Promise!Init
    OBVIOUS
  <2>1. \A k \in Channels : Got(k) = 0 /\ receipt[k] # "answered"
    BY DEF Init, Got, Copies
  <2> QED
    BY <2>1 DEF Promise!Init
<1>2. IInv /\ provider = "COMPOSIO" /\ [Next]_vars => [Promise!Next]_(Promise!vars)
  <2> SUFFICES ASSUME IInv, provider = "COMPOSIO", [Next]_vars
               PROVE  [Promise!Next]_(Promise!vars)
    OBVIOUS
  <2>1. ASSUME NEW j \in Jobs, Send(j) PROVE [Promise!Next]_(Promise!vars)
    BY <2>1, PromiseSend
  <2>2. ASSUME NEW j \in Jobs, ClaimReceipt(j) PROVE UNCHANGED Promise!vars
    <3>1. PICK k \in Channels : k = Channel(j)
      BY DEF Channel, Channels
    <3>2. \/ receipt' = receipt
          \/ receipt[k] = "none" /\ receipt' = [receipt EXCEPT ![k] = "claimed"]
      <4>1. receipt[k] \in {"none", "claimed", "answered"}
        BY <3>1 DEF IInv, Typed
      <4> QED
        BY <2>2, <3>1, <4>1 DEF ClaimReceipt
    <3>3. \A c \in Channels : receipt'[c] = "answered" <=> receipt[c] = "answered"
      BY <3>1, <3>2 DEF IInv, Typed
    <3> QED
      BY <2>2, <3>3, PromiseKept DEF ClaimReceipt
  <2>3. CASE UNCHANGED <<receipt, delivered>>
    BY <2>3, PromiseKept
  <2>4. ASSUME NEW j \in Jobs, JobStep(j), ~Send(j), ~ClaimReceipt(j)
        PROVE  UNCHANGED <<receipt, delivered>>
    BY <2>4 DEF JobStep, Start, ReadLog, WriteLog, RecordReply, RecordReplyError, Dedup, Skip,
                ReserveUsage, ReserveSlot, NoSlot, Defer, Requeue, RecordSent, FreeSlot,
                FreeUsage, Fail
  <2>5. ASSUME NEW j \in Jobs, Fault(j) PROVE UNCHANGED <<receipt, delivered>>
    BY <2>5 DEF Fault, NoCredentials, Crash, StatementFails
  <2>6. UNCHANGED vars => UNCHANGED <<receipt, delivered>>
    BY DEF vars
  <2> QED
    BY <2>1, <2>2, <2>3, <2>4, <2>5, <2>6 DEF Next, Done
<1>3. provider = "COMPOSIO" /\ [Next]_vars => (provider = "COMPOSIO")'
  <2> SUFFICES ASSUME [Next]_vars PROVE provider' = provider
    OBVIOUS
  <2>1. ASSUME NEW j \in Jobs, JobStep(j) PROVE provider' = provider
    BY <2>1 DEF JobStep, Start, ReadLog, WriteLog, RecordReply, RecordReplyError, ClaimReceipt,
                Send, Dedup, Skip, ReserveUsage, ReserveSlot, NoSlot, Defer, Requeue,
                RecordSent, FreeSlot, FreeUsage, Fail
  <2>2. ASSUME NEW j \in Jobs, Fault(j) PROVE provider' = provider
    BY <2>2 DEF Fault, NoCredentials, Crash, StatementFails
  <2> QED
    BY <2>1, <2>2 DEF Next, Done, vars
<1> QED
  BY <1>1, <1>2, <1>3, Invariance, PTL DEF Spec, Promise!Spec

-----------------------------------------------------------------------------
(* The reservations.  A fault may leave one taken, never give one back that *)
(* was not.                                                                *)

(* The jobs that hold a slot of the hour,                                  *)
SlotHolders == {j \in Jobs : HoldsSlot(j)}

(* and those that hold a message of the month.                             *)
UsageHolders == {j \in Jobs : HoldsUsage(j)}

(* Neither counter is ever below what the jobs hold.                       *)
Reserved ==
  /\ slots \in Nat /\ slots >= Cardinality(SlotHolders)
  /\ usage \in Nat /\ usage >= Cardinality(UsageHolders)

(* The steps at which a slot is held,                                      *)
SlotSteps == {"dm", "text", "sent", "free-slot"}

(* and those at which a message of the month is.                           *)
UsageSteps == SlotSteps \union {"slot", "no-slot", "free-usage"}

(* How many of a kind a record holds.                                      *)
Held(q, steps) == IF q.state = "active" /\ q.step \in steps THEN 1 ELSE 0

(* The step of one job, which may also put another one into the queue.     *)
OneMoves(j) ==
  \A i \in Jobs \ {j} : job'[i] = job[i] \/
    /\ RequeueAttempt(j) < RequeueAttempt(i) /\ job[i].state = "absent"
    /\ job'[i] = [job[i] EXCEPT !.state = "waiting"]

(* There are finitely many jobs to count.                                  *)
LEMMA JobsFinite == IsFiniteSet(Jobs)
<1>1. IsFiniteSet(RetryJobs)
  BY FS_Interval, CommentWorkerAssumption DEF RetryJobs
<1> QED
  BY <1>1, FS_Union, CommentWorkerAssumption DEF Jobs

(* A set that gains or loses an element.                                   *)
LEMMA OneMore ==
  ASSUME NEW S, IsFiniteSet(S), NEW T, NEW x, NEW before \in 0..1, NEW after \in 0..1,
         x \in S <=> before = 1, x \in T <=> after = 1, S \ {x} = T \ {x}
  PROVE  /\ IsFiniteSet(T) /\ Cardinality(S) \in Nat /\ Cardinality(T) \in Nat
         /\ Cardinality(T) = Cardinality(S) + after - before
<1> DEFINE R == S \ {x}
<1>1. IsFiniteSet(R) /\ x \notin R
  BY FS_RemoveElement
<1>2. Cardinality(R) \in Nat /\ IsFiniteSet(R \union {x})
      /\ Cardinality(R \union {x}) = Cardinality(R) + 1
  BY <1>1, FS_AddElement, FS_CardinalityType
<1>3. S = (IF before = 1 THEN R \union {x} ELSE R) /\ T = (IF after = 1 THEN R \union {x} ELSE R)
  OBVIOUS
<1> HIDE DEF R
<1>4. Cardinality(S) = Cardinality(R) + before /\ Cardinality(T) = Cardinality(R) + after
      /\ IsFiniteSet(T)
  BY <1>1, <1>2, <1>3
<1> QED
  BY <1>2, <1>4

(* The holders, told from their records.                                   *)
LEMMA HolderSets ==
  /\ SlotHolders = {j \in Jobs : Held(job[j], SlotSteps) = 1}
  /\ UsageHolders = {j \in Jobs : Held(job[j], UsageSteps) = 1}
BY DEF SlotHolders, UsageHolders, HoldsSlot, HoldsUsage, At, Held, SlotSteps, UsageSteps

(* What the moving job takes and gives back is what the numbers of holders *)
(* change by.                                                              *)
LEMMA Recount ==
  ASSUME job \in [Jobs -> JobRecords], NEW j \in Jobs, OneMoves(j)
  PROVE  /\ Cardinality(SlotHolders) \in Nat /\ Cardinality(UsageHolders) \in Nat
         /\ Cardinality(SlotHolders') =
              Cardinality(SlotHolders) + Held(job'[j], SlotSteps) - Held(job[j], SlotSteps)
         /\ Cardinality(UsageHolders') =
              Cardinality(UsageHolders) + Held(job'[j], UsageSteps) - Held(job[j], UsageSteps)
<1>1. ASSUME NEW steps
      PROVE  /\ Cardinality({i \in Jobs : Held(job[i], steps) = 1}) \in Nat
             /\ Cardinality({i \in Jobs : Held(job'[i], steps) = 1}) =
                  Cardinality({i \in Jobs : Held(job[i], steps) = 1})
                    + Held(job'[j], steps) - Held(job[j], steps)
  <2> DEFINE S == {i \in Jobs : Held(job[i], steps) = 1}
             T == {i \in Jobs : Held(job'[i], steps) = 1}
  <2>1. Held(job[j], steps) \in 0..1 /\ Held(job'[j], steps) \in 0..1
    BY DEF Held
  <2>2. IsFiniteSet(S)
    BY JobsFinite, FS_Subset
  <2>3. S \ {j} = T \ {j}
    <3>1. ASSUME NEW i \in Jobs \ {j} PROVE Held(job'[i], steps) = Held(job[i], steps)
      <4>1. CASE job'[i] = job[i]
        BY <4>1
      <4>2. CASE job[i].state = "absent" /\ job'[i] = [job[i] EXCEPT !.state = "waiting"]
        <5>1. job'[i].state = "waiting"
          BY <4>2 DEF JobRecords
        <5> QED
          BY <4>2, <5>1 DEF Held
      <4> QED
        BY <4>1, <4>2 DEF OneMoves
    <3> QED
      BY <3>1
  <2>4. (j \in S <=> Held(job[j], steps) = 1) /\ (j \in T <=> Held(job'[j], steps) = 1)
    OBVIOUS
  <2> HIDE DEF S, T
  <2>5. Cardinality(S) \in Nat
        /\ Cardinality(T) = Cardinality(S) + Held(job'[j], steps) - Held(job[j], steps)
    BY <2>1, <2>2, <2>3, <2>4, OneMore
  <2> QED
    BY <2>5 DEF S, T
<1>2. /\ SlotHolders' = {i \in Jobs : Held(job'[i], SlotSteps) = 1}
      /\ UsageHolders' = {i \in Jobs : Held(job'[i], UsageSteps) = 1}
  BY DEF SlotHolders, UsageHolders, HoldsSlot, HoldsUsage, At, Held, SlotSteps, UsageSteps
<1> QED
  BY <1>1, <1>2, HolderSets

(* A step that replaces one record moves one job.                          *)
LEMMA MovesAlone ==
  ASSUME job \in [Jobs -> JobRecords], NEW j \in Jobs, NEW q, job' = [job EXCEPT ![j] = q]
  PROVE  OneMoves(j) /\ job'[j] = q
BY DEF OneMoves

(* Every job has a place in its chain; a requeue's is its number.          *)
LEMMA AttemptsAre ==
  ASSUME NEW j \in Jobs
  PROVE  RequeueAttempt(j) \in Nat /\ (j \in RetryJobs => RequeueAttempt(j) = j)
<1>1. CASE j \in BaseJobs
  BY <1>1, CommentWorkerAssumption DEF RequeueAttempt
<1>2. CASE j \notin BaseJobs
  <2>1. j \in 1..MaxRequeue /\ RequeueAttempt(j) = j
    BY <1>2 DEF RequeueAttempt, Jobs, RetryJobs
  <2> QED
    BY <2>1, CommentWorkerAssumption
<1> QED
  BY <1>1, <1>2

(* A requeue puts a later job into the queue and moves one.                *)
LEMMA RequeueMoves ==
  ASSUME IInv, NEW j \in Jobs, Requeue(j)
  PROVE  OneMoves(j)
<1>1. PICK r : r = RequeueAttempt(j) + 1
  OBVIOUS
<1>2. r \in RetryJobs /\ r \in Jobs /\ RequeueAttempt(j) < RequeueAttempt(r)
  <2>1. r \in RetryJobs /\ r \in Jobs
    BY <1>1, RequeueIs
  <2> QED
    BY <1>1, <2>1, AttemptsAre
<1>3. /\ job[r].state # "absent" => job'[r] = job[r]
      /\ job[r].state = "absent" => job'[r] = [job[r] EXCEPT !.state = "waiting"]
      /\ \A i \in Jobs \ {j, r} : job'[i] = job[i]
  BY <1>1, RequeueIs
<1> SUFFICES ASSUME NEW i \in Jobs \ {j}
             PROVE  job'[i] = job[i] \/
                      /\ RequeueAttempt(j) < RequeueAttempt(i) /\ job[i].state = "absent"
                      /\ job'[i] = [job[i] EXCEPT !.state = "waiting"]
  BY DEF OneMoves
<1>4. CASE i = r
  BY <1>2, <1>3, <1>4
<1>5. CASE i # r
  BY <1>3, <1>5
<1> QED
  BY <1>4, <1>5

(* The holders can be counted after a step, too.                           *)
LEMMA Cards ==
  /\ Cardinality(SlotHolders') \in Nat /\ Cardinality(UsageHolders') \in Nat
<1>1. IsFiniteSet(SlotHolders') /\ IsFiniteSet(UsageHolders')
  BY JobsFinite, FS_Subset DEF SlotHolders, UsageHolders
<1> QED
  BY <1>1, FS_CardinalityType

(* A job pays for what it takes, and a SENT row keeps what its job held.   *)
Kept(j) == IF At(j, "sent") THEN 1 ELSE 0

(* The step of a job changes the counters by what the job takes or gives   *)
(* back, and by what a new SENT row keeps for good.                        *)
Pays(j) ==
  /\ OneMoves(j)
  /\ slots' = slots + Held(job'[j], SlotSteps) - Held(job[j], SlotSteps) + Kept(j)
  /\ usage' = usage + Held(job'[j], UsageSteps) - Held(job[j], UsageSteps) + Kept(j)

(* A step between two that hold the same.                                  *)
LEMMA EvenStep ==
  ASSUME IInv, NEW j \in Jobs, NEW q, job' = [job EXCEPT ![j] = q], slots \in Int, usage \in Int,
         UNCHANGED <<slots, usage>>, ~At(j, "sent"),
         Held(q, SlotSteps) = Held(job[j], SlotSteps),
         Held(q, UsageSteps) = Held(job[j], UsageSteps)
  PROVE  Pays(j)
<1>1. OneMoves(j) /\ job'[j] = q
  BY MovesAlone DEF IInv, Typed
<1>2. Held(q, SlotSteps) \in Int /\ Held(q, UsageSteps) \in Int
  BY DEF Held
<1> QED
  BY <1>1, <1>2 DEF Pays, Kept

(* A step from and to one that holds nothing.                              *)
LEMMA FreeStep ==
  ASSUME IInv, NEW j \in Jobs, NEW q, job' = [job EXCEPT ![j] = q], slots \in Int, usage \in Int,
         UNCHANGED <<slots, usage>>, job[j].step \notin UsageSteps, q.step \notin UsageSteps
  PROVE  Pays(j)
BY EvenStep DEF Held, SlotSteps, UsageSteps, At

(* A blank record holds nothing.                                           *)
LEMMA BlankHoldsNothing ==
  ASSUME NEW q, Blank(q)
  PROVE  q.step \notin UsageSteps /\ Held(q, SlotSteps) = 0 /\ Held(q, UsageSteps) = 0
BY DEF Blank, Held, SlotSteps, UsageSteps

(* Nor does one that is past the public reply.                             *)
LEMMA AfterReplyHoldsNothing ==
  ASSUME IInv, NEW j \in Jobs, Active(j)
  PROVE  AfterReply(j).step \notin UsageSteps
BY UnderWay, AfterReplyIs, AdvancedIs, BlankHoldsNothing DEF SlotSteps, UsageSteps

(* Whatever a send leads to, the job still holds what it held.             *)
LEMMA LandPays ==
  ASSUME IInv, NEW j \in Jobs, Sending(j), NEW answer \in Errors, Land(j, answer),
         slots \in Int, usage \in Int, UNCHANGED <<slots, usage>>
  PROVE  Pays(j)
<1>1. Active(j) /\ job \in [Jobs -> JobRecords] /\ ~At(j, "sent")
  BY UnderWay DEF Sending, At, Active
<1>2. PICK q \in Landings(j, answer) : job' = [job EXCEPT ![j] = q]
  BY DEF Land
<1>3. /\ q.state = "active"
      /\ IF Channel(j) = "reply" THEN q.step = IF answer = "none" THEN "replied" ELSE "reply-failed"
         ELSE IF answer = "none" THEN q.step = "sent" ELSE q.step \in {"free-slot", "text"}
  BY <1>1, LandingsAre
<1>4. /\ Channel(j) = "reply" => job[j].step = "reply"
      /\ Channel(j) # "reply" => job[j].step \in {"dm", "text"}
  BY DEF Channel, Sending, At
<1>5. /\ Held(q, SlotSteps) = Held(job[j], SlotSteps)
      /\ Held(q, UsageSteps) = Held(job[j], UsageSteps)
  BY <1>1, <1>3, <1>4 DEF Held, SlotSteps, UsageSteps, Active
<1> QED
  BY <1>1, <1>2, <1>5, EvenStep

(* Every step of a job pays: a reservation that a step gives up goes back  *)
(* in that step, or is kept by the row that step makes SENT.               *)
LEMMA StepPays ==
  ASSUME IInv, NEW j \in Jobs, JobStep(j), slots \in Int, usage \in Int
  PROVE  Pays(j)
<1> DEFINE q == job[j]
<1>0. job \in [Jobs -> JobRecords] /\ q \in JobRecords
  BY DEF IInv, Typed
<1>1. CASE Start(j)
  <2>1. q.step = "read"
    BY <1>1 DEF Start, IInv, Sound
  <2> DEFINE next == [q EXCEPT !.state = "active"]
  <2>2. next.step = "read"
    BY <1>0, <2>1 DEF JobRecords
  <2>3. job' = [job EXCEPT ![j] = next]
    BY <1>1 DEF Start
  <2> HIDE DEF next
  <2> QED
    BY <1>1, <2>1, <2>2, <2>3, FreeStep DEF Start, SlotSteps, UsageSteps
<1>2. CASE ReadLog(j)
  <2>1. q.step = "read" /\ Active(j)
    BY <1>2 DEF ReadLog, At, Active
  <2>2. CASE Advance(j)
    <3>1. Advanced(j).step \notin UsageSteps
      BY <1>0, AdvancedIs, BlankHoldsNothing
    <3> QED
      BY <1>2, <2>1, <2>2, <3>1, FreeStep DEF ReadLog, Advance, SlotSteps, UsageSteps
  <2>3. CASE job' = [job EXCEPT ![j].step = "write", ![j].found = (Row(j).status # "none"),
                                ![j].needsDm = NeedsDm(j), ![j].replyDue = ReplyDue(j)]
    <3> DEFINE next == [q EXCEPT !.step = "write", !.found = (Row(j).status # "none"),
                                 !.needsDm = NeedsDm(j), !.replyDue = ReplyDue(j)]
    <3>1. next.step = "write"
      BY <1>0 DEF JobRecords
    <3>2. job' = [job EXCEPT ![j] = next]
      BY <1>0, <2>3 DEF JobRecords
    <3> HIDE DEF next
    <3> QED
      BY <1>2, <2>1, <3>1, <3>2, FreeStep DEF ReadLog, SlotSteps, UsageSteps
  <2> QED
    BY <1>2, <2>2, <2>3 DEF ReadLog
<1>3. CASE WriteLog(j)
  <2>1. q.step = "write" /\ Active(j)
    BY <1>3 DEF WriteLog, At, Active
  <2>2. CASE Throw(j, "error")
    <3>1. Thrown(j, "error").step \notin UsageSteps
      BY <1>0, <2>1, UnderWay, ThrownIs, BlankHoldsNothing
    <3> QED
      BY <1>3, <2>1, <2>2, <3>1, FreeStep DEF WriteLog, Throw, SlotSteps, UsageSteps
  <2>3. CASE Go(j, "reply")
    <3> DEFINE next == [q EXCEPT !.step = "reply"]
    <3>1. next.step = "reply"
      BY <1>0 DEF JobRecords
    <3>2. job' = [job EXCEPT ![j] = next]
      BY <2>3 DEF Go
    <3> HIDE DEF next
    <3> QED
      BY <1>3, <2>1, <3>1, <3>2, FreeStep DEF WriteLog, SlotSteps, UsageSteps
  <2>4. CASE job' = [job EXCEPT ![j] = AfterReply(j)]
    BY <1>3, <2>1, <2>4, AfterReplyHoldsNothing, FreeStep DEF WriteLog, SlotSteps, UsageSteps
  <2> QED
    BY <1>3, <2>2, <2>3, <2>4 DEF WriteLog
<1>4. CASE RecordReply(j)
  BY <1>4, AfterReplyHoldsNothing, FreeStep DEF RecordReply, At, Active, SlotSteps, UsageSteps
<1>5. CASE RecordReplyError(j)
  BY <1>5, AfterReplyHoldsNothing, FreeStep
     DEF RecordReplyError, At, Active, SlotSteps, UsageSteps
<1>6. CASE ClaimReceipt(j)
  <2>1. CASE Land(j, "none") \/ Land(j, "unconfirmed")
    BY <1>6, <2>1, LandPays DEF ClaimReceipt, Errors
  <2>2. CASE job' = [job EXCEPT ![j].claimed = TRUE]
    <3> DEFINE next == [q EXCEPT !.claimed = TRUE]
    <3>1. next.step = q.step /\ next.state = q.state
      BY <1>0 DEF JobRecords
    <3>2. job' = [job EXCEPT ![j] = next]
      BY <2>2
    <3>3. ~At(j, "sent")
      BY <1>6 DEF ClaimReceipt, Sending, At
    <3> HIDE DEF next
    <3>4. /\ Held(next, SlotSteps) = Held(job[j], SlotSteps)
          /\ Held(next, UsageSteps) = Held(job[j], UsageSteps)
      BY <3>1 DEF Held
    <3> QED
      BY <1>6, <3>2, <3>3, <3>4, EvenStep DEF ClaimReceipt
  <2>3. receipt[Channel(j)] \in {"none", "claimed", "answered"}
    BY DEF Channel, Channels, IInv, Typed
  <2> QED
    BY <1>6, <2>1, <2>2, <2>3 DEF ClaimReceipt
<1>7. CASE Send(j)
  <2>1. PICK o \in Outcomes : Land(j, o.err)
    BY <1>7 DEF Send
  <2>2. o.err \in Errors
    BY DEF Outcomes, Errors
  <2> QED
    BY <1>7, <2>1, <2>2, LandPays DEF Send
<1>8. CASE Dedup(j)
  <2> DEFINE skip == [q EXCEPT !.step = "skip", !.mark = "SKIPPED_DEDUP"]
             next == [q EXCEPT !.step = "usage"]
  <2>1. skip.step = "skip" /\ next.step = "usage"
    BY <1>0 DEF JobRecords
  <2>2. job' = [job EXCEPT ![j] = skip] \/ job' = [job EXCEPT ![j] = next]
    BY <1>0, <1>8, Marked DEF Dedup, Go
  <2> HIDE DEF skip, next
  <2> QED
    BY <1>8, <2>1, <2>2, FreeStep DEF Dedup, At, SlotSteps, UsageSteps
<1>9. CASE Skip(j)
  <2>1. Advanced(j).step \notin UsageSteps
    BY <1>0, AdvancedIs, BlankHoldsNothing
  <2> QED
    BY <1>9, <2>1, FreeStep DEF Skip, Advance, At, SlotSteps, UsageSteps
<1>10. CASE ReserveUsage(j)
  <2> DEFINE skip == [q EXCEPT !.step = "skip", !.mark = "SKIPPED_PLAN_LIMIT"]
             next == [q EXCEPT !.step = "slot"]
  <2>1. skip.step = "skip" /\ next.step = "slot" /\ next.state = "active"
        /\ q.step = "usage" /\ q.state = "active"
    BY <1>0, <1>10 DEF JobRecords, ReserveUsage, At
  <2>2. CASE UNCHANGED usage /\ job' = [job EXCEPT ![j] = skip]
    <3> HIDE DEF skip, next
    <3> QED
      BY <1>10, <2>1, <2>2, FreeStep DEF ReserveUsage, SlotSteps, UsageSteps
  <2>3. CASE usage' = usage + 1 /\ job' = [job EXCEPT ![j] = next]
    <3> HIDE DEF skip, next
    <3>1. OneMoves(j) /\ job'[j] = next
      BY <1>0, <2>3, MovesAlone
    <3>2. /\ Held(next, SlotSteps) = 0 /\ Held(next, UsageSteps) = 1
          /\ Held(q, SlotSteps) = 0 /\ Held(q, UsageSteps) = 0
      BY <2>1 DEF Held, SlotSteps, UsageSteps
    <3> QED
      BY <1>10, <2>1, <2>3, <3>1, <3>2 DEF ReserveUsage, Pays, Kept, At
  <2> QED
    BY <1>0, <1>10, <2>2, <2>3, Marked DEF ReserveUsage, Go
<1>11. CASE ReserveSlot(j)
  <2> DEFINE none == [q EXCEPT !.step = "no-slot"]
             next == [q EXCEPT !.step = "dm"]
  <2>1. none.step = "no-slot" /\ next.step = "dm" /\ next.state = "active"
        /\ none.state = "active" /\ q.step = "slot" /\ q.state = "active"
    BY <1>0, <1>11 DEF JobRecords, ReserveSlot, At
  <2>2. CASE UNCHANGED slots /\ job' = [job EXCEPT ![j] = none]
    <3> HIDE DEF none, next
    <3>1. /\ Held(none, SlotSteps) = 0 /\ Held(none, UsageSteps) = 1
          /\ Held(q, SlotSteps) = 0 /\ Held(q, UsageSteps) = 1
      BY <2>1 DEF Held, SlotSteps, UsageSteps
    <3> QED
      BY <1>11, <2>1, <2>2, <3>1, EvenStep DEF ReserveSlot, At
  <2>3. CASE slots' = slots + 1 /\ job' = [job EXCEPT ![j] = next]
    <3> HIDE DEF none, next
    <3>1. OneMoves(j) /\ job'[j] = next
      BY <1>0, <2>3, MovesAlone
    <3>2. /\ Held(next, SlotSteps) = 1 /\ Held(next, UsageSteps) = 1
          /\ Held(q, SlotSteps) = 0 /\ Held(q, UsageSteps) = 1
      BY <2>1 DEF Held, SlotSteps, UsageSteps
    <3> QED
      BY <1>11, <2>1, <2>3, <3>1, <3>2 DEF ReserveSlot, Pays, Kept, At
  <2> QED
    BY <1>11, <2>2, <2>3 DEF ReserveSlot, Go
<1>12. CASE NoSlot(j)
  <2> DEFINE skip == [q EXCEPT !.step = "skip", !.mark = "SKIPPED_RATE_LIMIT"]
             next == [q EXCEPT !.step = "defer"]
  <2>1. skip.step = "skip" /\ next.step = "defer"
        /\ q.step = "no-slot" /\ q.state = "active"
    BY <1>0, <1>12 DEF JobRecords, NoSlot, At
  <2>2. job' = [job EXCEPT ![j] = skip] \/ job' = [job EXCEPT ![j] = next]
    BY <1>0, <1>12, Marked DEF NoSlot, Blocked
  <2> HIDE DEF skip, next
  <2>3. OneMoves(j) /\ (job'[j] = skip \/ job'[j] = next)
    BY <1>0, <2>2, MovesAlone
  <2>4. /\ Held(job'[j], SlotSteps) = 0 /\ Held(job'[j], UsageSteps) = 0
        /\ Held(q, SlotSteps) = 0 /\ Held(q, UsageSteps) = 1
    BY <2>1, <2>3 DEF Held, SlotSteps, UsageSteps
  <2> QED
    BY <1>12, <2>1, <2>3, <2>4 DEF NoSlot, Pays, Kept, At
<1>13. CASE Defer(j)
  <2> DEFINE next == [q EXCEPT !.step = "requeue"]
  <2>1. next.step = "requeue"
    BY <1>0 DEF JobRecords
  <2>2. job' = [job EXCEPT ![j] = next]
    BY <1>13 DEF Defer, Go
  <2> HIDE DEF next
  <2> QED
    BY <1>13, <2>1, <2>2, FreeStep DEF Defer, At, SlotSteps, UsageSteps
<1>14. CASE Requeue(j)
  <2>1. Active(j) /\ q.step = "requeue" /\ RequeueAttempt(j) < MaxRequeue
    BY <1>14 DEF Requeue, At, Active, IInv, Sound
  <2>2. PICK r : r = RequeueAttempt(j) + 1
    OBVIOUS
  <2>3. OneMoves(j)
    BY <1>14, RequeueMoves
  <2>4. Held(job'[j], SlotSteps) = 0 /\ Held(job'[j], UsageSteps) = 0
    <3>1. job'[j] = Advanced(j)
      BY <1>14, <2>2, RequeueIs
    <3> QED
      BY <1>0, <3>1, AdvancedIs, BlankHoldsNothing
  <2>5. Held(q, SlotSteps) = 0 /\ Held(q, UsageSteps) = 0
    BY <2>1 DEF Held, SlotSteps, UsageSteps
  <2> QED
    BY <1>14, <2>1, <2>3, <2>4, <2>5 DEF Requeue, Pays, Kept, At
<1>15. CASE RecordSent(j)
  <2>1. Active(j) /\ q.step = "sent"
    BY <1>15 DEF RecordSent, At, Active
  <2>2. OneMoves(j) /\ Held(job'[j], SlotSteps) = 0 /\ Held(job'[j], UsageSteps) = 0
    BY <1>0, <1>15, AdvancedIs, BlankHoldsNothing, MovesAlone DEF RecordSent, Advance
  <2>3. Held(q, SlotSteps) = 1 /\ Held(q, UsageSteps) = 1
    BY <2>1 DEF Held, SlotSteps, UsageSteps, Active
  <2> QED
    BY <1>15, <2>1, <2>2, <2>3 DEF RecordSent, Pays, Kept
<1>16. CASE FreeSlot(j)
  <2> DEFINE next == [q EXCEPT !.step = "free-usage"]
  <2>1. next.step = "free-usage" /\ next.state = "active" /\ q.step = "free-slot"
        /\ q.state = "active"
    BY <1>0, <1>16 DEF JobRecords, FreeSlot, At
  <2>2. job' = [job EXCEPT ![j] = next]
    BY <1>16 DEF FreeSlot, Go
  <2> HIDE DEF next
  <2>3. OneMoves(j) /\ job'[j] = next
    BY <1>0, <2>2, MovesAlone
  <2>4. /\ Held(next, SlotSteps) = 0 /\ Held(next, UsageSteps) = 1
        /\ Held(q, SlotSteps) = 1 /\ Held(q, UsageSteps) = 1
    BY <2>1 DEF Held, SlotSteps, UsageSteps
  <2> QED
    BY <1>16, <2>1, <2>3, <2>4 DEF FreeSlot, Pays, Kept, At
<1>17. CASE FreeUsage(j)
  <2> DEFINE next == [q EXCEPT !.step = "fail"]
  <2>1. next.step = "fail" /\ q.step = "free-usage" /\ q.state = "active"
    BY <1>0, <1>17 DEF JobRecords, FreeUsage, At
  <2>2. job' = [job EXCEPT ![j] = next]
    BY <1>17 DEF FreeUsage, Go
  <2> HIDE DEF next
  <2>3. OneMoves(j) /\ job'[j] = next
    BY <1>0, <2>2, MovesAlone
  <2>4. /\ Held(next, SlotSteps) = 0 /\ Held(next, UsageSteps) = 0
        /\ Held(q, SlotSteps) = 0 /\ Held(q, UsageSteps) = 1
    BY <2>1 DEF Held, SlotSteps, UsageSteps
  <2> QED
    BY <1>17, <2>1, <2>3, <2>4 DEF FreeUsage, Pays, Kept, At
<1>18. CASE Fail(j)
  <2>1. Thrown(j, job[j].err).step \notin UsageSteps
    BY <1>0, <1>18, UnderWay, ThrownIs, BlankHoldsNothing DEF Fail, At, Active
  <2> QED
    BY <1>18, <2>1, FreeStep DEF Fail, Throw, At, SlotSteps, UsageSteps
<1> QED
  BY <1>1, <1>2, <1>3, <1>4, <1>5, <1>6, <1>7, <1>8, <1>9, <1>10, <1>11, <1>12, <1>13, <1>14,
     <1>15, <1>16, <1>17, <1>18 DEF JobStep

(* A fault gives nothing back, and takes nothing.                          *)
Leaks(j) ==
  /\ OneMoves(j) /\ UNCHANGED <<slots, usage>>
  /\ Held(job'[j], SlotSteps) <= Held(job[j], SlotSteps)
  /\ Held(job'[j], UsageSteps) <= Held(job[j], UsageSteps)

(* Every fault leaks at most: a crash forgets what its job held.           *)
LEMMA FaultLeaks ==
  ASSUME IInv, NEW j \in Jobs, Fault(j)
  PROVE  Leaks(j)
<1> DEFINE q == job[j]
<1>0. job \in [Jobs -> JobRecords] /\ q \in JobRecords /\ UNCHANGED <<slots, usage>> /\ Active(j)
  BY DEF IInv, Typed, Fault, NoCredentials, Crash, StatementFails, At, Active
<1>1. ASSUME NEW next, job' = [job EXCEPT ![j] = next],
             Held(next, SlotSteps) <= Held(q, SlotSteps),
             Held(next, UsageSteps) <= Held(q, UsageSteps)
      PROVE  Leaks(j)
  BY <1>0, <1>1, MovesAlone DEF Leaks
<1>2. ASSUME NEW next, job' = [job EXCEPT ![j] = next], next.step \notin UsageSteps
      PROVE  Leaks(j)
  <2>1. Held(next, SlotSteps) = 0 /\ Held(next, UsageSteps) = 0
    BY <1>2 DEF Held, SlotSteps, UsageSteps
  <2>2. 0 <= Held(q, SlotSteps) /\ 0 <= Held(q, UsageSteps)
    BY DEF Held
  <2> QED
    BY <1>1, <1>2, <2>1, <2>2
<1>3. CASE NoCredentials(j)
  <2>1. Advanced(j).step \notin UsageSteps
    BY <1>0, AdvancedIs, BlankHoldsNothing
  <2> QED
    BY <1>2, <1>3, <2>1 DEF NoCredentials, Advance
<1>4. CASE Crash(j)
  <2>1. Fresh("waiting", job[j].attempts, 1).step = "read"
    BY DEF Fresh
  <2> QED
    BY <1>2, <1>4, <2>1 DEF Crash, SlotSteps, UsageSteps
<1>5. CASE StatementFails(j)
  <2>1. CASE Sending(j)
    <3>1. Land(j, "error")
      <4>1. job[j].step \in {"reply", "dm", "text"}
        BY <2>1 DEF Sending, At
      <4> QED
        BY <1>5, <2>1, <4>1 DEF StatementFails
    <3>2. PICK next \in Landings(j, "error") : job' = [job EXCEPT ![j] = next]
      BY <3>1 DEF Land
    <3>3. /\ next.state = "active"
          /\ IF Channel(j) = "reply" THEN next.step = "reply-failed"
                                     ELSE next.step \in {"free-slot", "text"}
      BY <1>0, <2>1, LandingsAre DEF Errors
    <3>4. /\ Channel(j) = "reply" => job[j].step = "reply"
          /\ Channel(j) # "reply" => job[j].step \in {"dm", "text"}
      BY <2>1 DEF Channel, Sending, At
    <3>5. /\ Held(next, SlotSteps) = Held(job[j], SlotSteps)
          /\ Held(next, UsageSteps) = Held(job[j], UsageSteps)
          /\ Held(next, SlotSteps) \in Nat /\ Held(next, UsageSteps) \in Nat
      BY <1>0, <3>3, <3>4 DEF Held, SlotSteps, UsageSteps, Active
    <3>6. /\ Held(next, SlotSteps) <= Held(q, SlotSteps)
          /\ Held(next, UsageSteps) <= Held(q, UsageSteps)
      BY <3>5
    <3> QED
      BY <1>1, <3>2, <3>6
  <2>2. CASE q.step = "replied" /\ job' = [job EXCEPT ![j].step = "reply-failed", ![j].err = "error"]
    <3> DEFINE next == [q EXCEPT !.step = "reply-failed", !.err = "error"]
    <3>1. next.step = "reply-failed"
      BY <1>0 DEF JobRecords
    <3>2. job' = [job EXCEPT ![j] = next]
      BY <1>0, <2>2 DEF JobRecords
    <3> HIDE DEF next
    <3> QED
      BY <1>2, <3>1, <3>2 DEF SlotSteps, UsageSteps
  <2>3. CASE job' = [job EXCEPT ![j] = AfterReply(j)]
    BY <1>0, <1>2, <2>3, AfterReplyHoldsNothing
  <2>4. CASE q.step = "sent" /\ job' = [job EXCEPT ![j] = Undo(j, "error")]
    <3>1. Undo(j, "error").step = "free-slot" /\ Undo(j, "error").state = "active"
      BY <1>0 DEF JobRecords, Undo, Active
    <3>2. /\ Held(Undo(j, "error"), SlotSteps) = 1 /\ Held(Undo(j, "error"), UsageSteps) = 1
          /\ Held(q, SlotSteps) = 1 /\ Held(q, UsageSteps) = 1
      BY <1>0, <2>4, <3>1 DEF Held, SlotSteps, UsageSteps, Active
    <3>3. /\ Held(Undo(j, "error"), SlotSteps) <= Held(q, SlotSteps)
          /\ Held(Undo(j, "error"), UsageSteps) <= Held(q, UsageSteps)
      BY <3>2
    <3> QED
      BY <1>1, <2>4, <3>3
  <2>5. CASE q.step = "slot" /\ job' = [job EXCEPT ![j].step = "free-usage", ![j].err = "error"]
    <3> DEFINE next == [q EXCEPT !.step = "free-usage", !.err = "error"]
    <3>1. next.step = "free-usage" /\ next.state = "active"
      BY <1>0 DEF JobRecords, Active
    <3>2. job' = [job EXCEPT ![j] = next]
      BY <1>0, <2>5 DEF JobRecords
    <3> HIDE DEF next
    <3>3. /\ Held(next, SlotSteps) = 0 /\ Held(next, UsageSteps) = 1
          /\ Held(q, SlotSteps) = 0 /\ Held(q, UsageSteps) = 1
      BY <1>0, <2>5, <3>1 DEF Held, SlotSteps, UsageSteps, Active
    <3>4. /\ Held(next, SlotSteps) <= Held(q, SlotSteps)
          /\ Held(next, UsageSteps) <= Held(q, UsageSteps)
      BY <3>3
    <3> QED
      BY <1>1, <3>2, <3>4
  <2>6. CASE Throw(j, "error")
    <3>1. Thrown(j, "error").step \notin UsageSteps
      BY <1>0, UnderWay, ThrownIs, BlankHoldsNothing
    <3> QED
      BY <1>2, <2>6, <3>1 DEF Throw
  <2> QED
    BY <1>5, <2>1, <2>2, <2>3, <2>4, <2>5, <2>6 DEF StatementFails
<1> QED
  BY <1>3, <1>4, <1>5 DEF Fault

(* Nothing is held before the first job.                                   *)
LEMMA ReservedInit == Init => Reserved
<1> SUFFICES ASSUME Init PROVE Reserved
  OBVIOUS
<1>1. SlotHolders = {} /\ UsageHolders = {}
  BY DEF Init, Fresh, SlotHolders, UsageHolders, HoldsSlot, HoldsUsage, At
<1> QED
  BY <1>1, FS_EmptySet DEF Init, Reserved

(* The counters stay at or above the holders.                              *)
LEMMA ReservedStep == IInv /\ Reserved /\ [Next]_vars => Reserved'
<1> SUFFICES ASSUME IInv, Reserved, [Next]_vars PROVE Reserved'
  OBVIOUS
<1>1. slots \in Nat /\ usage \in Nat /\ slots >= Cardinality(SlotHolders)
      /\ usage >= Cardinality(UsageHolders) /\ job \in [Jobs -> JobRecords]
  BY DEF Reserved, IInv, Typed
<1>2. ASSUME NEW q, NEW steps PROVE Held(q, steps) \in Nat
  BY DEF Held
<1>3. ASSUME NEW j \in Jobs, JobStep(j) PROVE Reserved'
  <2>1. Pays(j)
    BY <1>1, <1>3, StepPays
  <2>2. /\ Cardinality(SlotHolders) \in Nat /\ Cardinality(UsageHolders) \in Nat
        /\ Cardinality(SlotHolders') =
             Cardinality(SlotHolders) + Held(job'[j], SlotSteps) - Held(job[j], SlotSteps)
        /\ Cardinality(UsageHolders') =
             Cardinality(UsageHolders) + Held(job'[j], UsageSteps) - Held(job[j], UsageSteps)
    BY <1>1, <2>1, Recount DEF Pays
  <2>3. Cardinality(SlotHolders') \in Nat /\ Cardinality(UsageHolders') \in Nat
    BY Cards
  <2>4. Kept(j) \in Nat
    BY DEF Kept
  <2> QED
    BY <1>1, <1>2, <2>1, <2>2, <2>3, <2>4 DEF Pays, Reserved
<1>4. ASSUME NEW j \in Jobs, Fault(j) PROVE Reserved'
  <2>1. Leaks(j)
    BY <1>4, FaultLeaks
  <2>2. /\ Cardinality(SlotHolders) \in Nat /\ Cardinality(UsageHolders) \in Nat
        /\ Cardinality(SlotHolders') =
             Cardinality(SlotHolders) + Held(job'[j], SlotSteps) - Held(job[j], SlotSteps)
        /\ Cardinality(UsageHolders') =
             Cardinality(UsageHolders) + Held(job'[j], UsageSteps) - Held(job[j], UsageSteps)
    BY <1>1, <2>1, Recount DEF Leaks
  <2> QED
    BY <1>1, <1>2, <2>1, <2>2 DEF Leaks, Reserved
<1>5. CASE UNCHANGED vars
  BY <1>5 DEF vars, Reserved, SlotHolders, UsageHolders, HoldsSlot, HoldsUsage, At
<1> QED
  BY <1>3, <1>4, <1>5 DEF Next, Done

(* Neither counter is ever given back more than was taken (lines 727-729   *)
(* of dm-worker.ts release both in the catch, 509 and 531 the message      *)
(* without a slot): at any moment each is at least the number of jobs that *)
(* hold one, so it never goes below zero and no release frees what another *)
(* job reserved, whatever fails.                                           *)
THEOREM NeverNegative == Spec => []Reserved
<1> QED
  BY ReservedInit, ReservedStep, Invariance, PTL DEF Spec

(* The state stays in its types, the counters natural numbers included.    *)
THEOREM TypeCorrect == Spec => []TypeOK
<1>1. IInv /\ Reserved => TypeOK
  BY DEF IInv, Typed, Reserved, TypeOK
<1> QED
  BY <1>1, Invariance, NeverNegative, PTL

-----------------------------------------------------------------------------
(* One chain of jobs: the job of a comment and its requeues, each of which *)
(* starts when the ones before it have ended.                              *)

(* The chain: one job for the comment, and delayed requeues taken up in    *)
(* their time (lines 572-576 of dm-worker.ts give each the number of its   *)
(* attempt).                                                               *)
OneChain == TimelyQueue /\ \E w : BaseJobs = {w}

(* No job starts before an earlier one has ended.                          *)
Order ==
  \A i, l \in Jobs :
    RequeueAttempt(l) < RequeueAttempt(i) /\ job[i].state \notin {"absent", "waiting"} =>
      job[l].state \in {"absent", "completed", "failed"}

(* What a job read of its row still holds when it acts on it.              *)
Remembers(q, row) ==
  /\ q.needsDm => row.status # "SENT" /\ ~row.dmUnconfirmed
  /\ ~q.needsDm => row.status = "SENT" \/ row.dmUnconfirmed
  /\ q.step = "write" => q.found = (row.status # "none")
  /\ q.step = "requeue" => row.status # "none"
  /\ q.step \notin {"write", "reply", "replied", "reply-failed"} => q.needsDm
  /\ q.step = "reply" \/ (q.step = "write" /\ q.replyDue) =>
       ~row.replied /\ ~row.replyUnconfirmed

(* Some job of the chain is waiting in the queue.                          *)
Waits == \E i \in Jobs : job[i].state = "waiting"

(* A campaign before this one has a FAILED row: the error that was thrown  *)
(* kept the job from the campaigns after it.                               *)
FailedBefore(a) == \E b \in Campaigns : b < a /\ log[b].status = "FAILED"

(* The campaigns a job is past have a row, and none of them PENDING is     *)
(* left to nobody.                                                         *)
Behind(j) ==
  \A a \in Campaigns : a < Here(j) =>
    /\ log[a].status # "none"
    /\ log[a].status = "PENDING" => Waits \/ FailedBefore(a)

(* Only a FAILED row is in doubt: the catch writes both at once.           *)
Doubts == \A a \in Campaigns : log[a].dmUnconfirmed => log[a].status = "FAILED"

(* What the jobs leave behind when all have ended without a fault.         *)
Settles ==
  Faults = 0 /\ (\A i \in Jobs : job[i].state \notin {"waiting", "active"}) =>
    \A a \in Campaigns : log[a].status \in {"none", "PENDING"} => FailedBefore(a)

(* What a running job stands on; a job that does not run is at the first   *)
(* campaign.                                                               *)
Carries(j) ==
  IF Active(j) THEN Behind(j) /\ (job[j].step # "read" => Remembers(job[j], Row(j)))
               ELSE Here(j) = 1

(* All of it.  Order is what makes the rest hold: with two jobs at once    *)
(* each may act on a row the other has changed.                            *)
Chain == Order /\ Doubts /\ Settles /\ \A j \in Jobs : Carries(j)

(* No job has begun: the chain's invariant holds of nothing.               *)
LEMMA ChainInit == Init /\ OneChain => Chain
<1> SUFFICES ASSUME Init, OneChain PROVE Chain
  OBVIOUS
<1>1. \A j \in Jobs : job[j].state \in {"waiting", "absent"} /\ job[j].at = 1
  BY DEF Init, Fresh
<1>2. Order
  BY <1>1 DEF Order
<1>3. Doubts
  BY DEF Init, NoRow, Doubts
<1>4. \A j \in Jobs : Carries(j)
  BY <1>1 DEF Carries, Active, Here
<1>5. Settles
  <2>1. PICK w \in Jobs : job[w].state = "waiting"
    BY DEF OneChain, Init, Fresh, Jobs
  <2> QED
    BY <2>1 DEF Settles
<1> QED
  BY <1>2, <1>3, <1>4, <1>5 DEF Chain

(* Two jobs of one chain have different places in it.                      *)
LEMMA AttemptsDiffer ==
  ASSUME OneChain, NEW i \in Jobs, NEW l \in Jobs, i # l
  PROVE  RequeueAttempt(i) < RequeueAttempt(l) \/ RequeueAttempt(l) < RequeueAttempt(i)
<1>1. RequeueAttempt(i) \in Nat /\ RequeueAttempt(l) \in Nat
  BY AttemptsAre
<1>2. RequeueAttempt(i) # RequeueAttempt(l)
  <2>1. \A x \in Jobs : x \notin BaseJobs => RequeueAttempt(x) = x /\ x \in 1..MaxRequeue
    BY DEF Jobs, RetryJobs, RequeueAttempt
  <2>2. \A x \in BaseJobs : RequeueAttempt(x) = 0
    BY DEF RequeueAttempt
  <2>3. \A x \in 1..MaxRequeue : x # 0
    BY CommentWorkerAssumption
  <2>4. ~(i \in BaseJobs /\ l \in BaseJobs)
    BY DEF OneChain
  <2> QED
    BY <2>1, <2>2, <2>3, <2>4
<1> QED
  BY <1>1, <1>2

(* While a job runs, the earlier ones have ended, the later ones wait.     *)
LEMMA OneRuns ==
  ASSUME IInv, Chain, OneChain, NEW j \in Jobs, Active(j)
  PROVE  /\ \A i \in Jobs : RequeueAttempt(i) < RequeueAttempt(j) =>
                              job[i].state \in {"absent", "completed", "failed"}
         /\ \A i \in Jobs : RequeueAttempt(j) < RequeueAttempt(i) =>
                              job[i].state \in {"absent", "waiting"}
         /\ \A i \in Jobs \ {j} : ~Active(i)
<1>1. \A i \in Jobs : RequeueAttempt(i) < RequeueAttempt(j) =>
                        job[i].state \in {"absent", "completed", "failed"}
  BY DEF Chain, Order, Active
<1>2. \A i \in Jobs : RequeueAttempt(j) < RequeueAttempt(i) =>
                        job[i].state \in {"absent", "waiting"}
  BY DEF Chain, Order, Active
<1>3. ASSUME NEW i \in Jobs \ {j} PROVE ~Active(i)
  BY <1>1, <1>2, <1>3, AttemptsDiffer DEF Active
<1> QED
  BY <1>1, <1>2, <1>3

(* Only the row of the campaign the job is at may change.                  *)
RowOnly(j) == log' \in [Campaigns -> Rows] /\ \A a \in Campaigns \ {Here(j)} : log'[a] = log[a]

(* The running job moves.                                                  *)
LEMMA ChainMoves ==
  ASSUME IInv, Chain, OneChain, NEW j \in Jobs, Active(j), OneMoves(j), RowOnly(j),
         job'[j].state # "absent", Carries(j)', Settles',
         log'[Here(j)].dmUnconfirmed => log'[Here(j)].status = "FAILED"
  PROVE  Chain'
<1>1. \A i \in Jobs : RequeueAttempt(i) \in Nat
  BY AttemptsAre
<1>2. ASSUME NEW i \in Jobs \ {j}
      PROVE  /\ job'[i].at = job[i].at
             /\ \/ job'[i] = job[i]
                \/ /\ RequeueAttempt(j) < RequeueAttempt(i) /\ job[i].state = "absent"
                   /\ job'[i].state = "waiting"
  <2>1. job[i] \in JobRecords
    BY DEF IInv, Typed
  <2>2. [job[i] EXCEPT !.state = "waiting"].at = job[i].at
        /\ [job[i] EXCEPT !.state = "waiting"].state = "waiting"
    BY <2>1 DEF JobRecords
  <2> QED
    BY <2>2 DEF OneMoves
<1>3. Order'
  <2> SUFFICES ASSUME NEW i \in Jobs, NEW l \in Jobs, RequeueAttempt(l) < RequeueAttempt(i),
                      job'[i].state \notin {"absent", "waiting"}
               PROVE  job'[l].state \in {"absent", "completed", "failed"}
    BY DEF Order, RequeueAttempt
  <2>1. CASE i = j
    BY <1>1, <1>2, <2>1, OneRuns
  <2>2. CASE i # j
    <3>1. job'[i] = job[i]
      BY <1>2, <2>2
    <3>2. RequeueAttempt(i) < RequeueAttempt(j)
      BY <2>2, <3>1, OneRuns, AttemptsDiffer
    <3>3. l # j /\ ~(RequeueAttempt(j) < RequeueAttempt(l))
      BY <1>1, <3>2
    <3>4. job'[l] = job[l]
      BY <1>2, <3>3
    <3> QED
      BY <3>1, <3>4 DEF Chain, Order
  <2> QED
    BY <2>1, <2>2
<1>4. Doubts'
  BY DEF Chain, Doubts, RowOnly
<1>5. ASSUME NEW i \in Jobs \ {j} PROVE Carries(i)'
  <2>1. ~Active(i)
    BY OneRuns
  <2>2. ~Active(i)' /\ job'[i].at = 1
    BY <1>2, <2>1 DEF Active, Chain, Carries, Here
  <2> QED
    BY <2>2 DEF Carries, Here, Active
<1> QED
  BY <1>3, <1>4, <1>5 DEF Chain

(* What is behind the running job stays as it is.                          *)
LEMMA StaysBehind ==
  ASSUME IInv, Chain, OneChain, NEW j \in Jobs, Active(j), OneMoves(j), RowOnly(j),
         NEW a \in Campaigns, a < Here(j)
  PROVE  /\ log'[a].status # "none"
         /\ log'[a].status = "PENDING" => Waits' \/ FailedBefore(a)'
<1>1. Here(j) \in Campaigns /\ \A b \in Campaigns : b < a => b < Here(j)
  BY JobFields DEF Here, IInv, Typed, Campaigns
<1>2. /\ log[a].status # "none"
      /\ log[a].status = "PENDING" => Waits \/ FailedBefore(a)
  BY DEF Chain, Carries, Behind
<1>3. \A b \in Campaigns : b < Here(j) => log'[b] = log[b]
  BY <1>1 DEF RowOnly, Campaigns
<1>4. Waits => Waits'
  BY DEF Waits, OneMoves, Active
<1>5. FailedBefore(a) => FailedBefore(a)'
  BY <1>1, <1>3 DEF FailedBefore
<1> QED
  BY <1>2, <1>3, <1>4, <1>5

(* On with the same campaign.                                              *)
LEMMA ChainStays ==
  ASSUME IInv, Chain, OneChain, NEW j \in Jobs, Active(j), RowOnly(j),
         NEW q, job' = [job EXCEPT ![j] = q], q.state = "active", q.at = Here(j),
         Remembers(q, log'[Here(j)]),
         log'[Here(j)].dmUnconfirmed => log'[Here(j)].status = "FAILED"
  PROVE  Chain'
<1>1. OneMoves(j) /\ job'[j] = q
  BY MovesAlone DEF IInv, Typed
<1>2. Here(j)' = Here(j) /\ Active(j)' /\ Row(j)' = log'[Here(j)]
  BY <1>1 DEF Here, Active, Row
<1>3. Behind(j)'
  BY <1>1, <1>2, StaysBehind DEF Behind
<1>4. Carries(j)'
  BY <1>1, <1>2, <1>3 DEF Carries
<1>5. Settles'
  BY <1>2 DEF Settles, Active
<1> QED
  BY <1>1, <1>2, <1>4, <1>5, ChainMoves DEF Active

(* On to the next campaign, or done.                                       *)
LEMMA ChainAdvances ==
  ASSUME IInv, Chain, OneChain, NEW j \in Jobs, Active(j), OneMoves(j), RowOnly(j),
         job'[j] = Advanced(j), log'[Here(j)].status # "none",
         log'[Here(j)].status = "PENDING" => Waits',
         log'[Here(j)].dmUnconfirmed => log'[Here(j)].status = "FAILED"
  PROVE  Chain'
<1>1. job \in [Jobs -> JobRecords] /\ Here(j) \in Campaigns /\ NCampaigns \in Nat
  BY JobFields, CommentWorkerAssumption DEF Here, IInv, Typed
<1>2. \A a \in Campaigns :
        a <= Here(j) => /\ log'[a].status # "none"
                        /\ log'[a].status = "PENDING" => Waits' \/ FailedBefore(a)'
  <2> TAKE a \in Campaigns
  <2>1. CASE a < Here(j)
    BY <2>1, StaysBehind
  <2>2. CASE a = Here(j)
    BY <2>2
  <2> QED
    BY <1>1, <2>1, <2>2 DEF Campaigns
<1>3. CASE /\ Here(j) < NCampaigns /\ Advanced(j).state = "active"
           /\ Advanced(j).at = Here(j) + 1
  <2>1. Active(j)' /\ Here(j)' = Here(j) + 1 /\ job'[j].step = "read"
    BY <1>1, <1>3, AdvancedIs DEF Active, Here, Blank
  <2>2. \A a \in Campaigns : a < Here(j) + 1 => a <= Here(j)
    BY <1>1 DEF Campaigns
  <2>3. Behind(j)'
    BY <1>2, <2>1, <2>2 DEF Behind
  <2>4. Carries(j)' /\ Settles'
    BY <2>1, <2>3 DEF Carries, Settles, Active
  <2> QED
    BY <2>1, <2>4, ChainMoves DEF Active
<1>4. CASE /\ Here(j) = NCampaigns /\ Advanced(j).state = "completed"
           /\ Advanced(j).at = 1
  <2>1. Carries(j)' /\ job'[j].state = "completed"
    BY <1>4 DEF Carries, Active, Here
  <2>2. \A a \in Campaigns : a <= Here(j)
    BY <1>4 DEF Campaigns
  <2>3. Settles'
    BY <1>2, <2>2 DEF Settles, Waits
  <2> QED
    BY <2>1, <2>3, ChainMoves
<1> QED
  BY <1>1, <1>3, <1>4, AdvancedIs

(* The job gives up, for now or for good.                                  *)
LEMMA ChainThrows ==
  ASSUME IInv, Chain, OneChain, NEW j \in Jobs, Active(j), RowOnly(j),
         NEW q, job' = [job EXCEPT ![j] = q], q.at = 1,
         \/ q.state = "waiting"
         \/ q.state = "failed" /\ (Faults # 0 \/ log'[Here(j)].status = "FAILED"),
         log'[Here(j)].dmUnconfirmed => log'[Here(j)].status = "FAILED"
  PROVE  Chain'
<1>1. OneMoves(j) /\ job'[j] = q /\ Here(j) \in Campaigns
  BY MovesAlone, JobFields DEF Here, IInv, Typed
<1>2. Carries(j)' /\ job'[j].state # "absent"
  BY <1>1 DEF Carries, Active, Here
<1>3. Settles'
  <2> SUFFICES ASSUME Faults = 0, \A i \in Jobs : job'[i].state \notin {"waiting", "active"},
                      NEW a \in Campaigns, log'[a].status \in {"none", "PENDING"}
               PROVE  FailedBefore(a)'
    BY DEF Settles
  <2>1. log'[Here(j)].status = "FAILED"
    BY <1>1
  <2>2. CASE a < Here(j)
    BY <1>1, <2>2, StaysBehind DEF Waits
  <2>3. CASE Here(j) < a
    BY <1>1, <2>1, <2>3 DEF FailedBefore
  <2>4. CASE a = Here(j)
    BY <2>1, <2>4
  <2> QED
    BY <1>1, <2>2, <2>3, <2>4 DEF Campaigns
<1> QED
  BY <1>1, <1>2, <1>3, ChainMoves

(* What the running job knows.                                             *)
LEMMA Knows ==
  ASSUME IInv, Chain, NEW j \in Jobs, Active(j)
  PROVE  /\ job \in [Jobs -> JobRecords] /\ job[j] \in JobRecords
         /\ job[j].state = "active" /\ job[j].attempts < MaxAttempts
         /\ log \in [Campaigns -> Rows] /\ Here(j) \in Campaigns /\ job[j].at = Here(j)
         /\ Row(j) = log[Here(j)] /\ Row(j) \in Rows
         /\ Row(j).dmUnconfirmed => Row(j).status = "FAILED"
         /\ job[j].step # "read" => Remembers(job[j], Row(j))
<1>1. job[j] \in JobRecords /\ Here(j) \in Campaigns
  BY JobFields DEF Here, IInv, Typed
<1> QED
  BY <1>1, UnderWay DEF Chain, Carries, Doubts, Row, Here, Active, IInv, Typed

(* A step that leaves the log alone leaves the row.                        *)
LEMMA RowKept ==
  ASSUME IInv, Chain, NEW j \in Jobs, Active(j), UNCHANGED log
  PROVE  RowOnly(j) /\ log'[Here(j)] = Row(j)
BY Knows DEF RowOnly

(* The row is written.                                                     *)
LEMMA RowSet ==
  ASSUME IInv, Chain, NEW j \in Jobs, Active(j), NEW row \in Rows, Write(j, row)
  PROVE  RowOnly(j) /\ log'[Here(j)] = row
BY Knows DEF RowOnly, Write

(* A new status leaves the flags of the row as they are.                   *)
LEMMA StatusSet ==
  ASSUME IInv, Chain, NEW j \in Jobs, Active(j), NEW status \in Statuses, SetStatus(j, status)
  PROVE  /\ RowOnly(j) /\ log'[Here(j)] \in Rows /\ log'[Here(j)].status = status
         /\ log'[Here(j)].dmUnconfirmed = Row(j).dmUnconfirmed
         /\ log'[Here(j)].replied = Row(j).replied
         /\ log'[Here(j)].replyUnconfirmed = Row(j).replyUnconfirmed
<1> DEFINE row == [Row(j) EXCEPT !.status = status]
<1>1. /\ row \in Rows /\ row.status = status /\ row.dmUnconfirmed = Row(j).dmUnconfirmed
      /\ row.replied = Row(j).replied /\ row.replyUnconfirmed = Row(j).replyUnconfirmed
  BY Knows DEF Rows
<1>2. log' = [log EXCEPT ![Here(j)] = row]
  BY Knows DEF SetStatus
<1> HIDE DEF row
<1> QED
  BY <1>1, <1>2, Knows DEF RowOnly

(* Steps that leave the log alone and the campaign the same.               *)
LEMMA QuietChain ==
  ASSUME IInv, Chain, OneChain, NEW j \in Jobs, Active(j), UNCHANGED log,
         NEW q, job' = [job EXCEPT ![j] = q], q.state = "active", q.at = Here(j),
         job[j].step # "read", q.needsDm = job[j].needsDm,
         q.step \in {"replied", "reply-failed"} \/
           (job[j].needsDm /\ q.step \notin {"write", "reply", "requeue"})
  PROVE  Chain'
<1>1. RowOnly(j) /\ log'[Here(j)] = Row(j)
  BY RowKept
<1>2. Remembers(q, Row(j))
  BY Knows DEF Remembers
<1> QED
  BY <1>1, <1>2, Knows, ChainStays

(* Past the public reply: on with the private one, or, if none is due, on  *)
(* to the next campaign.                                                   *)
LEMMA AfterReplyChain ==
  ASSUME IInv, Chain, OneChain, NEW j \in Jobs, Active(j), job[j].step # "read", RowOnly(j),
         job' = [job EXCEPT ![j] = AfterReply(j)],
         job[j].needsDm => /\ log'[Here(j)].status # "SENT" /\ ~log'[Here(j)].dmUnconfirmed,
         ~job[j].needsDm => /\ log'[Here(j)].status \in {"SENT", "FAILED"}
                            /\ log'[Here(j)].status = "SENT" => ~log'[Here(j)].dmUnconfirmed
  PROVE  Chain'
<1>1. CASE job[j].needsDm
  <2>1. /\ AfterReply(j).state = "active" /\ AfterReply(j).step = "dedup"
        /\ AfterReply(j).at = Here(j) /\ AfterReply(j).needsDm = job[j].needsDm
    BY <1>1, Knows, AfterReplyIs
  <2>2. Remembers(AfterReply(j), log'[Here(j)])
    BY <1>1, <2>1 DEF Remembers
  <2> QED
    BY <1>1, <2>1, <2>2, ChainStays
<1>2. CASE ~job[j].needsDm
  <2>1. AfterReply(j) = Advanced(j)
    BY <1>2, Knows, AfterReplyIs
  <2>2. OneMoves(j) /\ job'[j] = Advanced(j)
    BY <2>1, Knows, MovesAlone
  <2> QED
    BY <1>2, <2>2, ChainAdvances
<1> QED
  BY <1>1, <1>2

(* On to the next campaign with the row of this one settled.               *)
LEMMA AdvanceChain ==
  ASSUME IInv, Chain, OneChain, NEW j \in Jobs, Active(j), RowOnly(j), Advance(j),
         log'[Here(j)].status \notin {"none", "PENDING"},
         log'[Here(j)].dmUnconfirmed => log'[Here(j)].status = "FAILED"
  PROVE  Chain'
<1>1. OneMoves(j) /\ job'[j] = Advanced(j)
  BY Knows, MovesAlone DEF Advance
<1> QED
  BY <1>1, ChainAdvances

(* The next job starts when the earlier ones have ended.                   *)
LEMMA ChainStart == ASSUME IInv, Chain, OneChain, NEW j \in Jobs, Start(j) PROVE Chain'
<1> DEFINE q == [job[j] EXCEPT !.state = "active"]
<1>0. job \in [Jobs -> JobRecords] /\ job[j].state = "waiting" /\ job[j].at = 1
      /\ job[j].step = "read"
  BY DEF Start, IInv, Typed, Sound, Chain, Carries, Active, Here
<1>1. q.state = "active" /\ q.at = 1 /\ q.step = "read"
  BY <1>0 DEF JobRecords
<1>2. job' = [job EXCEPT ![j] = q]
  BY DEF Start
<1> HIDE DEF q
<1>3. job'[j] = q /\ \A i \in Jobs \ {j} : job'[i] = job[i]
  BY <1>0, <1>2
<1>4. \A i \in Jobs : RequeueAttempt(i) < RequeueAttempt(j) =>
                        job[i].state \in {"absent", "completed", "failed"}
  BY DEF Start, Due, OneChain, Ended
<1>5. \A i \in Jobs : RequeueAttempt(j) < RequeueAttempt(i) => job[i].state \in {"absent", "waiting"}
  BY <1>0 DEF Chain, Order
<1>6. \A i \in Jobs : ~(RequeueAttempt(i) < RequeueAttempt(i))
  BY AttemptsAre
<1>7. Order'
  <2> SUFFICES ASSUME NEW i \in Jobs, NEW l \in Jobs, RequeueAttempt(l) < RequeueAttempt(i),
                      job'[i].state \notin {"absent", "waiting"}
               PROVE  job'[l].state \in {"absent", "completed", "failed"}
    BY DEF Order, RequeueAttempt
  <2>1. CASE i = j
    BY <1>3, <1>4, <1>6, <2>1
  <2>2. CASE i # j
    BY <1>3, <1>5, <2>2 DEF Chain, Order
  <2> QED
    BY <2>1, <2>2
<1>8. Doubts' /\ Settles'
  BY <1>1, <1>3 DEF Start, Chain, Doubts, Settles
<1>9. Carries(j)'
  <2>1. \A a \in Campaigns : ~(a < 1)
    BY CommentWorkerAssumption DEF Campaigns
  <2> QED
    BY <1>1, <1>3, <2>1 DEF Carries, Behind, Active, Here
<1>10. ASSUME NEW i \in Jobs \ {j} PROVE Carries(i)'
  <2>1. ~Active(i)
    BY <1>4, <1>5, AttemptsDiffer DEF Active
  <2> QED
    BY <1>3, <2>1 DEF Chain, Carries, Active, Here
<1> QED
  BY <1>7, <1>8, <1>9, <1>10 DEF Chain

(* What it reads of the row is what it remembers.                          *)
LEMMA ChainReadLog == ASSUME IInv, Chain, OneChain, NEW j \in Jobs, ReadLog(j) PROVE Chain'
<1>1. Active(j) /\ job[j].step = "read" /\ UNCHANGED log
  BY DEF ReadLog, At, Active
<1>2. RowOnly(j) /\ log'[Here(j)] = Row(j)
  BY <1>1, RowKept
<1>3. CASE Advance(j) /\ (Row(j).status = "SKIPPED_PLAN_LIMIT" \/ ~NeedsDm(j))
  BY <1>1, <1>2, <1>3, Knows, AdvanceChain DEF NeedsDm
<1>4. CASE job' = [job EXCEPT ![j].step = "write", ![j].found = (Row(j).status # "none"),
                              ![j].needsDm = NeedsDm(j), ![j].replyDue = ReplyDue(j)]
  <2> DEFINE q == [job[j] EXCEPT !.step = "write", !.found = (Row(j).status # "none"),
                                 !.needsDm = NeedsDm(j), !.replyDue = ReplyDue(j)]
  <2>1. /\ q.step = "write" /\ q.found = (Row(j).status # "none") /\ q.needsDm = NeedsDm(j)
        /\ q.replyDue = ReplyDue(j) /\ q.state = "active" /\ q.at = Here(j)
    BY <1>1, Knows DEF JobRecords
  <2>2. job' = [job EXCEPT ![j] = q]
    BY <1>1, <1>4, Knows DEF JobRecords
  <2> HIDE DEF q
  <2>3. Remembers(q, log'[Here(j)])
    BY <1>2, <2>1 DEF Remembers, NeedsDm, ReplyDue
  <2> QED
    BY <1>1, <1>2, <2>1, <2>2, <2>3, Knows, ChainStays
<1> QED
  BY <1>3, <1>4 DEF ReadLog

(* A PENDING row belongs to the job that made it.                          *)
LEMMA ChainWriteLog == ASSUME IInv, Chain, OneChain, NEW j \in Jobs, WriteLog(j) PROVE Chain'
<1>1. Active(j) /\ job[j].step = "write" /\ Remembers(job[j], Row(j))
  BY Knows DEF WriteLog, At, Active
<1>2. /\ IF job[j].needsDm THEN SetStatus(j, "PENDING") ELSE UNCHANGED log
      /\ IF job[j].replyDue THEN Go(j, "reply") ELSE job' = [job EXCEPT ![j] = AfterReply(j)]
  BY <1>1 DEF WriteLog, Remembers
<1>3. /\ RowOnly(j)
      /\ log'[Here(j)].dmUnconfirmed = Row(j).dmUnconfirmed
      /\ log'[Here(j)].replied = Row(j).replied
      /\ log'[Here(j)].replyUnconfirmed = Row(j).replyUnconfirmed
      /\ log'[Here(j)].status = IF job[j].needsDm THEN "PENDING" ELSE Row(j).status
  <2>1. CASE job[j].needsDm
    BY <1>1, <1>2, <2>1, StatusSet DEF Statuses
  <2>2. CASE ~job[j].needsDm
    BY <1>1, <1>2, <2>2, RowKept
  <2> QED
    BY <2>1, <2>2
<1>4. /\ job[j].needsDm => /\ log'[Here(j)].status = "PENDING"
                           /\ ~log'[Here(j)].dmUnconfirmed
      /\ ~job[j].needsDm => /\ log'[Here(j)].status \in {"SENT", "FAILED"}
                            /\ log'[Here(j)].status = "SENT" \/ log'[Here(j)].dmUnconfirmed
                            /\ log'[Here(j)].status = "SENT" => ~log'[Here(j)].dmUnconfirmed
  BY <1>1, <1>3, Knows DEF Remembers
<1>5. CASE job[j].replyDue
  <2> DEFINE q == [job[j] EXCEPT !.step = "reply"]
  <2>1. /\ q.step = "reply" /\ q.needsDm = job[j].needsDm /\ q.state = "active"
        /\ q.at = Here(j)
    BY <1>1, Knows DEF JobRecords
  <2>2. job' = [job EXCEPT ![j] = q]
    BY <1>2, <1>5 DEF Go
  <2> HIDE DEF q
  <2>3. Remembers(q, log'[Here(j)])
    BY <1>1, <1>3, <1>4, <1>5, <2>1 DEF Remembers
  <2> QED
    BY <1>1, <1>3, <1>4, <2>1, <2>2, <2>3, ChainStays
<1>6. CASE ~job[j].replyDue
  BY <1>1, <1>2, <1>3, <1>4, <1>6, AfterReplyChain
<1> QED
  BY <1>5, <1>6

(* Noting the reply touches neither the status nor the doubt.              *)
LEMMA ChainReply ==
  ASSUME IInv, Chain, OneChain, NEW j \in Jobs, RecordReply(j) \/ RecordReplyError(j)
  PROVE  Chain'
<1>1. Active(j) /\ job[j].step \in {"replied", "reply-failed"} /\ Remembers(job[j], Row(j))
      /\ job' = [job EXCEPT ![j] = AfterReply(j)]
  BY Knows DEF RecordReply, RecordReplyError, At, Active
<1>2. PICK row \in Rows : /\ Write(j, row) /\ row.status = Row(j).status
                          /\ row.dmUnconfirmed = Row(j).dmUnconfirmed
  <2>1. Row(j) \in Rows
    BY <1>1, Knows
  <2>2. CASE RecordReply(j)
    <3> DEFINE row == [Row(j) EXCEPT !.replied = TRUE]
    <3>1. /\ row \in Rows /\ row.status = Row(j).status
          /\ row.dmUnconfirmed = Row(j).dmUnconfirmed
      BY <2>1 DEF Rows
    <3> QED
      BY <2>2, <3>1 DEF RecordReply
  <2>3. CASE RecordReplyError(j)
    <3> DEFINE row == [Row(j) EXCEPT !.replyUnconfirmed = (job[j].err = "unconfirmed")]
    <3>1. /\ row \in Rows /\ row.status = Row(j).status
          /\ row.dmUnconfirmed = Row(j).dmUnconfirmed
      BY <2>1 DEF Rows
    <3> QED
      BY <2>3, <3>1 DEF RecordReplyError
  <2> QED
    BY <2>2, <2>3
<1>3. RowOnly(j) /\ log'[Here(j)] = row
  BY <1>1, <1>2, RowSet
<1>4. /\ job[j].needsDm => row.status # "SENT" /\ ~row.dmUnconfirmed
      /\ ~job[j].needsDm => /\ row.status \in {"SENT", "FAILED"}
                            /\ row.status = "SENT" => ~row.dmUnconfirmed
  BY <1>1, <1>2, Knows DEF Remembers
<1> QED
  BY <1>1, <1>3, <1>4, AfterReplyChain

(* Whatever an attempt to send comes to, the log is left alone.            *)
LEMMA ChainLands ==
  ASSUME IInv, Chain, OneChain, NEW j \in Jobs, Sending(j), UNCHANGED log,
         NEW answer \in Errors, Land(j, answer)
  PROVE  Chain'
<1>1. Active(j) /\ job[j].step \in {"reply", "dm", "text"} /\ Remembers(job[j], Row(j))
  BY Knows DEF Sending, At, Active
<1>2. PICK q \in Landings(j, answer) : job' = [job EXCEPT ![j] = q]
  BY DEF Land
<1>3. /\ q.state = "active" /\ q.at = Here(j) /\ q.needsDm = job[j].needsDm
      /\ IF Channel(j) = "reply" THEN q.step = IF answer = "none" THEN "replied" ELSE "reply-failed"
         ELSE IF answer = "none" THEN q.step = "sent" ELSE q.step \in {"free-slot", "text"}
  <2>1. job \in [Jobs -> JobRecords] /\ job[j].at = Here(j)
    BY <1>1, Knows
  <2>2. /\ q.state = "active" /\ q.at = job[j].at /\ q.needsDm = job[j].needsDm
        /\ IF Channel(j) = "reply" THEN q.step = IF answer = "none" THEN "replied" ELSE "reply-failed"
           ELSE IF answer = "none" THEN q.step = "sent" ELSE q.step \in {"free-slot", "text"}
    BY <2>1, LandingsAre
  <2> QED
    BY <2>1, <2>2
<1>4. q.step \in {"replied", "reply-failed"} \/
        (job[j].needsDm /\ q.step \notin {"write", "reply", "requeue"})
  BY <1>1, <1>3 DEF Channel, Remembers
<1> QED
  BY <1>1, <1>2, <1>3, <1>4, QuietChain

(* A claim leaves the log alone.                                           *)
LEMMA ChainClaim == ASSUME IInv, Chain, OneChain, NEW j \in Jobs, ClaimReceipt(j) PROVE Chain'
<1>1. /\ Active(j) /\ job[j].step \in {"reply", "dm", "text"} /\ Remembers(job[j], Row(j))
      /\ Sending(j) /\ UNCHANGED log
  BY Knows DEF ClaimReceipt, Sending, At, Active
<1>2. CASE Land(j, "none") \/ Land(j, "unconfirmed")
  BY <1>1, <1>2, ChainLands DEF Errors
<1>3. CASE job' = [job EXCEPT ![j].claimed = TRUE]
  <2> DEFINE q == [job[j] EXCEPT !.claimed = TRUE]
  <2>1. /\ q.step = job[j].step /\ q.needsDm = job[j].needsDm /\ q.state = "active"
        /\ q.at = Here(j)
    BY <1>1, Knows DEF JobRecords
  <2>2. job' = [job EXCEPT ![j] = q]
    BY <1>3
  <2> HIDE DEF q
  <2>3. RowOnly(j) /\ log'[Here(j)] = Row(j)
    BY <1>1, RowKept
  <2>4. Remembers(q, Row(j))
    BY <1>1, <2>1 DEF Remembers
  <2> QED
    BY <1>1, <2>1, <2>2, <2>3, <2>4, Knows, ChainStays
<1>4. receipt[Channel(j)] \in {"none", "claimed", "answered"}
  BY DEF Channel, Channels, IInv, Typed
<1> QED
  BY <1>2, <1>3, <1>4 DEF ClaimReceipt

(* A send leaves the log alone.                                            *)
LEMMA ChainSend == ASSUME IInv, Chain, OneChain, NEW j \in Jobs, Send(j) PROVE Chain'
<1>1. PICK o \in Outcomes : Land(j, o.err)
  BY DEF Send
<1>2. o.err \in Errors
  BY DEF Outcomes, Errors
<1> QED
  BY <1>1, <1>2, ChainLands DEF Send

(* Between two steps of the private reply.                                 *)
LEMMA ChainGoes ==
  ASSUME IInv, Chain, OneChain, NEW j \in Jobs, Active(j), UNCHANGED log,
         job[j].step \in {"dedup", "usage", "slot", "no-slot", "free-slot", "free-usage"},
         \/ \E step \in Steps \ {"write", "reply", "requeue"} : Go(j, step)
         \/ \E mark \in Statuses : job' = [job EXCEPT ![j].step = "skip", ![j].mark = mark]
  PROVE  Chain'
<1>1. job[j].needsDm /\ job \in [Jobs -> JobRecords] /\ job[j] \in JobRecords
  BY Knows DEF Remembers
<1>2. CASE \E step \in Steps \ {"write", "reply", "requeue"} : Go(j, step)
  <2>1. PICK step \in Steps \ {"write", "reply", "requeue"} : Go(j, step)
    BY <1>2
  <2> DEFINE q == [job[j] EXCEPT !.step = step]
  <2>2. /\ q.step = step /\ q.needsDm = job[j].needsDm /\ q.state = "active" /\ q.at = Here(j)
    BY <1>1, Knows DEF JobRecords
  <2>3. job' = [job EXCEPT ![j] = q]
    BY <2>1 DEF Go
  <2> HIDE DEF q
  <2> QED
    BY <1>1, <2>2, <2>3, QuietChain
<1>3. CASE \E mark \in Statuses : job' = [job EXCEPT ![j].step = "skip", ![j].mark = mark]
  <2>1. PICK mark \in Statuses : job' = [job EXCEPT ![j].step = "skip", ![j].mark = mark]
    BY <1>3
  <2> DEFINE q == [job[j] EXCEPT !.step = "skip", !.mark = mark]
  <2>2. /\ q.step = "skip" /\ q.needsDm = job[j].needsDm /\ q.state = "active"
        /\ q.at = Here(j)
    BY <1>1, Knows DEF JobRecords
  <2>3. job' = [job EXCEPT ![j] = q]
    BY <1>1, <2>1, Marked
  <2> HIDE DEF q
  <2> QED
    BY <1>1, <2>2, <2>3, QuietChain
<1> QED
  BY <1>2, <1>3

(* Taking and giving back reservations leaves the log alone.               *)
LEMMA ChainReserves ==
  ASSUME IInv, Chain, OneChain, NEW j \in Jobs,
         \/ Dedup(j) \/ ReserveUsage(j) \/ ReserveSlot(j) \/ NoSlot(j) \/ FreeSlot(j)
         \/ FreeUsage(j)
  PROVE  Chain'
<1>1. /\ Active(j) /\ UNCHANGED log
      /\ job[j].step \in {"dedup", "usage", "slot", "no-slot", "free-slot", "free-usage"}
  BY DEF Dedup, ReserveUsage, ReserveSlot, NoSlot, FreeSlot, FreeUsage, At, Active
<1>2. \/ \E step \in {"usage", "slot", "dm", "no-slot", "defer", "free-usage", "fail"} : Go(j, step)
      \/ \E mark \in Skips : job' = [job EXCEPT ![j].step = "skip", ![j].mark = mark]
  BY DEF Dedup, ReserveUsage, ReserveSlot, NoSlot, Blocked, FreeSlot, FreeUsage, Go, Skips
<1>3. /\ {"usage", "slot", "dm", "no-slot", "defer", "free-usage", "fail"}
           \subseteq Steps \ {"write", "reply", "requeue"}
      /\ Skips \subseteq Statuses
  BY DEF Steps, Skips, Statuses
<1> QED
  BY <1>1, <1>2, <1>3, ChainGoes

(* A deferred row is PENDING with a requeue to come, or skipped.           *)
LEMMA ChainDefer == ASSUME IInv, Chain, OneChain, NEW j \in Jobs, Defer(j) PROVE Chain'
<1>1. Active(j) /\ job[j].step = "defer" /\ Remembers(job[j], Row(j))
  BY Knows DEF Defer, At, Active
<1>2. RowOnly(j) /\ log'[Here(j)].status = "PENDING"
      /\ log'[Here(j)].dmUnconfirmed = Row(j).dmUnconfirmed
  BY <1>1, StatusSet DEF Defer, Statuses
<1> DEFINE q == [job[j] EXCEPT !.step = "requeue"]
<1>3. /\ q.step = "requeue" /\ q.needsDm = job[j].needsDm /\ q.state = "active"
      /\ q.at = Here(j)
  BY <1>1, Knows DEF JobRecords
<1>4. job' = [job EXCEPT ![j] = q]
  BY DEF Defer, Go
<1> HIDE DEF q
<1>5. Remembers(q, log'[Here(j)])
  BY <1>1, <1>2, <1>3 DEF Remembers
<1>6. ~log'[Here(j)].dmUnconfirmed
  BY <1>1, <1>2 DEF Remembers
<1> QED
  BY <1>1, <1>2, <1>3, <1>4, <1>5, <1>6, ChainStays

(* The next requeue waits: it has not begun while this job runs.           *)
LEMMA ChainRequeue == ASSUME IInv, Chain, OneChain, NEW j \in Jobs, Requeue(j) PROVE Chain'
<1>1. Active(j) /\ Remembers(job[j], Row(j)) /\ job[j].step = "requeue" /\ UNCHANGED log
  BY Knows DEF Requeue, At, Active
<1>2. RowOnly(j) /\ log'[Here(j)] = Row(j)
  BY <1>1, RowKept
<1>3. OneMoves(j)
  BY RequeueMoves
<1>4. PICK r : r = RequeueAttempt(j) + 1
  OBVIOUS
<1>5. /\ r \in RetryJobs /\ r \in Jobs /\ job'[j] = Advanced(j)
      /\ job'[r] = [job[r] EXCEPT !.state = IF job[r].state = "absent" THEN "waiting"
                                                                       ELSE job[r].state]
      /\ job[r].state # "absent" => job'[r] = job[r]
  BY <1>4, RequeueIs
<1>6. Waits'
  <2>1. RequeueAttempt(j) < RequeueAttempt(r)
    BY <1>4, <1>5, AttemptsAre
  <2>2. job[r].state \in {"absent", "waiting"} /\ job[r] \in JobRecords
    BY <1>1, <1>5, <2>1, OneRuns, Knows
  <2>3. job'[r].state = "waiting"
    BY <1>5, <2>2 DEF JobRecords
  <2> QED
    BY <1>5, <2>3 DEF Waits
<1> QED
  BY <1>1, <1>2, <1>3, <1>5, <1>6, Knows, ChainAdvances DEF Remembers

(* A row that is skipped, SENT or FAILED is settled.                       *)
LEMMA ChainSettles ==
  ASSUME IInv, Chain, OneChain, NEW j \in Jobs, Skip(j) \/ RecordSent(j) \/ NoCredentials(j)
  PROVE  Chain'
<1>1. Active(j) /\ Advance(j) /\ Remembers(job[j], Row(j))
  BY Knows DEF Skip, RecordSent, NoCredentials, At, Active
<1>2. PICK status \in Statuses :
        /\ SetStatus(j, status) /\ status \notin {"none", "PENDING"}
        /\ status = "FAILED" \/ job[j].needsDm
  <2>1. CASE Skip(j)
    <3>1. job[j].mark \in Skips
      BY <2>1 DEF Skip, At, IInv, Sound
    <3> QED
      BY <1>1, <2>1, <3>1 DEF Skip, At, Remembers, Skips, Statuses
  <2>2. CASE RecordSent(j)
    BY <1>1, <2>2 DEF RecordSent, At, Remembers, Statuses
  <2>3. CASE NoCredentials(j)
    BY <2>3 DEF NoCredentials, Statuses
  <2> QED
    BY <2>1, <2>2, <2>3
<1>3. /\ RowOnly(j) /\ log'[Here(j)].status = status
      /\ log'[Here(j)].dmUnconfirmed = Row(j).dmUnconfirmed
  BY <1>1, <1>2, StatusSet
<1> QED
  BY <1>1, <1>2, <1>3, AdvanceChain DEF Remembers

(* A FAILED row ends the attempt and stands before the campaigns it keeps  *)
(* the job from.                                                           *)
LEMMA ChainFail == ASSUME IInv, Chain, OneChain, NEW j \in Jobs, Fail(j) PROVE Chain'
<1>1. Active(j)
  BY DEF Fail, At, Active
<1> DEFINE row == [Row(j) EXCEPT !.status = "FAILED",
                                 !.dmUnconfirmed = (job[j].err = "unconfirmed")]
           q == Thrown(j, job[j].err)
<1>2. row \in Rows /\ row.status = "FAILED"
  BY <1>1, Knows DEF Rows, Statuses
<1>3. Write(j, row) /\ job' = [job EXCEPT ![j] = q]
  BY DEF Fail, Throw
<1> HIDE DEF row
<1>4. RowOnly(j) /\ log'[Here(j)] = row
  BY <1>1, <1>2, <1>3, RowSet
<1>5. q.at = 1 /\ q.state \in {"waiting", "failed"}
  BY <1>1, Knows, ThrownIs
<1> HIDE DEF q
<1> QED
  BY <1>1, <1>2, <1>3, <1>4, <1>5, ChainThrows

(* After a crash the job waits again.                                      *)
LEMMA ChainCrash == ASSUME IInv, Chain, OneChain, NEW j \in Jobs, Crash(j) PROVE Chain'
<1>1. Active(j) /\ UNCHANGED log
  BY DEF Crash, Active
<1>2. RowOnly(j) /\ log'[Here(j)] = Row(j)
  BY <1>1, RowKept
<1> DEFINE q == Fresh("waiting", job[j].attempts, 1)
<1>3. q.state = "waiting" /\ q.at = 1
  BY DEF Fresh
<1>4. job' = [job EXCEPT ![j] = q]
  BY DEF Crash
<1> HIDE DEF q
<1> QED
  BY <1>1, <1>2, <1>3, <1>4, Knows, ChainThrows

(* A failed statement takes the job to a step whose memory still holds, or *)
(* back into the queue.                                                    *)
LEMMA ChainStatementFails ==
  ASSUME IInv, Chain, OneChain, NEW j \in Jobs, StatementFails(j)
  PROVE  Chain'
<1>1. Active(j) /\ UNCHANGED log /\ Faults # 0
  BY CommentWorkerAssumption DEF StatementFails, Active, IInv, Typed
<1>2. RowOnly(j) /\ log'[Here(j)] = Row(j)
  BY <1>1, RowKept
<1>3. CASE Sending(j)
  <2>1. job[j].step \in {"reply", "dm", "text"}
    BY <1>3 DEF Sending, At
  <2>2. Land(j, "error")
    BY <1>3, <2>1 DEF StatementFails
  <2> QED
    BY <1>1, <1>3, <2>2, ChainLands DEF Errors
<1>4. CASE job[j].step \in {"replied", "slot"} /\
           \E step \in {"reply-failed", "free-usage"} :
             /\ step = "free-usage" => job[j].step = "slot"
             /\ job' = [job EXCEPT ![j].step = step, ![j].err = "error"]
  <2>1. PICK step \in {"reply-failed", "free-usage"} :
          /\ step = "free-usage" => job[j].step = "slot"
          /\ job' = [job EXCEPT ![j].step = step, ![j].err = "error"]
    BY <1>4
  <2> DEFINE q == [job[j] EXCEPT !.step = step, !.err = "error"]
  <2>2. /\ q.step = step /\ q.needsDm = job[j].needsDm /\ q.state = "active" /\ q.at = Here(j)
    BY <1>1, Knows DEF JobRecords
  <2>3. job' = [job EXCEPT ![j] = q]
    BY <1>1, <2>1, Knows DEF JobRecords
  <2> HIDE DEF q
  <2>4. step = "free-usage" => job[j].needsDm
    BY <1>1, <2>1, Knows DEF Remembers
  <2> QED
    BY <1>1, <1>4, <2>1, <2>2, <2>3, <2>4, QuietChain
<1>5. CASE job[j].step = "reply-failed" /\ job' = [job EXCEPT ![j] = AfterReply(j)]
  <2>1. Remembers(job[j], Row(j))
    BY <1>1, <1>5, Knows
  <2>2. /\ job[j].needsDm => Row(j).status # "SENT" /\ ~Row(j).dmUnconfirmed
        /\ ~job[j].needsDm => /\ Row(j).status \in {"SENT", "FAILED"}
                              /\ Row(j).status = "SENT" => ~Row(j).dmUnconfirmed
    BY <1>1, <2>1, Knows DEF Remembers
  <2> QED
    BY <1>1, <1>2, <1>5, <2>2, AfterReplyChain
<1>6. CASE job[j].step = "sent" /\ job' = [job EXCEPT ![j] = Undo(j, "error")]
  <2>1. /\ Undo(j, "error").state = "active" /\ Undo(j, "error").at = Here(j)
        /\ Undo(j, "error").step = "free-slot" /\ Undo(j, "error").needsDm = job[j].needsDm
    BY <1>1, Knows DEF JobRecords, Undo
  <2>2. job[j].needsDm
    BY <1>1, <1>6, Knows DEF Remembers
  <2> QED
    BY <1>1, <1>6, <2>1, <2>2, QuietChain
<1>7. CASE Throw(j, "error")
  <2> DEFINE q == Thrown(j, "error")
  <2>1. q.at = 1 /\ q.state \in {"waiting", "failed"}
    BY <1>1, Knows, ThrownIs
  <2>2. job' = [job EXCEPT ![j] = q]
    BY <1>7 DEF Throw
  <2> HIDE DEF q
  <2> QED
    BY <1>1, <1>2, <2>1, <2>2, Knows, ChainThrows
<1> QED
  BY <1>3, <1>4, <1>5, <1>6, <1>7 DEF StatementFails

(* Every step preserves the chain's invariant.                             *)
LEMMA ChainStep == IInv /\ Chain /\ OneChain /\ [Next]_vars => Chain'
<1> SUFFICES ASSUME IInv, Chain, OneChain, [Next]_vars PROVE Chain'
  OBVIOUS
<1>1. ASSUME NEW j \in Jobs, JobStep(j) PROVE Chain'
  BY <1>1, ChainStart, ChainReadLog, ChainWriteLog, ChainReply, ChainClaim, ChainSend,
     ChainReserves, ChainDefer, ChainRequeue, ChainSettles, ChainFail DEF JobStep
<1>2. ASSUME NEW j \in Jobs, Fault(j) PROVE Chain'
  BY <1>2, ChainSettles, ChainCrash, ChainStatementFails DEF Fault
<1>3. CASE UNCHANGED vars
  BY <1>3 DEF vars, Chain, Order, Doubts, Settles, Carries, Behind, Remembers, Waits,
              FailedBefore, Active, Here, Row
<1> QED
  BY <1>1, <1>2, <1>3 DEF Next, Done

(* In one chain of jobs, whatever fails, what a job read of its row still  *)
(* holds when it acts on it, and no campaign behind it is left without a   *)
(* row or PENDING to nobody.                                               *)
THEOREM ChainInvariance ==
  ASSUME OneChain
  PROVE  Spec => []Chain
<1>1. Init => Chain
  BY ChainInit
<1>2. IInv /\ Chain /\ [Next]_vars => Chain'
  BY ChainStep
<1> QED
  BY <1>1, <1>2, Invariance, PTL DEF Spec

(* Without faults a running chain of jobs leaves nothing PENDING behind    *)
(* and no campaign out.                                                    *)
THEOREM NothingLeftPending ==
  ASSUME OneChain, Faults = 0
  PROVE  Spec => []PendingHasJob
<1>1. Chain => PendingHasJob
  <2> SUFFICES ASSUME Chain, NEW a \in Campaigns, log[a].status = "PENDING",
                      \A j \in Jobs : job[j].state \notin {"waiting", "active"}
               PROVE  \E b \in Campaigns : b < a /\ log[b].status = "FAILED"
    BY DEF PendingHasJob
  <2> QED
    BY DEF Chain, Settles, FailedBefore
<1> QED
  BY <1>1, ChainInvariance, PTL

(* Nor is a campaign with a public reply left without a row when all jobs  *)
(* have ended, unless the error of an earlier campaign kept the job from   *)
(* it: an attempt that throws is tried again from the first campaign, and  *)
(* the rows it has settled do not stop it.                                 *)
THEOREM EveryReplyReached ==
  ASSUME OneChain, Faults = 0
  PROVE  Spec => []PublicReplyReached
<1>1. Chain => PublicReplyReached
  <2> SUFFICES ASSUME Chain, NEW a \in PublicReplies, log[a].status = "none",
                      \A j \in Jobs : Ended(j) \/ job[j].state = "absent"
               PROVE  \E b \in Campaigns : b < a /\ log[b].status = "FAILED"
    BY DEF PublicReplyReached
  <2>1. a \in Campaigns /\ \A j \in Jobs : job[j].state \notin {"waiting", "active"}
    BY CommentWorkerAssumption DEF Ended
  <2> QED
    BY <2>1 DEF Chain, Settles, FailedBefore
<1> QED
  BY <1>1, ChainInvariance, PTL

-----------------------------------------------------------------------------
(* What is on record, in one chain of jobs.                                *)

(* The row of a campaign becomes SENT once, by the job that sent it.       *)
LEMMA SentOnlyGrows ==
  ASSUME IInv, Chain, OneChain, NEW j \in Jobs, JobStep(j)
  PROVE  /\ SentRows' = IF At(j, "sent") THEN SentRows \union {Here(j)} ELSE SentRows
         /\ At(j, "sent") => Here(j) \in Campaigns \ SentRows
<1>1. CASE UNCHANGED log /\ ~At(j, "sent")
  BY <1>1 DEF SentRows
<1>2. ASSUME Active(j), ~At(j, "sent"), RowOnly(j), Row(j).status # "SENT",
             log'[Here(j)].status # "SENT"
      PROVE  SentRows' = SentRows
  BY <1>2, Knows DEF SentRows, RowOnly
<1>3. ASSUME Active(j), ~At(j, "sent"), RowOnly(j), log'[Here(j)].status = Row(j).status
      PROVE  SentRows' = SentRows
  BY <1>3, Knows DEF SentRows, RowOnly
<1>4. CASE WriteLog(j)
  <2>1. Active(j) /\ Remembers(job[j], Row(j)) /\ ~At(j, "sent") /\ Row(j) \in Rows
    BY <1>4, Knows DEF WriteLog, At, Active
  <2>2. CASE UNCHANGED log
    BY <1>1, <2>1, <2>2
  <2>3. CASE job[j].needsDm /\ SetStatus(j, "PENDING")
    BY <1>2, <2>1, <2>3, StatusSet DEF Remembers, Statuses
  <2> QED
    BY <1>4, <2>1, <2>2, <2>3 DEF WriteLog
<1>5. CASE RecordReply(j)
  <2>1. Active(j) /\ ~At(j, "sent") /\ Row(j) \in Rows
    BY <1>5, Knows DEF RecordReply, At, Active
  <2> DEFINE row == [Row(j) EXCEPT !.replied = TRUE]
  <2>2. row \in Rows /\ row.status = Row(j).status /\ Write(j, row)
    BY <1>5, <2>1 DEF Rows, RecordReply
  <2> HIDE DEF row
  <2>3. RowOnly(j) /\ log'[Here(j)] = row
    BY <2>1, <2>2, RowSet
  <2> QED
    BY <1>3, <2>1, <2>2, <2>3
<1>6. CASE RecordReplyError(j)
  <2>1. Active(j) /\ ~At(j, "sent") /\ Row(j) \in Rows
    BY <1>6, Knows DEF RecordReplyError, At, Active
  <2> DEFINE row == [Row(j) EXCEPT !.replyUnconfirmed = (job[j].err = "unconfirmed")]
  <2>2. row \in Rows /\ row.status = Row(j).status /\ Write(j, row)
    BY <1>6, <2>1 DEF Rows, RecordReplyError
  <2> HIDE DEF row
  <2>3. RowOnly(j) /\ log'[Here(j)] = row
    BY <2>1, <2>2, RowSet
  <2> QED
    BY <1>3, <2>1, <2>2, <2>3
<1>7. CASE Skip(j) \/ Defer(j)
  <2>1. Active(j) /\ Remembers(job[j], Row(j)) /\ ~At(j, "sent") /\ job[j].needsDm
    BY <1>7, Knows DEF Skip, Defer, At, Active, Remembers
  <2>2. PICK status \in Statuses \ {"SENT"} : SetStatus(j, status)
    BY <1>7 DEF Skip, Defer, At, IInv, Sound, Skips, Statuses
  <2> QED
    BY <1>2, <2>1, <2>2, StatusSet DEF Remembers
<1>8. CASE Fail(j)
  <2>1. Active(j) /\ Remembers(job[j], Row(j)) /\ ~At(j, "sent") /\ job[j].needsDm
        /\ Row(j) \in Rows
    BY <1>8, Knows DEF Fail, At, Active, Remembers
  <2> DEFINE row == [Row(j) EXCEPT !.status = "FAILED",
                                   !.dmUnconfirmed = (job[j].err = "unconfirmed")]
  <2>2. row \in Rows /\ row.status = "FAILED" /\ Write(j, row)
    BY <1>8, <2>1 DEF Rows, Statuses, Fail
  <2> HIDE DEF row
  <2>3. RowOnly(j) /\ log'[Here(j)] = row
    BY <2>1, <2>2, RowSet
  <2> QED
    BY <1>2, <2>1, <2>2, <2>3 DEF Remembers
<1>9. CASE RecordSent(j)
  <2>1. Active(j) /\ Remembers(job[j], Row(j)) /\ At(j, "sent") /\ job[j].needsDm
    BY <1>9, Knows DEF RecordSent, At, Active, Remembers
  <2>2. RowOnly(j) /\ log'[Here(j)].status = "SENT"
    BY <1>9, <2>1, StatusSet DEF RecordSent, Statuses
  <2>3. Here(j) \in Campaigns /\ Row(j) = log[Here(j)] /\ Row(j).status # "SENT"
    BY <2>1, Knows DEF Remembers
  <2> QED
    BY <2>1, <2>2, <2>3 DEF SentRows, RowOnly
<1>10. (UNCHANGED log /\ ~At(j, "sent")) \/ WriteLog(j) \/ RecordReply(j) \/ RecordReplyError(j)
       \/ Skip(j) \/ Defer(j) \/ Fail(j) \/ RecordSent(j)
  BY DEF JobStep, Start, ReadLog, ClaimReceipt, Send, Sending, Dedup, ReserveUsage, ReserveSlot,
         NoSlot, Requeue, FreeSlot, FreeUsage, At
<1>11. WriteLog(j) \/ RecordReply(j) \/ RecordReplyError(j) \/ Skip(j) \/ Defer(j) \/ Fail(j)
         => ~At(j, "sent")
  BY DEF WriteLog, RecordReply, RecordReplyError, Skip, Defer, Fail, At
<1> QED
  BY <1>1, <1>4, <1>5, <1>6, <1>7, <1>8, <1>9, <1>10, <1>11

(* A row on record as SENT loses that status only when the job comes back  *)
(* for the public reply, finds no usable token and upserts FAILED          *)
(* (dm-worker.ts:342-367).                                                 *)
SentLostOnlyToCredentials ==
  [][\A a \in Campaigns :
       log[a].status = "SENT" /\ log'[a].status # "SENT" =>
         \E j \in Jobs : NoCredentials(j)]_vars

(* Within one chain of jobs, and whatever fails, a private reply on record *)
(* stays on record (dm-worker.ts:370, "a prior SENT is never clobbered")   *)
(* save for the one branch that upserts FAILED before it gets there.       *)
THEOREM SentLostNowhereElse ==
  ASSUME OneChain
  PROVE  Spec => SentLostOnlyToCredentials
<1> DEFINE A == \A a \in Campaigns :
                  log[a].status = "SENT" /\ log'[a].status # "SENT" =>
                    \E j \in Jobs : NoCredentials(j)
<1>1. IInv /\ Chain /\ [Next]_vars => [A]_vars
  <2> SUFFICES ASSUME IInv, Chain, Next, NEW a \in Campaigns, log[a].status = "SENT",
                      log'[a].status # "SENT"
               PROVE  \E j \in Jobs : NoCredentials(j)
    OBVIOUS
  <2>1. ASSUME NEW j \in Jobs, JobStep(j) PROVE FALSE
    BY <2>1, SentOnlyGrows DEF SentRows
  <2>2. log' # log
    OBVIOUS
  <2>3. ASSUME NEW j \in Jobs, Fault(j) PROVE NoCredentials(j)
    BY <2>2, <2>3 DEF Fault, Crash, StatementFails
  <2>4. ~Done
    BY <2>2 DEF Done, vars
  <2> QED
    BY <2>1, <2>3, <2>4 DEF Next
<1> QED
  BY <1>1, Invariance, ChainInvariance, PTL DEF Spec, SentLostOnlyToCredentials

(* Without faults that branch is not taken, and a SENT row stays SENT      *)
(* whatever else the jobs of the comment do.                               *)
THEOREM SentStays ==
  ASSUME OneChain, Faults = 0
  PROVE  Spec => SentNeverClobbered
<1>1. IInv => \A j \in Jobs : ~NoCredentials(j)
  BY DEF NoCredentials, IInv, Typed
<1>2. IInv /\ [\A a \in Campaigns :
                 log[a].status = "SENT" /\ log'[a].status # "SENT" =>
                   \E j \in Jobs : NoCredentials(j)]_vars
        => [\A a \in Campaigns : log[a].status = "SENT" => log'[a].status = "SENT"]_vars
  BY <1>1
<1> QED
  BY <1>2, SentLostNowhereElse, Invariance, PTL
     DEF SentLostOnlyToCredentials, SentNeverClobbered

(* Only a send delivers, and only of a row without a mark.                 *)
THEOREM MarkedStaysUnsent ==
  ASSUME OneChain
  PROVE  Spec => MarkedNeverResent
<1> DEFINE A == \A a \in Campaigns :
                  /\ log[a].dmUnconfirmed \/ log[a].status = "SENT" =>
                       delivered'["dm"][a] = delivered["dm"][a]
                  /\ log[a].replyUnconfirmed \/ log[a].replied =>
                       delivered'["reply"][a] = delivered["reply"][a]
<1>1. IInv /\ Chain /\ [Next]_vars => [A]_vars
  <2> SUFFICES ASSUME IInv, Chain, Next PROVE A
    OBVIOUS
  <2>1. CASE delivered' = delivered
    BY <2>1
  <2>2. ASSUME NEW j \in Jobs, Send(j) PROVE A
    <3>1. /\ Active(j) /\ job[j].step \in {"reply", "dm", "text"} /\ Remembers(job[j], Row(j))
          /\ Row(j) = log[Here(j)]
      BY <2>2, Knows DEF Send, Sending, At, Active
    <3>2. CASE job[j].step = "reply"
      <4>1. /\ delivered'["dm"] = delivered["dm"]
            /\ \A a \in Campaigns \ {Here(j)} : delivered'["reply"][a] = delivered["reply"][a]
        BY <2>2, <3>2 DEF Send, Channel, IInv, Typed, Channels
      <4>2. ~Row(j).replied /\ ~Row(j).replyUnconfirmed
        BY <3>1, <3>2 DEF Remembers
      <4> QED
        BY <3>1, <4>1, <4>2
    <3>3. CASE job[j].step # "reply"
      <4>1. /\ delivered'["reply"] = delivered["reply"]
            /\ \A a \in Campaigns \ {Here(j)} : delivered'["dm"][a] = delivered["dm"][a]
        BY <2>2, <3>3 DEF Send, Channel, IInv, Typed, Channels
      <4>2. Row(j).status # "SENT" /\ ~Row(j).dmUnconfirmed
        BY <3>1, <3>3 DEF Remembers
      <4> QED
        BY <3>1, <4>1, <4>2
    <3> QED
      BY <3>2, <3>3
  <2>3. delivered' = delivered \/ \E j \in Jobs : Send(j)
    BY DEF Next, Done, vars, JobStep, Fault, Start, ReadLog, WriteLog, RecordReply,
           RecordReplyError, ClaimReceipt, Dedup, Skip, ReserveUsage, ReserveSlot, NoSlot,
           Defer, Requeue, RecordSent, FreeSlot, FreeUsage, Fail, NoCredentials, Crash,
           StatementFails
  <2> QED
    BY <2>1, <2>2, <2>3
<1> QED
  BY <1>1, Invariance, ChainInvariance, PTL DEF Spec, MarkedNeverResent

(* There are finitely many rows to count.                                  *)
LEMMA SentFinite == IsFiniteSet(Campaigns) /\ IsFiniteSet(SentRows)
<1>1. IsFiniteSet(Campaigns)
  BY FS_Interval, CommentWorkerAssumption DEF Campaigns
<1> QED
  BY <1>1, FS_Subset DEF SentRows

(* Without faults both counters are exactly the rows on record as SENT and *)
(* the jobs that hold one: every way out of the send - no slot, a          *)
(* deferral, a failed send, a failed attempt - gives back what it took,    *)
(* once (lines 500-600 and 722-746 of dm-worker.ts).                       *)
THEOREM NothingLeaks ==
  ASSUME OneChain, Faults = 0
  PROVE  Spec => []ReservationsExact
<1>0. ReservationsExact <=> /\ slots = Cardinality(SentRows) + Cardinality(SlotHolders)
                            /\ usage = Cardinality(SentRows) + Cardinality(UsageHolders)
  BY DEF ReservationsExact, SlotHolders, UsageHolders
<1>1. Init => ReservationsExact
  <2> SUFFICES ASSUME Init PROVE ReservationsExact
    OBVIOUS
  <2>1. SlotHolders = {} /\ UsageHolders = {} /\ SentRows = {}
    BY DEF Init, Fresh, NoRow, SentRows, SlotHolders, UsageHolders, HoldsSlot, HoldsUsage, At
  <2> QED
    BY <1>0, <2>1, FS_EmptySet DEF Init
<1>2. IInv /\ Chain /\ ReservationsExact /\ [Next]_vars => ReservationsExact'
  <2> SUFFICES ASSUME IInv, Chain, ReservationsExact, [Next]_vars PROVE ReservationsExact'
    OBVIOUS
  <2>1. CASE UNCHANGED vars
    BY <2>1 DEF vars, ReservationsExact, SentRows, HoldsSlot, HoldsUsage, At
  <2>2. ASSUME NEW j \in Jobs, JobStep(j) PROVE ReservationsExact'
    <3>0. job \in [Jobs -> JobRecords]
      BY DEF IInv, Typed
    <3>1. Cardinality(SentRows) \in Nat /\ IsFiniteSet(SentRows)
      BY SentFinite, FS_CardinalityType
    <3>2. slots \in Int /\ usage \in Int /\ Pays(j)
      <4>1. Cardinality(SlotHolders) \in Nat /\ Cardinality(UsageHolders) \in Nat
        BY JobsFinite, FS_Subset, FS_CardinalityType DEF SlotHolders, UsageHolders
      <4>2. slots \in Int /\ usage \in Int
        BY <1>0, <3>1, <4>1
      <4> QED
        BY <2>2, <4>2, StepPays
    <3>3. /\ Cardinality(SlotHolders) \in Nat /\ Cardinality(UsageHolders) \in Nat
          /\ Cardinality(SlotHolders') =
               Cardinality(SlotHolders) + Held(job'[j], SlotSteps) - Held(job[j], SlotSteps)
          /\ Cardinality(UsageHolders') =
               Cardinality(UsageHolders) + Held(job'[j], UsageSteps) - Held(job[j], UsageSteps)
      BY <3>0, <3>2, Recount DEF Pays
    <3>4. Cardinality(SentRows') = Cardinality(SentRows) + Kept(j)
      <4>1. CASE At(j, "sent")
        <5>1. SentRows' = SentRows \union {Here(j)} /\ Here(j) \notin SentRows
          BY <2>2, <4>1, SentOnlyGrows
        <5> QED
          BY <3>1, <4>1, <5>1, FS_AddElement DEF Kept
      <4>2. CASE ~At(j, "sent")
        BY <2>2, <3>1, <4>2, SentOnlyGrows DEF Kept
      <4> QED
        BY <4>1, <4>2
    <3>5. \A q, steps : Held(q, steps) \in Nat
      BY DEF Held
    <3>6. Kept(j) \in Nat
      BY DEF Kept
    <3>7. slots = Cardinality(SentRows) + Cardinality(SlotHolders)
          /\ usage = Cardinality(SentRows) + Cardinality(UsageHolders)
      BY <1>0
    <3>8. slots' = Cardinality(SentRows') + Cardinality(SlotHolders')
          /\ usage' = Cardinality(SentRows') + Cardinality(UsageHolders')
      BY <3>1, <3>2, <3>3, <3>4, <3>5, <3>6, <3>7 DEF Pays
    <3> QED
      BY <3>8 DEF ReservationsExact, SlotHolders, UsageHolders
  <2>3. ASSUME NEW j \in Jobs, Fault(j) PROVE FALSE
    BY <2>3 DEF Fault, NoCredentials, Crash, StatementFails, IInv, Typed
  <2> QED
    BY <2>1, <2>2, <2>3 DEF Next, Done
<1> QED
  BY <1>1, <1>2, Invariance, ChainInvariance, PTL DEF Spec
-----------------------------------------------------------------------------
(* What the jobs leave behind: those of the webhook, of the sweeps and     *)
(* their requeues, in any order and with any faults, one at a time.        *)

(* No two jobs of the comment are under way together.                      *)
Alone == \A i, l \in Jobs : Active(i) /\ Active(l) => i = l

(* What a row says is done: the private reply, and the public one.         *)
DmDone(row) == row.status = "SENT" \/ row.dmUnconfirmed

ReplyDone(row) == row.replied \/ row.replyUnconfirmed

ReplySteps == {"reply", "replied", "reply-failed"}

(* What a job under way knows of its row: it acts on what is not done.     *)
Holds(q, row) ==
  /\ q.step = "write" => q.needsDm \/ q.replyDue
  /\ q.step \notin ReplySteps \union {"read", "write"} => q.needsDm
  /\ q.needsDm => ~DmDone(row)
  /\ q.step \in ReplySteps \/ (q.step = "write" /\ q.replyDue) => ~ReplyDone(row)

KnowsRow ==
  \A j \in Jobs : Active(j) /\ job[j].step # "read" => Holds(job[j], log[job[j].at])

(* What a step of job j does to the log: only its campaign's row changes,  *)
(* no reply that is done is opened, nor a DM in a row with nothing left to *)
(* do; and what the job knows it still knows.                              *)
Keeps(j) ==
  /\ \A a \in Campaigns \ {Here(j)} : log'[a] = log[a]
  /\ log'[Here(j)] \in Rows
  /\ ReplyDone(Row(j)) => ReplyDone(log'[Here(j)])
  /\ DmDone(Row(j)) /\ ReplyDone(Row(j)) => DmDone(log'[Here(j)])
  /\ job'[j].state = "active" /\ job'[j].step # "read" =>
       job'[j].at = Here(j) /\ Holds(job'[j], log'[Here(j)])

(* What is known of a job under way and of its row.                        *)
LEMMA KnowsIs ==
  ASSUME IInv, KnowsRow, NEW j \in Jobs, Active(j)
  PROVE  /\ job \in [Jobs -> JobRecords] /\ job[j] \in JobRecords /\ job[j].state = "active"
         /\ log \in [Campaigns -> Rows] /\ Here(j) \in Campaigns /\ job[j].at = Here(j)
         /\ Row(j) = log[Here(j)] /\ Row(j) \in Rows
         /\ job[j].step # "read" => Holds(job[j], Row(j))
<1>1. job[j] \in JobRecords /\ Here(j) \in Campaigns
  BY JobFields DEF Here, IInv, Typed
<1> QED
  BY <1>1 DEF KnowsRow, Row, Here, Active, IInv, Typed

(* A step that leaves the log alone.                                       *)
LEMMA QuietKeeps ==
  ASSUME IInv, KnowsRow, NEW j \in Jobs, Active(j), UNCHANGED log,
         job'[j].state = "active" /\ job'[j].step # "read" =>
           job'[j].at = Here(j) /\ Holds(job'[j], Row(j))
  PROVE  Keeps(j)
BY KnowsIs DEF Keeps

(* So is a record between two steps of a leg.                              *)
LEMMA GoesOn ==
  ASSUME IInv, KnowsRow, NEW j \in Jobs, Active(j), UNCHANGED log, job[j].step # "read",
         NEW q, job'[j] = q, q.at = Here(j), q.needsDm = job[j].needsDm,
         q.step \notin {"read", "write"},
         q.step \in ReplySteps => job[j].step \in ReplySteps,
         q.step \notin ReplySteps => job[j].needsDm
  PROVE  Keeps(j)
<1>1. Holds(job[j], Row(j))
  BY KnowsIs
<1>2. Holds(q, Row(j))
  BY <1>1 DEF Holds
<1> QED
  BY <1>2, QuietKeeps

(* The row is written.                                                     *)
LEMMA Writes ==
  ASSUME IInv, KnowsRow, NEW j \in Jobs, Active(j), NEW row \in Rows, Write(j, row),
         ReplyDone(Row(j)) => ReplyDone(row),
         DmDone(Row(j)) /\ ReplyDone(Row(j)) => DmDone(row),
         job'[j].state = "active" /\ job'[j].step # "read" =>
           job'[j].at = Here(j) /\ Holds(job'[j], row)
  PROVE  Keeps(j)
<1>1. log'[Here(j)] = row /\ \A a \in Campaigns \ {Here(j)} : log'[a] = log[a]
  BY KnowsIs DEF Write
<1> QED
  BY <1>1 DEF Keeps

(* A new status is a row that is written.                                  *)
LEMMA StatusIs ==
  ASSUME IInv, KnowsRow, NEW j \in Jobs, Active(j), NEW status \in Statuses,
         SetStatus(j, status)
  PROVE  \E row \in Rows :
           /\ Write(j, row) /\ row.status = status
           /\ row.dmUnconfirmed = Row(j).dmUnconfirmed /\ ReplyDone(row) = ReplyDone(Row(j))
<1> DEFINE row == [Row(j) EXCEPT !.status = status]
<1>1. /\ row \in Rows /\ row.status = status /\ row.dmUnconfirmed = Row(j).dmUnconfirmed
      /\ row.replied = Row(j).replied /\ row.replyUnconfirmed = Row(j).replyUnconfirmed
  BY KnowsIs DEF Rows
<1>2. log' = [log EXCEPT ![Here(j)] = row]
  BY KnowsIs DEF SetStatus
<1> HIDE DEF row
<1> QED
  BY <1>1, <1>2 DEF Write, ReplyDone

(* The next campaign, or the end: nothing is remembered.                   *)
LEMMA EndsBlank ==
  ASSUME IInv, KnowsRow, NEW j \in Jobs, Active(j)
  PROVE  /\ Advanced(j).step = "read"
         /\ \A err : Thrown(j, err).step = "read"
BY KnowsIs, UnderWay, AdvancedIs, ThrownIs DEF Blank

(* Past the public reply with the row as it is then.                       *)
LEMMA PastReply ==
  ASSUME IInv, KnowsRow, NEW j \in Jobs, Active(j), NEW row \in Rows,
         job' = [job EXCEPT ![j] = AfterReply(j)], job[j].needsDm => ~DmDone(row)
  PROVE  job'[j].state = "active" /\ job'[j].step # "read" =>
           job'[j].at = Here(j) /\ Holds(job'[j], row)
<1>1. job'[j] = AfterReply(j)
  BY KnowsIs
<1>2. CASE job[j].needsDm
  <2>1. /\ AfterReply(j).step = "dedup" /\ AfterReply(j).at = Here(j)
        /\ AfterReply(j).needsDm = job[j].needsDm
    BY <1>2, KnowsIs, AfterReplyIs
  <2> QED
    BY <1>1, <1>2, <2>1 DEF Holds, ReplySteps
<1>3. CASE ~job[j].needsDm
  BY <1>1, <1>3, KnowsIs, AfterReplyIs, EndsBlank
<1> QED
  BY <1>2, <1>3

(* A job that starts has read nothing yet.                                 *)
LEMMA StartKeeps == ASSUME IInv, KnowsRow, NEW j \in Jobs, Start(j) PROVE Keeps(j)
<1>1. /\ job[j] \in JobRecords /\ Here(j) \in Campaigns /\ Row(j) = log[Here(j)]
      /\ log \in [Campaigns -> Rows] /\ job[j].step = "read"
  BY JobFields DEF Start, IInv, Typed, Sound, Here, Row
<1>2. job'[j].step = "read"
  BY <1>1 DEF Start, IInv, Typed, JobRecords
<1> QED
  BY <1>1, <1>2 DEF Start, Keeps

(* What the job reads, it knows.                                           *)
LEMMA ReadLogKeeps == ASSUME IInv, KnowsRow, NEW j \in Jobs, ReadLog(j) PROVE Keeps(j)
<1>1. Active(j) /\ job[j].step = "read" /\ UNCHANGED log
  BY DEF ReadLog, At, Active
<1>2. CASE Advance(j)
  <2>1. job'[j].step = "read"
    BY <1>1, <1>2, KnowsIs, EndsBlank DEF Advance
  <2> QED
    BY <1>1, <2>1, QuietKeeps
<1>3. CASE ~(Row(j).status = "SKIPPED_PLAN_LIMIT" \/ (~NeedsDm(j) /\ ~ReplyDue(j)))
  <2> DEFINE q == [job[j] EXCEPT !.step = "write", !.found = (Row(j).status # "none"),
                                 !.needsDm = NeedsDm(j), !.replyDue = ReplyDue(j)]
  <2>1. /\ q.step = "write" /\ q.needsDm = NeedsDm(j) /\ q.replyDue = ReplyDue(j)
        /\ q.at = Here(j)
    BY <1>1, KnowsIs DEF JobRecords
  <2>2. job' = [job EXCEPT ![j] = q]
    BY <1>1, <1>3, KnowsIs DEF ReadLog, JobRecords
  <2> HIDE DEF q
  <2>3. job'[j] = q
    BY <1>1, <2>2, KnowsIs
  <2>4. Holds(q, Row(j))
    BY <1>3, <2>1 DEF Holds, NeedsDm, ReplyDue, DmDone, ReplyDone, ReplySteps
  <2> QED
    BY <1>1, <2>1, <2>3, <2>4, QuietKeeps
<1> QED
  BY <1>2, <1>3 DEF ReadLog

(* PENDING is only written where no private reply is done.                 *)
LEMMA WriteLogKeeps == ASSUME IInv, KnowsRow, NEW j \in Jobs, WriteLog(j) PROVE Keeps(j)
<1>1. Active(j) /\ job[j].step = "write" /\ Holds(job[j], Row(j))
  BY KnowsIs DEF WriteLog, At, Active
<1>2. CASE Throw(j, "error") /\ UNCHANGED log
  <2>1. job'[j].step = "read"
    BY <1>1, <1>2, KnowsIs, EndsBlank DEF Throw
  <2> QED
    BY <1>1, <1>2, <2>1, QuietKeeps
<1>3. CASE /\ IF job[j].needsDm THEN SetStatus(j, "PENDING") ELSE UNCHANGED log
           /\ IF job[j].replyDue THEN Go(j, "reply")
                                 ELSE job' = [job EXCEPT ![j] = AfterReply(j)]
  <2>1. ASSUME NEW row \in Rows, job[j].needsDm => ~DmDone(row),
               ReplyDone(row) = ReplyDone(Row(j))
        PROVE  job'[j].state = "active" /\ job'[j].step # "read" =>
                 job'[j].at = Here(j) /\ Holds(job'[j], row)
    <3>1. CASE job[j].replyDue
      <4> DEFINE q == [job[j] EXCEPT !.step = "reply"]
      <4>1. q.step = "reply" /\ q.needsDm = job[j].needsDm /\ q.at = Here(j)
        BY <1>1, KnowsIs DEF JobRecords
      <4>2. job'[j] = q
        BY <1>1, <1>3, <3>1, KnowsIs DEF Go
      <4> HIDE DEF q
      <4> QED
        BY <1>1, <2>1, <3>1, <4>1, <4>2 DEF Holds, ReplySteps
    <3>2. CASE ~job[j].replyDue
      BY <1>1, <1>3, <2>1, <3>2, PastReply
    <3> QED
      BY <3>1, <3>2
  <2>2. CASE job[j].needsDm
    <3>1. PICK row \in Rows :
            /\ Write(j, row) /\ row.status = "PENDING"
            /\ row.dmUnconfirmed = Row(j).dmUnconfirmed /\ ReplyDone(row) = ReplyDone(Row(j))
      BY <1>1, <1>3, <2>2, StatusIs DEF Statuses
    <3>2. ~DmDone(Row(j)) /\ ~DmDone(row)
      BY <1>1, <2>2, <3>1 DEF Holds, DmDone
    <3> QED
      BY <1>1, <2>1, <3>1, <3>2, Writes
  <2>3. CASE ~job[j].needsDm
    <3>1. UNCHANGED log /\ Row(j) \in Rows
      BY <1>1, <1>3, <2>3, KnowsIs
    <3> QED
      BY <1>1, <2>1, <2>3, <3>1, QuietKeeps
  <2> QED
    BY <2>2, <2>3
<1> QED
  BY <1>2, <1>3 DEF WriteLog

(* No credentials: the row is FAILED although its DM may be done, but then *)
(* the reply is what the job came for.                                     *)
LEMMA NoCredentialsKeeps == ASSUME IInv, KnowsRow, NEW j \in Jobs, NoCredentials(j) PROVE Keeps(j)
<1>1. Active(j) /\ job[j].step = "write" /\ Holds(job[j], Row(j)) /\ Advance(j)
  BY KnowsIs DEF NoCredentials, At, Active
<1>2. PICK row \in Rows :
        /\ Write(j, row) /\ row.status = "FAILED"
        /\ row.dmUnconfirmed = Row(j).dmUnconfirmed /\ ReplyDone(row) = ReplyDone(Row(j))
  BY <1>1, StatusIs DEF NoCredentials, Statuses
<1>3. job'[j].step = "read"
  BY <1>1, KnowsIs, EndsBlank DEF Advance
<1>4. ~(DmDone(Row(j)) /\ ReplyDone(Row(j)))
  BY <1>1 DEF Holds
<1> QED
  BY <1>1, <1>2, <1>3, <1>4, Writes

(* The outcome of the public reply is noted on a row that had none.        *)
LEMMA ReplyKeeps ==
  ASSUME IInv, KnowsRow, NEW j \in Jobs, RecordReply(j) \/ RecordReplyError(j)
  PROVE  Keeps(j)
<1>1. /\ Active(j) /\ job[j].step \in ReplySteps /\ Holds(job[j], Row(j)) /\ Row(j) \in Rows
      /\ job' = [job EXCEPT ![j] = AfterReply(j)]
  BY KnowsIs DEF RecordReply, RecordReplyError, At, Active, ReplySteps
<1>2. ~ReplyDone(Row(j))
  BY <1>1 DEF Holds
<1>3. PICK row \in Rows : Write(j, row) /\ DmDone(row) = DmDone(Row(j))
  <2>1. CASE RecordReply(j)
    <3> DEFINE row == [Row(j) EXCEPT !.replied = TRUE]
    <3>1. /\ row \in Rows /\ row.status = Row(j).status
          /\ row.dmUnconfirmed = Row(j).dmUnconfirmed
      BY <1>1 DEF Rows
    <3> QED
      BY <2>1, <3>1 DEF RecordReply, DmDone
  <2>2. CASE RecordReplyError(j)
    <3> DEFINE row == [Row(j) EXCEPT !.replyUnconfirmed = (job[j].err = "unconfirmed")]
    <3>1. /\ row \in Rows /\ row.status = Row(j).status
          /\ row.dmUnconfirmed = Row(j).dmUnconfirmed
      BY <1>1 DEF Rows
    <3> QED
      BY <2>2, <3>1 DEF RecordReplyError, DmDone
  <2> QED
    BY <2>1, <2>2
<1>4. job[j].needsDm => ~DmDone(row)
  BY <1>1, <1>3 DEF Holds
<1> QED
  BY <1>1, <1>2, <1>3, <1>4, PastReply, Writes

(* Whatever an attempt to send comes to.                                   *)
LEMMA LandKeeps ==
  ASSUME IInv, KnowsRow, NEW j \in Jobs, Sending(j), UNCHANGED log,
         NEW answer \in Errors, Land(j, answer)
  PROVE  Keeps(j)
<1>1. Active(j) /\ job[j].step \in {"reply", "dm", "text"} /\ Holds(job[j], Row(j))
  BY KnowsIs DEF Sending, At, Active
<1>2. PICK q \in Landings(j, answer) : job' = [job EXCEPT ![j] = q]
  BY DEF Land
<1>3. /\ q.at = Here(j) /\ q.needsDm = job[j].needsDm
      /\ IF Channel(j) = "reply" THEN q.step = IF answer = "none" THEN "replied" ELSE "reply-failed"
         ELSE IF answer = "none" THEN q.step = "sent" ELSE q.step \in {"free-slot", "text"}
  <2>1. job \in [Jobs -> JobRecords] /\ job[j].at = Here(j)
    BY <1>1, KnowsIs
  <2>2. /\ q.at = job[j].at /\ q.needsDm = job[j].needsDm
        /\ IF Channel(j) = "reply" THEN q.step = IF answer = "none" THEN "replied" ELSE "reply-failed"
           ELSE IF answer = "none" THEN q.step = "sent" ELSE q.step \in {"free-slot", "text"}
    BY <2>1, LandingsAre
  <2> QED
    BY <2>1, <2>2
<1>4. /\ q.step \in ReplySteps => job[j].step \in ReplySteps
      /\ q.step \notin ReplySteps => job[j].needsDm
      /\ q.step \notin {"read", "write"}
  BY <1>1, <1>3 DEF Channel, Holds, ReplySteps
<1>5. job'[j] = q
  BY <1>1, <1>2, KnowsIs
<1> QED
  BY <1>1, <1>3, <1>4, <1>5, GoesOn

(* A claim, like a send, leaves the log alone.                             *)
LEMMA ClaimKeeps == ASSUME IInv, KnowsRow, NEW j \in Jobs, ClaimReceipt(j) PROVE Keeps(j)
<1>1. /\ Active(j) /\ job[j].step \in {"reply", "dm", "text"} /\ Holds(job[j], Row(j))
      /\ Sending(j) /\ UNCHANGED log
  BY KnowsIs DEF ClaimReceipt, Sending, At, Active
<1>2. CASE Land(j, "none") \/ Land(j, "unconfirmed")
  BY <1>1, <1>2, LandKeeps DEF Errors
<1>3. CASE job' = [job EXCEPT ![j].claimed = TRUE]
  <2> DEFINE q == [job[j] EXCEPT !.claimed = TRUE]
  <2>1. q.step = job[j].step /\ q.needsDm = job[j].needsDm /\ q.at = Here(j)
    BY <1>1, KnowsIs DEF JobRecords
  <2>2. job'[j] = q
    BY <1>1, <1>3, KnowsIs
  <2> HIDE DEF q
  <2> QED
    BY <1>1, <2>1, <2>2, GoesOn DEF Holds, ReplySteps
<1>4. receipt[Channel(j)] \in {"none", "claimed", "answered"}
  BY DEF Channel, Channels, IInv, Typed
<1> QED
  BY <1>2, <1>3, <1>4 DEF ClaimReceipt

(* A send.                                                                 *)
LEMMA SendKeeps == ASSUME IInv, KnowsRow, NEW j \in Jobs, Send(j) PROVE Keeps(j)
<1>1. PICK o \in Outcomes : Land(j, o.err)
  BY DEF Send
<1>2. o.err \in Errors
  BY DEF Outcomes, Errors
<1> QED
  BY <1>1, <1>2, LandKeeps DEF Send

(* Between two steps of the private reply.                                 *)
LEMMA LegKeeps ==
  ASSUME IInv, KnowsRow, NEW j \in Jobs, Active(j), UNCHANGED log,
         job[j].step \notin ReplySteps \union {"read", "write"},
         NEW step \in Steps \ (ReplySteps \union {"read", "write"}),
         job'[j].step = step, job'[j].at = job[j].at, job'[j].needsDm = job[j].needsDm
  PROVE  Keeps(j)
<1>1. job[j].needsDm /\ job[j].at = Here(j)
  BY KnowsIs DEF Holds
<1> QED
  BY <1>1, GoesOn

(* Looking for other campaigns, reserving and releasing.                   *)
LEMMA ReservesKeep ==
  ASSUME IInv, KnowsRow, NEW j \in Jobs,
         \/ Dedup(j) \/ ReserveUsage(j) \/ ReserveSlot(j) \/ NoSlot(j) \/ FreeSlot(j)
         \/ FreeUsage(j)
  PROVE  Keeps(j)
<1>1. /\ Active(j) /\ UNCHANGED log
      /\ job[j].step \in {"dedup", "usage", "slot", "no-slot", "free-slot", "free-usage"}
  BY DEF Dedup, ReserveUsage, ReserveSlot, NoSlot, FreeSlot, FreeUsage, At, Active
<1>2. \/ \E step \in {"usage", "slot", "dm", "no-slot", "defer", "free-usage", "fail"} : Go(j, step)
      \/ \E mark \in Skips : job' = [job EXCEPT ![j].step = "skip", ![j].mark = mark]
  BY DEF Dedup, ReserveUsage, ReserveSlot, NoSlot, FreeSlot, FreeUsage, Blocked, Go, Skips
<1>3. ASSUME NEW step \in {"usage", "slot", "dm", "no-slot", "defer", "free-usage", "fail"},
             Go(j, step)
      PROVE  Keeps(j)
  <2> DEFINE q == [job[j] EXCEPT !.step = step]
  <2>1. q.step = step /\ q.at = job[j].at /\ q.needsDm = job[j].needsDm
    BY <1>1, KnowsIs DEF JobRecords
  <2>2. job'[j] = q
    BY <1>1, <1>3, KnowsIs DEF Go
  <2> HIDE DEF q
  <2> QED
    BY <1>1, <2>1, <2>2, LegKeeps DEF ReplySteps, Steps
<1>4. ASSUME NEW mark \in Skips, job' = [job EXCEPT ![j].step = "skip", ![j].mark = mark]
      PROVE  Keeps(j)
  <2> DEFINE q == [job[j] EXCEPT !.step = "skip", !.mark = mark]
  <2>1. q.step = "skip" /\ q.at = job[j].at /\ q.needsDm = job[j].needsDm
    BY <1>1, KnowsIs DEF JobRecords
  <2>2. job' = [job EXCEPT ![j] = q]
    BY <1>1, <1>4, KnowsIs DEF JobRecords
  <2>3. job'[j] = q
    BY <1>1, <2>2, KnowsIs
  <2> HIDE DEF q
  <2> QED
    BY <1>1, <2>1, <2>3, LegKeeps DEF ReplySteps, Steps
<1> QED
  BY <1>2, <1>3, <1>4

(* The status of the private reply is written where none was done.         *)
LEMMA SettlesKeeps ==
  ASSUME IInv, KnowsRow, NEW j \in Jobs, Skip(j) \/ Defer(j) \/ RecordSent(j)
  PROVE  Keeps(j)
<1>1. /\ Active(j) /\ job[j].step \in {"skip", "defer", "sent"} /\ Holds(job[j], Row(j))
  BY KnowsIs DEF Skip, Defer, RecordSent, At, Active
<1>2. job[j].needsDm /\ ~DmDone(Row(j))
  BY <1>1 DEF Holds, ReplySteps
<1>3. PICK status \in Statuses : SetStatus(j, status) /\ (Defer(j) => status = "PENDING")
  BY DEF Skip, Defer, RecordSent, At, IInv, Sound, Skips, Statuses
<1>4. PICK row \in Rows :
        /\ Write(j, row) /\ row.status = status
        /\ row.dmUnconfirmed = Row(j).dmUnconfirmed /\ ReplyDone(row) = ReplyDone(Row(j))
  BY <1>1, <1>3, StatusIs
<1>5. CASE Advance(j)
  <2>1. job'[j].step = "read"
    BY <1>1, <1>5, KnowsIs, EndsBlank DEF Advance
  <2> QED
    BY <1>1, <1>2, <1>4, <2>1, Writes
<1>6. CASE Defer(j)
  <2> DEFINE q == [job[j] EXCEPT !.step = "requeue"]
  <2>1. q.step = "requeue" /\ q.at = Here(j) /\ q.needsDm = job[j].needsDm
    BY <1>1, KnowsIs DEF JobRecords
  <2>2. job'[j] = q
    BY <1>1, <1>6, KnowsIs DEF Defer, Go
  <2> HIDE DEF q
  <2>3. ~DmDone(row)
    BY <1>2, <1>3, <1>4, <1>6 DEF DmDone
  <2>4. Holds(q, row)
    BY <1>2, <2>1, <2>3 DEF Holds, ReplySteps
  <2> QED
    BY <1>1, <1>2, <1>4, <2>1, <2>2, <2>4, Writes
<1> QED
  BY <1>5, <1>6 DEF Skip, RecordSent

(* The catch of the send writes FAILED, in doubt or not, over what was not *)
(* done.                                                                   *)
LEMMA FailKeeps == ASSUME IInv, KnowsRow, NEW j \in Jobs, Fail(j) PROVE Keeps(j)
<1>1. Active(j) /\ job[j].step = "fail" /\ Holds(job[j], Row(j))
  BY KnowsIs DEF Fail, At, Active
<1>2. ~DmDone(Row(j))
  BY <1>1 DEF Holds, ReplySteps
<1> DEFINE row == [Row(j) EXCEPT !.status = "FAILED",
                                 !.dmUnconfirmed = (job[j].err = "unconfirmed")]
<1>3. row \in Rows /\ ReplyDone(row) = ReplyDone(Row(j))
  BY <1>1, KnowsIs DEF Rows, Statuses, ReplyDone
<1>4. Write(j, row)
  BY DEF Fail
<1> HIDE DEF row
<1>5. job'[j].step = "read"
  BY <1>1, KnowsIs, EndsBlank DEF Fail, Throw
<1> QED
  BY <1>1, <1>2, <1>3, <1>4, <1>5, Writes

(* The next requeue waits, and a crashed job does.                         *)
LEMMA QueueKeeps ==
  ASSUME IInv, KnowsRow, NEW j \in Jobs, Requeue(j) \/ Crash(j)
  PROVE  Keeps(j)
<1>1. Active(j) /\ UNCHANGED log
  BY DEF Requeue, Crash, At, Active
<1>2. job'[j].step = "read"
  <2>1. CASE Requeue(j)
    <3>1. PICK r : r = RequeueAttempt(j) + 1
      OBVIOUS
    <3>2. job'[j] = Advanced(j)
      BY <2>1, <3>1, RequeueIs
    <3> QED
      BY <1>1, <3>2, EndsBlank
  <2>2. CASE Crash(j)
    BY <1>1, <2>2, KnowsIs DEF Crash, Fresh
  <2> QED
    BY <2>1, <2>2
<1> QED
  BY <1>1, <1>2, QuietKeeps

(* A failed statement takes the job to a step whose memory still holds, or *)
(* back into the queue.                                                    *)
LEMMA StatementFailsKeeps ==
  ASSUME IInv, KnowsRow, NEW j \in Jobs, StatementFails(j)
  PROVE  Keeps(j)
<1>1. Active(j) /\ UNCHANGED log
  BY DEF StatementFails, Active
<1>2. CASE Sending(j)
  <2>1. job[j].step \in {"reply", "dm", "text"}
    BY <1>2 DEF Sending, At
  <2>2. Land(j, "error")
    BY <1>2, <2>1 DEF StatementFails
  <2> QED
    BY <1>1, <1>2, <2>2, LandKeeps DEF Errors
<1>3. CASE job[j].step \in {"replied", "slot"} /\
           \E step \in {"reply-failed", "free-usage"} :
             /\ (step = "free-usage") = (job[j].step = "slot")
             /\ job' = [job EXCEPT ![j].step = step, ![j].err = "error"]
  <2>1. PICK step \in {"reply-failed", "free-usage"} :
          /\ (step = "free-usage") = (job[j].step = "slot")
          /\ job' = [job EXCEPT ![j].step = step, ![j].err = "error"]
    BY <1>3
  <2> DEFINE q == [job[j] EXCEPT !.step = step, !.err = "error"]
  <2>2. q.step = step /\ q.needsDm = job[j].needsDm /\ q.at = Here(j)
    BY <1>1, KnowsIs DEF JobRecords
  <2>3. job'[j] = q
    BY <1>1, <2>1, KnowsIs DEF JobRecords
  <2> HIDE DEF q
  <2>4. Holds(job[j], Row(j))
    BY <1>1, <1>3, KnowsIs
  <2> QED
    BY <1>1, <1>3, <2>1, <2>2, <2>3, <2>4, GoesOn DEF Holds, ReplySteps
<1>4. CASE job[j].step = "reply-failed" /\ job' = [job EXCEPT ![j] = AfterReply(j)]
  <2>1. Row(j) \in Rows /\ (job[j].needsDm => ~DmDone(Row(j)))
    BY <1>1, <1>4, KnowsIs DEF Holds
  <2> QED
    BY <1>1, <1>4, <2>1, PastReply, QuietKeeps
<1>5. CASE job[j].step = "sent" /\ job' = [job EXCEPT ![j] = Undo(j, "error")]
  <2>1. /\ Undo(j, "error").at = job[j].at /\ Undo(j, "error").step = "free-slot"
        /\ Undo(j, "error").needsDm = job[j].needsDm
    BY <1>1, KnowsIs DEF JobRecords, Undo
  <2>2. job'[j] = Undo(j, "error")
    BY <1>1, <1>5, KnowsIs
  <2> QED
    BY <1>1, <1>5, <2>1, <2>2, LegKeeps DEF ReplySteps, Steps
<1>6. CASE Throw(j, "error")
  <2>1. job'[j].step = "read"
    BY <1>1, <1>6, KnowsIs, EndsBlank DEF Throw
  <2> QED
    BY <1>1, <2>1, QuietKeeps
<1> QED
  BY <1>2, <1>3, <1>4, <1>5, <1>6 DEF StatementFails

(* Every step of a job.                                                    *)
LEMMA StepKeeps ==
  ASSUME IInv, KnowsRow, NEW j \in Jobs, JobStep(j) \/ Fault(j)
  PROVE  Keeps(j)
<1>1. CASE JobStep(j)
  BY <1>1, StartKeeps, ReadLogKeeps, WriteLogKeeps, ReplyKeeps, ClaimKeeps, SendKeeps,
     ReservesKeep, SettlesKeeps, QueueKeeps, FailKeeps DEF JobStep
<1>2. CASE Fault(j)
  BY <1>2, NoCredentialsKeeps, QueueKeeps, StatementFailsKeeps DEF Fault
<1> QED
  BY <1>1, <1>2

(* A step of one job moves one, and none but its own takes a job up.       *)
LEMMA StepMoves ==
  ASSUME IInv, NEW j \in Jobs, JobStep(j) \/ Fault(j)
  PROVE  \A i \in Jobs \ {j} : job'[i].state = "active" => job'[i] = job[i]
<1>1. CASE Requeue(j)
  <2>1. OneMoves(j)
    BY <1>1, RequeueMoves
  <2>2. \A i \in Jobs : job[i] \in JobRecords
    BY DEF IInv, Typed
  <2> QED
    BY <2>1, <2>2 DEF OneMoves, JobRecords
<1>2. CASE ~Requeue(j)
  <2> SUFFICES ASSUME NEW i \in Jobs \ {j} PROVE job'[i] = job[i]
    OBVIOUS
  <2>1. job \in [Jobs -> JobRecords]
    BY DEF IInv, Typed
  <2>2. ASSUME NEW answer, Land(j, answer) PROVE job'[i] = job[i]
    BY <2>1, <2>2 DEF Land
  <2>3. CASE Start(j) \/ ReadLog(j) \/ WriteLog(j) \/ RecordReply(j) \/ RecordReplyError(j)
             \/ Skip(j) \/ RecordSent(j) \/ Fail(j)
    BY <2>1, <2>3 DEF Start, ReadLog, WriteLog, RecordReply, RecordReplyError, Skip, RecordSent,
                      Fail, Advance, Throw, Go
  <2>4. CASE Dedup(j) \/ ReserveUsage(j) \/ ReserveSlot(j) \/ NoSlot(j) \/ Defer(j)
             \/ FreeSlot(j) \/ FreeUsage(j)
    BY <2>1, <2>4 DEF Dedup, ReserveUsage, ReserveSlot, NoSlot, Blocked, Defer, FreeSlot,
                      FreeUsage, Go
  <2>5. CASE ClaimReceipt(j)
    <3>1. receipt[Channel(j)] \in {"none", "claimed", "answered"}
      BY DEF Channel, Channels, IInv, Typed
    <3> QED
      BY <2>1, <2>2, <2>5, <3>1 DEF ClaimReceipt
  <2>6. CASE Send(j)
    BY <2>2, <2>6 DEF Send
  <2>7. CASE Fault(j)
    <3>1. CASE Sending(j) /\ StatementFails(j)
      <4>1. job[j].step \in {"reply", "dm", "text"}
        BY <3>1 DEF Sending, At
      <4> QED
        BY <2>2, <3>1, <4>1 DEF StatementFails
    <3>2. CASE ~Sending(j) /\ StatementFails(j)
      BY <2>1, <3>2 DEF StatementFails, Throw
    <3> QED
      BY <2>1, <2>7, <3>1, <3>2 DEF Fault, NoCredentials, Crash, Advance
  <2> QED
    BY <1>2, <2>3, <2>4, <2>5, <2>6, <2>7 DEF JobStep
<1> QED
  BY <1>1, <1>2

(* Only a public reply that is not done is posted.                         *)
LEMMA PostsOpen ==
  ASSUME IInv, KnowsRow, NEW j \in Jobs, JobStep(j) \/ Fault(j), NEW a \in Campaigns,
         (delivered'["reply"][a] > 0) # (delivered["reply"][a] > 0)
  PROVE  a = Here(j) /\ ~ReplyDone(Row(j)) /\ delivered'["reply"][a] > 0
<1>1. CASE delivered' = delivered
  BY <1>1
<1>2. CASE Send(j)
  <2>1. PICK o \in Outcomes :
          delivered' = IF o.sent THEN [delivered EXCEPT ![Channel(j)][Here(j)] = @ + 1]
                                 ELSE delivered
    BY <1>2 DEF Send
  <2>2. /\ delivered \in [Channels -> [Campaigns -> Nat]] /\ Here(j) \in Campaigns
        /\ Active(j) /\ Channel(j) \in Channels /\ "reply" \in Channels
    BY <1>2, JobFields DEF Send, Sending, At, Active, Channel, Channels, Here, IInv, Typed
  <2>3. Channel(j) = "reply" /\ a = Here(j) /\ delivered'["reply"][a] = delivered["reply"][a] + 1
    BY <2>1, <2>2
  <2>4. job[j].step = "reply"
    BY <1>2, <2>3 DEF Channel, Send, Sending, At
  <2>5. ~ReplyDone(Row(j))
    BY <2>2, <2>4, KnowsIs DEF Holds, ReplySteps
  <2> QED
    BY <2>2, <2>3, <2>5
<1>3. delivered' = delivered \/ Send(j)
  BY DEF JobStep, Fault, Start, ReadLog, WriteLog, RecordReply, RecordReplyError, ClaimReceipt,
         Dedup, Skip, ReserveUsage, ReserveSlot, NoSlot, Defer, Requeue, RecordSent, FreeSlot,
         FreeUsage, Fail, NoCredentials, Crash, StatementFails
<1> QED
  BY <1>1, <1>2, <1>3

(* What the sweep and Instagram's readers see of a campaign's row.         *)
Seen(row) == [dm |-> IF DmDone(row) THEN "sent" ELSE "open",
              reply |-> IF ReplyDone(row) THEN "sent" ELSE "open"]

Posted == {a \in PublicReplies : delivered["reply"][a] > 0}

Leaves ==
  INSTANCE CommentOutcome WITH
    Items <- PublicReplies, log <- [a \in PublicReplies |-> Seen(log[a])], shown <- Posted

(* A job's step is a step of the promise, for the campaign it is at.       *)
LEMMA LeavesStep ==
  ASSUME IInv, KnowsRow, NEW j \in Jobs, JobStep(j) \/ Fault(j)
  PROVE  [Leaves!Next]_(Leaves!vars)
<1> DEFINE seen == [a \in PublicReplies |-> Seen(log[a])]
<1>1. Keeps(j) /\ log \in [Campaigns -> Rows] /\ PublicReplies \subseteq Campaigns
      /\ Row(j) = log[Here(j)]
  BY StepKeeps, CommentWorkerAssumption DEF IInv, Typed, Row
<1>2. \A a \in PublicReplies : a # Here(j) => /\ Seen(log'[a]) = Seen(log[a])
                                              /\ a \in Posted' <=> a \in Posted
  BY <1>1, PostsOpen DEF Keeps, Posted
<1>3. CASE Here(j) \notin PublicReplies
  <2>1. seen' = seen /\ Posted' = Posted
    BY <1>2, <1>3 DEF Posted
  <2> QED
    BY <2>1 DEF Leaves!vars
<1>4. CASE Here(j) \in PublicReplies
  <2>1. PICK a \in PublicReplies : a = Here(j)
    BY <1>4
  <2>2. seen' = [seen EXCEPT ![a] = Seen(log'[a])]
    BY <1>2, <2>1
  <2>3. /\ Seen(log'[a]) \in Leaves!Rows
        /\ seen[a].reply = "sent" => Seen(log'[a]).reply = "sent"
        /\ seen[a].dm = "sent" /\ seen[a].reply = "sent" => Seen(log'[a]).dm = "sent"
    BY <1>1, <2>1 DEF Seen, Keeps, Leaves!Rows
  <2>4. Seen(log'[a]) \in Leaves!Outcomes(a)
    BY <2>3 DEF Leaves!Outcomes, Leaves!Handled
  <2>5. Leaves!Leave(a)
    BY <2>2, <2>4 DEF Leaves!Leave
  <2>6. Posted' = Posted \/ (seen[a].reply = "open" /\ Posted' = Posted \union {a})
    <3>1. CASE a \in Posted' <=> a \in Posted
      BY <1>2, <2>1, <3>1 DEF Posted
    <3>2. CASE ~(a \in Posted' <=> a \in Posted)
      <4>1. ~ReplyDone(Row(j)) /\ delivered'["reply"][a] > 0
        BY <1>1, <2>1, <3>2, PostsOpen DEF Posted
      <4>2. seen[a].reply = "open" /\ a \in Posted'
        BY <1>1, <2>1, <4>1 DEF Seen, Posted
      <4>3. Posted' = Posted \union {a}
        BY <1>2, <2>1, <4>2 DEF Posted
      <4> QED
        BY <4>2, <4>3
    <3> QED
      BY <3>1, <3>2
  <2>7. Leaves!Run(a)
    BY <2>5, <2>6 DEF Leaves!Run, Leaves!MayPost
  <2> QED
    BY <2>7 DEF Leaves!Next
<1> QED
  BY <1>3, <1>4

(* One job at a time knows its row from one step to the next.              *)
LEMMA KnowsRowStep ==
  ASSUME IInv, Alone, Alone', KnowsRow, NEW j \in Jobs, JobStep(j) \/ Fault(j)
  PROVE  KnowsRow'
<1> SUFFICES ASSUME NEW i \in Jobs, Active(i)', job'[i].step # "read"
             PROVE  Holds(job'[i], log'[job'[i].at])
  BY DEF KnowsRow, Holds, DmDone, ReplyDone
<1>1. CASE i = j
  BY <1>1, StepKeeps DEF Keeps, Active
<1>2. CASE i # j
  <2>1. job'[i] = job[i] /\ Active(i)
    BY <1>2, StepMoves DEF Active
  <2>2. ~Active(j) /\ ~Active(j)'
    BY <1>2, <2>1 DEF Alone
  <2>3. Start(j)
    BY <2>2 DEF JobStep, Fault, ReadLog, WriteLog, RecordReply, RecordReplyError, ClaimReceipt,
                Send, Sending, Dedup, Skip, ReserveUsage, ReserveSlot, NoSlot, Defer, Requeue,
                RecordSent, FreeSlot, FreeUsage, Fail, NoCredentials, Crash, StatementFails,
                At, Active
  <2>4. job'[j].state = "active"
    BY <2>3 DEF Start, IInv, Typed, JobRecords
  <2> QED
    BY <2>2, <2>4 DEF Active
<1> QED
  BY <1>1, <1>2

(* The jobs of a comment, taken up one at a time in any order, with any    *)
(* faults, retries and requeues, leave of each campaign that replies in    *)
(* public what CommentOutcome allows: a public reply that is done stays    *)
(* done and none is posted after it, a comment that is handled stays       *)
(* handled, and a DM that was sent is forgotten only while the reply is    *)
(* open.  It is what CommentIntake takes a job to do (dm-worker.ts:283-305 *)
(* and 709-749, what the sweep reads in comment-reconciler.ts:253-271).    *)
THEOREM WorkerLeavesOutcomes == Spec /\ []Alone => Leaves!Spec
<1>1. Init => Leaves!Init
  <2> SUFFICES ASSUME Init PROVE Leaves!Init
    OBVIOUS
  <2>1. PublicReplies \subseteq Campaigns
    BY CommentWorkerAssumption
  <2>2. [a \in PublicReplies |-> Seen(log[a])] =
          [a \in PublicReplies |-> [dm |-> "open", reply |-> "open"]]
    BY <2>1 DEF Init, NoRow, Seen, DmDone, ReplyDone
  <2>3. Posted = {}
    BY <2>1 DEF Init, Posted, Channels
  <2> QED
    BY <2>2, <2>3 DEF Leaves!Init
<1>2. Init => KnowsRow
  BY DEF Init, KnowsRow, Fresh, Active
<1>3. IInv /\ Alone /\ Alone' /\ KnowsRow /\ [Next]_vars => KnowsRow'
  <2> SUFFICES ASSUME IInv, Alone, Alone', KnowsRow, [Next]_vars PROVE KnowsRow'
    OBVIOUS
  <2>1. CASE UNCHANGED vars
    BY <2>1 DEF vars, KnowsRow, Active, Holds, DmDone, ReplyDone
  <2> QED
    BY <2>1, KnowsRowStep DEF Next, Done
<1>4. IInv /\ KnowsRow /\ [Next]_vars => [Leaves!Next]_(Leaves!vars)
  <2> SUFFICES ASSUME IInv, KnowsRow, [Next]_vars PROVE [Leaves!Next]_(Leaves!vars)
    OBVIOUS
  <2>1. CASE UNCHANGED vars
    BY <2>1 DEF vars, Leaves!vars, Posted
  <2> QED
    BY <2>1, LeavesStep DEF Next, Done
<1> QED
  BY <1>1, <1>2, <1>3, <1>4, Invariance, PTL DEF Spec, Leaves!Spec

(* One job and its requeues are never under way together.                  *)
LEMMA ChainIsAlone ==
  ASSUME OneChain
  PROVE  Spec => []Alone
<1>1. IInv /\ Chain => Alone
  BY OneRuns DEF Alone
<1> QED
  BY <1>1, Invariance, ChainInvariance, PTL

(* So one chain leaves what CommentOutcome allows, whatever else happens.  *)
THEOREM ChainLeavesOutcomes ==
  ASSUME OneChain
  PROVE  Spec => Leaves!Spec
<1> QED
  BY ChainIsAlone, WorkerLeavesOutcomes, PTL

-----------------------------------------------------------------------------
(* Jobs come to an end: what is left of them shrinks with every step.      *)

(* The awaits left of a campaign's turn, at most.                          *)
Rank(q) ==
  CASE q.step = "read" -> 18 [] q.step = "write" -> 17
    [] q.step = "reply" -> 16 [] q.step = "replied" -> 14 [] q.step = "reply-failed" -> 13
    [] q.step = "dedup" -> 12 [] q.step = "usage" -> 11 [] q.step = "slot" -> 10
    [] q.step \in {"dm", "no-slot"} -> 9 [] q.step \in {"text", "defer"} -> 7
    [] q.step \in {"sent", "requeue"} -> 5 [] q.step = "free-slot" -> 4
    [] q.step = "free-usage" -> 3 [] q.step = "fail" -> 2 [] q.step = "skip" -> 1

Turn(q) == IF q.claimed THEN Rank(q) - 1 ELSE Rank(q)

(* Of an attempt, of the job with its retries, of one that may yet be      *)
(* queued.                                                                 *)
Attempt == 18 * NCampaigns + 1

Retries(q) == (MaxAttempts - q.attempts) * Attempt

Work(q) ==
  CASE q.state = "absent" -> MaxAttempts * Attempt + 1
    [] q.state = "waiting" -> Retries(q)
    [] q.state = "active" -> (Retries(q) - Attempt) + 18 * (NCampaigns - q.at) + Turn(q)
    [] OTHER -> 0

(* One job is nearer to its end and none is farther from it.               *)
Nearer ==
  /\ \A j \in Jobs : Work(job'[j]) <= Work(job[j])
  /\ \E j \in Jobs : Work(job'[j]) < Work(job[j])

(* An attempt more is a product more.                                      *)
LEMMA ProductIs ==
  ASSUME NEW m \in Nat, NEW n \in Nat, NEW u \in Nat
  PROVE  /\ (m - n) * u \in Int
         /\ n <= m => (m - n) * u \in Nat /\ (m - n) * u <= m * u
         /\ n < m => u <= (m - n) * u
         /\ (m - (n + 1)) * u = (m - n) * u - u
<1>1. (m - n) * u \in Int /\ m * u \in Nat /\ n * u \in Nat
  OBVIOUS
<1>2. (m - n) * u = m * u - n * u /\ (m - (n + 1)) * u = m * u - n * u - u
  OBVIOUS
<1>3. ASSUME n <= m PROVE n * u <= m * u
  <2>1. PICK k \in Nat : m = n + k
    <3>1. m - n \in Nat /\ m = n + (m - n)
      BY <1>3
    <3> QED
      BY <3>1
  <2>2. m * u = n * u + k * u /\ k * u \in Nat
    BY <2>1
  <2> QED
    BY <1>1, <2>2
<1>4. ASSUME n < m PROVE u <= (m - n) * u
  <2>1. PICK k \in Nat : m = n + 1 + k
    <3>1. m - n - 1 \in Nat /\ m = n + 1 + (m - n - 1)
      BY <1>4
    <3> QED
      BY <3>1
  <2>2. (m - n) * u = u + k * u /\ k * u \in Nat
    BY <2>1
  <2> QED
    BY <2>2
<1> QED
  BY <1>1, <1>2, <1>3, <1>4

(* The retries left are a number, one attempt less after a failed one.     *)
LEMMA RetriesAre ==
  ASSUME NEW q \in JobRecords
  PROVE  /\ Attempt \in Nat /\ Attempt = 18 * NCampaigns + 1
         /\ Retries(q) \in Nat /\ Retries(q) <= MaxAttempts * Attempt
         /\ MaxAttempts * Attempt \in Nat
         /\ q.attempts < MaxAttempts => Attempt <= Retries(q)
         /\ \A r : r.attempts = q.attempts => Retries(r) = Retries(q)
         /\ \A r : r.attempts = q.attempts + 1 => Retries(r) = Retries(q) - Attempt
<1>1. /\ Attempt \in Nat /\ Attempt = 18 * NCampaigns + 1
      /\ MaxAttempts \in Nat /\ q.attempts \in Nat /\ q.attempts <= MaxAttempts
  BY CommentWorkerAssumption, JobFields DEF Attempt
<1> HIDE DEF Attempt
<1>2. MaxAttempts * Attempt \in Nat
  BY <1>1
<1> QED
  BY <1>1, <1>2, ProductIs DEF Retries

(* The rank of every step.                                                 *)
LEMMA RankIs ==
  ASSUME NEW q
  PROVE  /\ q.step = "read" => Rank(q) = 18
         /\ q.step = "write" => Rank(q) = 17
         /\ q.step = "reply" => Rank(q) = 16
         /\ q.step = "replied" => Rank(q) = 14
         /\ q.step = "reply-failed" => Rank(q) = 13
         /\ q.step = "dedup" => Rank(q) = 12
         /\ q.step = "usage" => Rank(q) = 11
         /\ q.step = "slot" => Rank(q) = 10
         /\ q.step \in {"dm", "no-slot"} => Rank(q) = 9
         /\ q.step \in {"text", "defer"} => Rank(q) = 7
         /\ q.step \in {"sent", "requeue"} => Rank(q) = 5
         /\ q.step = "free-slot" => Rank(q) = 4
         /\ q.step = "free-usage" => Rank(q) = 3
         /\ q.step = "fail" => Rank(q) = 2
         /\ q.step = "skip" => Rank(q) = 1
<1>1. ASSUME q.step = "read" PROVE Rank(q) = 18
  BY <1>1 DEF Rank
<1>2. ASSUME q.step = "write" PROVE Rank(q) = 17
  BY <1>2 DEF Rank
<1>3. ASSUME q.step = "reply" PROVE Rank(q) = 16
  BY <1>3 DEF Rank
<1>4. ASSUME q.step = "replied" PROVE Rank(q) = 14
  BY <1>4 DEF Rank
<1>5. ASSUME q.step = "reply-failed" PROVE Rank(q) = 13
  BY <1>5 DEF Rank
<1>6. ASSUME q.step = "dedup" PROVE Rank(q) = 12
  BY <1>6 DEF Rank
<1>7. ASSUME q.step = "usage" PROVE Rank(q) = 11
  BY <1>7 DEF Rank
<1>8. ASSUME q.step = "slot" PROVE Rank(q) = 10
  BY <1>8 DEF Rank
<1>9. ASSUME q.step \in {"dm", "no-slot"} PROVE Rank(q) = 9
  BY <1>9 DEF Rank
<1>10. ASSUME q.step \in {"text", "defer"} PROVE Rank(q) = 7
  BY <1>10 DEF Rank
<1>11. ASSUME q.step \in {"sent", "requeue"} PROVE Rank(q) = 5
  BY <1>11 DEF Rank
<1>12. ASSUME q.step = "free-slot" PROVE Rank(q) = 4
  BY <1>12 DEF Rank
<1>13. ASSUME q.step = "free-usage" PROVE Rank(q) = 3
  BY <1>13 DEF Rank
<1>14. ASSUME q.step = "fail" PROVE Rank(q) = 2
  BY <1>14 DEF Rank
<1>15. ASSUME q.step = "skip" PROVE Rank(q) = 1
  BY <1>15 DEF Rank
<1> QED
  BY <1>1, <1>2, <1>3, <1>4, <1>5, <1>6, <1>7, <1>8, <1>9, <1>10, <1>11,
     <1>12, <1>13, <1>14, <1>15

(* Every step has its rank, and a claim lowers it by one.                  *)
LEMMA TurnIs ==
  ASSUME NEW q \in JobRecords
  PROVE  /\ Rank(q) \in 1..18 /\ Turn(q) \in 0..18
         /\ (q.claimed => q.step \in {"reply", "dm", "text"}) => Turn(q) \in 1..18
<1>1. q.step \in Steps /\ q.claimed \in BOOLEAN
  BY JobFields
<1>2. Rank(q) \in 1..18 /\ (q.step \in {"reply", "dm", "text"} => Rank(q) \in 2..18)
  <2>1. CASE q.step \in {"read", "write", "reply", "replied", "reply-failed", "dedup"}
    BY <2>1, RankIs
  <2>2. CASE q.step \in {"usage", "slot", "dm", "no-slot", "text", "defer"}
    BY <2>2, RankIs
  <2>3. CASE q.step \in {"sent", "requeue", "free-slot", "free-usage", "fail", "skip"}
    BY <2>3, RankIs
  <2> QED
    BY <1>1, <2>1, <2>2, <2>3 DEF Steps
<1> QED
  BY <1>1, <1>2 DEF Turn

(* What is left of a job that waits or is under way.                       *)
LEMMA WorkIs ==
  ASSUME NEW q \in JobRecords, q.state # "failed" => q.attempts < MaxAttempts
  PROVE  /\ Work(q) \in Nat
         /\ q.state = "active" =>
              /\ Work(q) = (Retries(q) - Attempt) + 18 * (NCampaigns - q.at) + Turn(q)
              /\ Turn(q) <= Work(q) /\ Work(q) < Retries(q)
         /\ q.state = "waiting" => Work(q) = Retries(q)
         /\ q.state \in {"completed", "failed"} => Work(q) = 0
         /\ q.state = "absent" => Work(q) = MaxAttempts * Attempt + 1
<1>1. /\ q.at \in 1..NCampaigns /\ NCampaigns \in Nat
      /\ q.state \in {"absent", "waiting", "active", "completed", "failed"}
  BY CommentWorkerAssumption, JobFields DEF Campaigns
<1>2. Turn(q) \in 0..18
  BY TurnIs
<1>3. ASSUME q.state = "active"
      PROVE  /\ Work(q) = (Retries(q) - Attempt) + 18 * (NCampaigns - q.at) + Turn(q)
             /\ Work(q) \in Nat /\ Turn(q) <= Work(q) /\ Work(q) < Retries(q)
  <2>1. Work(q) = (Retries(q) - Attempt) + 18 * (NCampaigns - q.at) + Turn(q)
    BY <1>3 DEF Work
  <2>2. /\ Retries(q) \in Nat /\ Attempt \in Nat /\ Attempt <= Retries(q)
        /\ Attempt = 18 * NCampaigns + 1
    BY <1>3, RetriesAre
  <2> QED
    BY <1>1, <1>2, <2>1, <2>2
<1>4. CASE q.state = "waiting"
  BY <1>4, RetriesAre DEF Work
<1>5. CASE q.state = "absent"
  BY <1>5, RetriesAre DEF Work
<1>6. CASE q.state \in {"completed", "failed"}
  BY <1>6 DEF Work
<1> QED
  BY <1>1, <1>3, <1>4, <1>5, <1>6

(* What every job's record says of its attempts and its claim.             *)
LEMMA Counted ==
  ASSUME IInv, NEW j \in Jobs
  PROVE  /\ job[j] \in JobRecords /\ (job[j].state # "failed" => job[j].attempts < MaxAttempts)
         /\ Work(job[j]) \in Nat
         /\ job[j].claimed => job[j].step \in {"reply", "dm", "text"}
<1>1. /\ job[j] \in JobRecords /\ (job[j].state # "failed" => job[j].attempts < MaxAttempts)
      /\ job[j].claimed => job[j].step \in {"reply", "dm", "text"}
  BY DEF IInv, Typed, Sound, Sending, At
<1> QED
  BY <1>1, WorkIs

(* A step of one job.                                                      *)
LEMMA OneNearer ==
  ASSUME IInv, NEW j \in Jobs, NEW q, job' = [job EXCEPT ![j] = q], Work(q) < Work(job[j]),
         Work(q) \in Nat
  PROVE  Nearer
<1>1. job'[j] = q /\ \A i \in Jobs \ {j} : job'[i] = job[i]
  BY DEF IInv, Typed
<1>2. \A i \in Jobs : Work(job[i]) \in Nat
  BY Counted
<1>3. \A i \in Jobs : Work(job'[i]) <= Work(job[i])
  <2> TAKE i \in Jobs
  <2>1. CASE i = j
    BY <1>1, <1>2, <2>1
  <2>2. CASE i # j
    <3>1. job'[i] = job[i] /\ Work(job[i]) \in Nat
      BY <1>1, <1>2, <2>2
    <3> QED
      BY <3>1
  <2> QED
    BY <2>1, <2>2
<1> QED
  BY <1>1, <1>3 DEF Nearer

(* The job goes on to a later await of its turn.                           *)
LEMMA GoesOnward ==
  ASSUME IInv, NEW j \in Jobs, Active(j), NEW q \in JobRecords, job' = [job EXCEPT ![j] = q],
         q.state = "active", q.at = Here(j), q.attempts = job[j].attempts,
         Turn(q) < Turn(job[j])
  PROVE  Nearer
<1>1. /\ job[j] \in JobRecords /\ job[j].attempts < MaxAttempts /\ q.attempts < MaxAttempts
      /\ job[j].state = "active" /\ q.at = job[j].at
  BY Counted DEF Active, Here
<1>2. /\ Work(job[j]) = (Retries(job[j]) - Attempt) + 18 * (NCampaigns - job[j].at) + Turn(job[j])
      /\ Work(q) = (Retries(q) - Attempt) + 18 * (NCampaigns - q.at) + Turn(q)
      /\ Work(q) \in Nat /\ Work(job[j]) \in Nat /\ Retries(q) = Retries(job[j])
  BY <1>1, WorkIs, RetriesAre
<1>3. Turn(q) \in 0..18 /\ Turn(job[j]) \in 0..18 /\ Retries(q) \in Nat /\ Attempt \in Nat
  BY <1>1, TurnIs, RetriesAre
<1>4. q.at \in Nat /\ NCampaigns \in Nat
  BY JobFields, CommentWorkerAssumption DEF Campaigns
<1>5. Work(q) < Work(job[j])
  BY <1>1, <1>2, <1>3, <1>4
<1> QED
  BY <1>2, <1>5, OneNearer

(* The next campaign, or the end of the job.                               *)
LEMMA AdvancesNearer ==
  ASSUME IInv, NEW j \in Jobs, Active(j)
  PROVE  Work(Advanced(j)) < Work(job[j]) /\ Work(Advanced(j)) \in Nat
<1> DEFINE q == Advanced(j)
<1>1. /\ job[j] \in JobRecords /\ job[j].attempts < MaxAttempts /\ job[j].state = "active"
      /\ Work(job[j]) \in Nat /\ job[j].at = Here(j)
  BY Counted DEF Active, Here
<1>2. /\ q \in JobRecords /\ q.attempts = job[j].attempts
      /\ \/ q.state = "active" /\ q.at = Here(j) + 1
         \/ q.state = "completed"
  BY UnderWay, AdvancedIs
<1> HIDE DEF q
<1>3. Work(q) \in Nat
  BY <1>1, <1>2, WorkIs
<1>4. Turn(job[j]) \in 1..18 /\ Turn(q) \in 0..18
  BY <1>1, <1>2, Counted, TurnIs
<1>5. CASE q.state = "completed"
  <2>1. Work(q) = 0
    BY <1>1, <1>2, <1>5, WorkIs
  <2>2. Turn(job[j]) <= Work(job[j])
    BY <1>1, WorkIs
  <2> QED
    BY <1>1, <1>3, <1>4, <2>1, <2>2 DEF q
<1>6. CASE q.state = "active" /\ q.at = Here(j) + 1
  <2>1. /\ Work(job[j]) = (Retries(job[j]) - Attempt) + 18 * (NCampaigns - job[j].at) + Turn(job[j])
        /\ Work(q) = (Retries(q) - Attempt) + 18 * (NCampaigns - q.at) + Turn(q)
        /\ Retries(q) = Retries(job[j])
    BY <1>1, <1>2, <1>6, WorkIs, RetriesAre
  <2>2. /\ Retries(q) \in Nat /\ Attempt \in Nat
        /\ job[j].at \in Nat /\ q.at = job[j].at + 1 /\ NCampaigns \in Nat
    BY <1>1, <1>2, <1>6, RetriesAre, JobFields, CommentWorkerAssumption DEF Campaigns
  <2> QED
    BY <1>3, <1>4, <2>1, <2>2 DEF q
<1> QED
  BY <1>2, <1>3, <1>5, <1>6 DEF q

(* The next attempt, or none.                                              *)
LEMMA ThrowsNearer ==
  ASSUME IInv, NEW j \in Jobs, Active(j), NEW err
  PROVE  Work(Thrown(j, err)) < Work(job[j]) /\ Work(Thrown(j, err)) \in Nat
<1> DEFINE q == Thrown(j, err)
<1>1. /\ job[j] \in JobRecords /\ job[j].attempts < MaxAttempts /\ job[j].state = "active"
      /\ Work(job[j]) \in Nat
  BY Counted DEF Active
<1>2. /\ q \in JobRecords
      /\ \/ q.state = "failed"
         \/ q.state = "waiting" /\ q.attempts < MaxAttempts
  BY UnderWay, ThrownIs
<1>3. q.attempts = job[j].attempts + 1
  BY DEF Thrown, Fresh
<1> HIDE DEF q
<1>4. Turn(job[j]) \in 1..18
  BY <1>1, Counted, TurnIs
<1>5. /\ Work(job[j]) = (Retries(job[j]) - Attempt) + 18 * (NCampaigns - job[j].at) + Turn(job[j])
      /\ job[j].at \in 1..NCampaigns /\ NCampaigns \in Nat /\ Attempt <= Retries(job[j])
      /\ Retries(job[j]) \in Nat /\ Attempt \in Nat
  BY <1>1, WorkIs, RetriesAre, JobFields, CommentWorkerAssumption DEF Campaigns
<1>6. CASE q.state = "failed"
  <2>1. Work(q) = 0
    BY <1>6 DEF Work
  <2> QED
    BY <1>1, <1>4, <1>5, <2>1 DEF q
<1>7. CASE q.state = "waiting" /\ q.attempts < MaxAttempts
  <2>1. Work(q) = Retries(q) /\ Retries(q) = Retries(job[j]) - Attempt
    BY <1>1, <1>2, <1>3, <1>7, WorkIs, RetriesAre
  <2> QED
    BY <1>4, <1>5, <2>1 DEF q
<1> QED
  BY <1>2, <1>6, <1>7

(* Past the public reply.                                                  *)
LEMMA PastReplyNearer ==
  ASSUME IInv, NEW j \in Jobs, Active(j), job' = [job EXCEPT ![j] = AfterReply(j)],
         job[j].step \in {"write", "replied", "reply-failed"}
  PROVE  Nearer
<1>1. CASE ~job[j].needsDm
  <2>1. AfterReply(j) = Advanced(j)
    BY <1>1, UnderWay, AfterReplyIs
  <2> QED
    BY <2>1, AdvancesNearer, OneNearer
<1>2. CASE job[j].needsDm
  <2> DEFINE q == AfterReply(j)
  <2>1. /\ q \in JobRecords /\ q.state = "active" /\ q.step = "dedup" /\ q.at = Here(j)
        /\ q.attempts = job[j].attempts /\ q.claimed = FALSE
    BY <1>2, UnderWay, AfterReplyIs DEF Active, Here
  <2>2. job[j].claimed = FALSE
    BY UnderWay
  <2> HIDE DEF q
  <2>3. Turn(q) < Turn(job[j])
    BY <2>1, <2>2, RankIs DEF Turn
  <2> QED
    BY <2>1, <2>3, GoesOnward DEF q
<1> QED
  BY <1>1, <1>2

(* Whatever an attempt to send comes to.                                   *)
LEMMA LandsNearer ==
  ASSUME IInv, NEW j \in Jobs, Sending(j), NEW answer \in Errors, Land(j, answer)
  PROVE  Nearer
<1>1. Active(j) /\ job[j].step \in {"reply", "dm", "text"} /\ job[j].claimed \in BOOLEAN
      /\ job \in [Jobs -> JobRecords]
  BY JobFields DEF Sending, At, Active, IInv, Typed
<1>2. PICK q \in Landings(j, answer) : job' = [job EXCEPT ![j] = q]
  BY DEF Land
<1>3. /\ q \in JobRecords /\ q.state = "active" /\ q.at = Here(j)
      /\ q.attempts = job[j].attempts /\ q.claimed = FALSE
  <2>1. /\ q \in JobRecords /\ q.state = "active" /\ q.at = job[j].at
        /\ q.attempts = job[j].attempts /\ q.claimed = FALSE
    <3>1. job \in [Jobs -> JobRecords]
      BY <1>1
    <3> QED
      BY <3>1, LandingsAre
  <2> QED
    BY <2>1 DEF Here
<1>4. /\ job[j].step = "reply" => q.step \in {"replied", "reply-failed"}
      /\ job[j].step # "reply" => q.step \in {"sent", "free-slot", "text"}
  <2>1. IF job[j].step = "reply" THEN q.step = IF answer = "none" THEN "replied" ELSE "reply-failed"
        ELSE IF answer = "none" THEN q.step = "sent" ELSE q.step \in {"free-slot", "text"}
    <3>1. (Channel(j) = "reply") = (job[j].step = "reply")
      BY DEF Channel
    <3> QED
      BY <1>1, <3>1, LandingsAre
  <2> QED
    BY <2>1
<1>5. job[j].step = "text" => q.step # "text"
  <2> SUFFICES ASSUME job[j].step = "text" PROVE q.step # "text"
    OBVIOUS
  <2>1. CASE answer = "none"
    <3>1. q = [job[j] EXCEPT !.step = "sent", !.err = answer, !.claimed = FALSE]
      BY <1>2, <2>1 DEF Landings
    <3> QED
      BY <1>1, <3>1 DEF JobRecords
  <2>2. CASE answer # "none"
    <3>1. q = Undo(j, "error")
      BY <1>2, <2>2 DEF Landings
    <3> QED
      BY <1>1, <3>1 DEF JobRecords, Undo
  <2> QED
    BY <2>1, <2>2
<1>6. Turn(q) < Turn(job[j])
  <2>1. Rank(job[j]) \in 1..18 /\ Rank(q) \in 1..18
    BY <1>1, <1>3, TurnIs
  <2>2. Rank(job[j]) - 1 <= Turn(job[j]) /\ Turn(job[j]) \in Int /\ Turn(q) = Rank(q)
    BY <1>1, <1>3, <2>1 DEF Turn
  <2>3. Rank(q) + 1 < Rank(job[j])
    <3>1. CASE job[j].step = "reply"
      BY <1>4, <3>1, RankIs
    <3>2. CASE job[j].step = "dm"
      BY <1>4, <3>2, RankIs
    <3>3. CASE job[j].step = "text"
      BY <1>4, <1>5, <3>3, RankIs
    <3> QED
      BY <1>1, <3>1, <3>2, <3>3
  <2> QED
    BY <2>1, <2>2, <2>3
<1> QED
  BY <1>1, <1>2, <1>3, <1>6, GoesOnward

(* The job goes on to a later await that is no send.                       *)
LEMMA LaterStep ==
  ASSUME IInv, NEW j \in Jobs, Active(j), job[j].step \notin {"reply", "dm", "text"},
         NEW q \in JobRecords, job' = [job EXCEPT ![j] = q], q.state = job[j].state,
         q.at = job[j].at, q.attempts = job[j].attempts, q.claimed = job[j].claimed,
         Rank(q) < Rank(job[j])
  PROVE  Nearer
<1>1. job[j].claimed = FALSE /\ q.claimed = FALSE
  BY UnderWay
<1>2. Turn(q) < Turn(job[j])
  BY <1>1 DEF Turn
<1>3. q.state = "active" /\ q.at = Here(j)
  BY DEF Active, Here
<1> QED
  BY <1>2, <1>3, GoesOnward

(* The next campaign, and the next attempt.                                *)
LEMMA AdvanceNearer ==
  ASSUME IInv, NEW j \in Jobs, Active(j), Advance(j)
  PROVE  Nearer
BY AdvancesNearer, OneNearer DEF Advance

LEMMA ThrowNearer ==
  ASSUME IInv, NEW j \in Jobs, Active(j), NEW err, Throw(j, err)
  PROVE  Nearer
BY ThrowsNearer, OneNearer DEF Throw

(* Another await of the turn, with whatever the job remembers besides.     *)
LEMMA GoNearer ==
  ASSUME IInv, NEW j \in Jobs, Active(j), job[j].step \notin {"reply", "dm", "text"},
         NEW step \in Steps, NEW mark \in Statuses, NEW err \in Errors,
         \/ Go(j, step)
         \/ job' = [job EXCEPT ![j].step = step, ![j].mark = mark]
         \/ job' = [job EXCEPT ![j].step = step, ![j].err = err],
         \A q : q.step = step => Rank(q) < Rank(job[j])
  PROVE  Nearer
<1>1. job[j] \in JobRecords
  BY UnderWay
<1>2. CASE Go(j, step)
  <2> DEFINE q == [job[j] EXCEPT !.step = step]
  <2>1. /\ q \in JobRecords /\ q.state = job[j].state /\ q.at = job[j].at
        /\ q.attempts = job[j].attempts /\ q.claimed = job[j].claimed /\ q.step = step
    BY <1>1 DEF JobRecords
  <2>2. job' = [job EXCEPT ![j] = q]
    BY <1>2 DEF Go
  <2> HIDE DEF q
  <2> QED
    BY <2>1, <2>2, LaterStep
<1>3. CASE job' = [job EXCEPT ![j].step = step, ![j].mark = mark]
  <2> DEFINE q == [job[j] EXCEPT !.step = step, !.mark = mark]
  <2>1. /\ q \in JobRecords /\ q.state = job[j].state /\ q.at = job[j].at
        /\ q.attempts = job[j].attempts /\ q.claimed = job[j].claimed /\ q.step = step
    BY <1>1 DEF JobRecords
  <2>2. job' = [job EXCEPT ![j] = q]
    BY <1>3
  <2> HIDE DEF q
  <2> QED
    BY <2>1, <2>2, LaterStep
<1>4. CASE job' = [job EXCEPT ![j].step = step, ![j].err = err]
  <2> DEFINE q == [job[j] EXCEPT !.step = step, !.err = err]
  <2>1. /\ q \in JobRecords /\ q.state = job[j].state /\ q.at = job[j].at
        /\ q.attempts = job[j].attempts /\ q.claimed = job[j].claimed /\ q.step = step
    BY <1>1 DEF JobRecords
  <2>2. job' = [job EXCEPT ![j] = q]
    BY <1>4
  <2> HIDE DEF q
  <2> QED
    BY <2>1, <2>2, LaterStep
<1> QED
  BY <1>2, <1>3, <1>4

(* A job taken up is nearer to its end than one that waits.                *)
LEMMA StartNearer == ASSUME IInv, NEW j \in Jobs, Start(j) PROVE Nearer
<1> DEFINE q == [job[j] EXCEPT !.state = "active"]
<1>1. /\ job[j] \in JobRecords /\ job[j].state = "waiting" /\ job[j].attempts < MaxAttempts
      /\ Work(job[j]) \in Nat
  BY Counted DEF Start
<1>2. q \in JobRecords /\ q.state = "active" /\ q.attempts = job[j].attempts
  BY <1>1 DEF JobRecords
<1>3. job' = [job EXCEPT ![j] = q]
  BY DEF Start
<1> HIDE DEF q
<1>4. Work(q) \in Nat /\ Work(q) < Retries(q)
  BY <1>1, <1>2, WorkIs
<1>5. Retries(q) = Retries(job[j]) /\ Work(job[j]) = Retries(job[j])
  BY <1>1, <1>2, WorkIs, RetriesAre
<1> QED
  BY <1>3, <1>4, <1>5, OneNearer

(* The steps up to the public reply.                                       *)
LEMMA ReadLogNearer == ASSUME IInv, NEW j \in Jobs, ReadLog(j) PROVE Nearer
<1>1. Active(j) /\ job[j] \in JobRecords /\ job[j].step = "read"
  BY UnderWay DEF ReadLog, At, Active
<1>2. CASE Advance(j)
  BY <1>1, <1>2, AdvanceNearer
<1>3. CASE job' = [job EXCEPT ![j].step = "write", ![j].found = (Row(j).status # "none"),
                              ![j].needsDm = NeedsDm(j), ![j].replyDue = ReplyDue(j)]
  <2> DEFINE q == [job[j] EXCEPT !.step = "write", !.found = (Row(j).status # "none"),
                                 !.needsDm = NeedsDm(j), !.replyDue = ReplyDue(j)]
  <2>1. NeedsDm(j) \in BOOLEAN /\ ReplyDue(j) \in BOOLEAN
    BY DEF NeedsDm, ReplyDue
  <2>2. /\ q \in JobRecords /\ q.state = job[j].state /\ q.at = job[j].at
        /\ q.attempts = job[j].attempts /\ q.claimed = job[j].claimed /\ q.step = "write"
    BY <1>1, <2>1 DEF JobRecords, Steps
  <2>3. job' = [job EXCEPT ![j] = q]
    BY <1>3
  <2> HIDE DEF q
  <2>4. Rank(q) < Rank(job[j])
    BY <1>1, <2>2, RankIs
  <2> QED
    BY <1>1, <2>2, <2>3, <2>4, LaterStep
<1> QED
  BY <1>2, <1>3 DEF ReadLog

LEMMA WriteLogNearer == ASSUME IInv, NEW j \in Jobs, WriteLog(j) PROVE Nearer
<1>1. Active(j) /\ job[j].step = "write"
  BY DEF WriteLog, At, Active
<1>2. CASE Throw(j, "error")
  BY <1>1, <1>2, ThrowNearer
<1>3. CASE Go(j, "reply")
  <2>1. "reply" \in Steps /\ "none" \in Statuses /\ "none" \in Errors
    BY DEF Steps, Statuses, Errors
  <2>2. \A q : q.step = "reply" => Rank(q) < Rank(job[j])
    BY <1>1, RankIs
  <2> QED
    BY <1>1, <1>3, <2>1, <2>2, GoNearer
<1>4. CASE job' = [job EXCEPT ![j] = AfterReply(j)]
  BY <1>1, <1>4, PastReplyNearer
<1> QED
  BY <1>2, <1>3, <1>4 DEF WriteLog

LEMMA ReplyNearer ==
  ASSUME IInv, NEW j \in Jobs, RecordReply(j) \/ RecordReplyError(j)
  PROVE  Nearer
<1>1. /\ Active(j) /\ job[j].step \in {"write", "replied", "reply-failed"}
      /\ job' = [job EXCEPT ![j] = AfterReply(j)]
  BY DEF RecordReply, RecordReplyError, At, Active
<1> QED
  BY <1>1, PastReplyNearer

(* A receipt claimed brings the send nearer, an outcome ends it.           *)
LEMMA ClaimNearer == ASSUME IInv, NEW j \in Jobs, ClaimReceipt(j) PROVE Nearer
<1>1. Sending(j) /\ ~job[j].claimed /\ Active(j) /\ job[j] \in JobRecords
  BY UnderWay DEF ClaimReceipt, Sending, At, Active
<1>2. CASE job' = [job EXCEPT ![j].claimed = TRUE]
  <2> DEFINE q == [job[j] EXCEPT !.claimed = TRUE]
  <2>1. /\ q \in JobRecords /\ q.state = "active" /\ q.at = Here(j) /\ q.claimed = TRUE
        /\ q.attempts = job[j].attempts /\ q.step = job[j].step
    BY <1>1 DEF JobRecords, Active, Here
  <2>2. job' = [job EXCEPT ![j] = q]
    BY <1>2
  <2> HIDE DEF q
  <2>3. Rank(job[j]) \in 1..18 /\ Rank(q) = Rank(job[j])
    BY <1>1, <2>1, TurnIs DEF Rank
  <2>4. Turn(q) < Turn(job[j])
    BY <1>1, <2>1, <2>3 DEF Turn
  <2> QED
    BY <1>1, <2>1, <2>2, <2>4, GoesOnward
<1>3. CASE Land(j, "unconfirmed") \/ Land(j, "none")
  BY <1>1, <1>3, LandsNearer DEF Errors
<1>4. receipt[Channel(j)] \in {"none", "claimed", "answered"}
  BY DEF IInv, Typed, Channel, Channels
<1> QED
  BY <1>2, <1>3, <1>4 DEF ClaimReceipt

LEMMA SendNearer == ASSUME IInv, NEW j \in Jobs, Send(j) PROVE Nearer
<1>1. Sending(j) /\ \E o \in Outcomes : Land(j, o.err)
  BY DEF Send
<1>2. PICK o \in Outcomes : Land(j, o.err)
  BY <1>1
<1>3. o.err \in Errors
  BY DEF Outcomes, Errors
<1> QED
  BY <1>1, <1>2, <1>3, LandsNearer

(* The steps of the private reply.                                         *)
LEMMA ReservesNearer ==
  ASSUME IInv, NEW j \in Jobs, Dedup(j) \/ ReserveUsage(j) \/ ReserveSlot(j) \/ NoSlot(j)
  PROVE  Nearer
<1>1. "none" \in Statuses /\ "none" \in Errors
  BY DEF Statuses, Errors
<1>2. CASE Dedup(j)
  <2>1. Active(j) /\ job[j].step = "dedup"
    BY <1>2 DEF Dedup, At, Active
  <2>2. /\ "skip" \in Steps /\ "usage" \in Steps /\ "SKIPPED_DEDUP" \in Statuses
        /\ \A q : q.step = "skip" => Rank(q) < Rank(job[j])
        /\ \A q : q.step = "usage" => Rank(q) < Rank(job[j])
    BY <2>1, RankIs DEF Steps, Statuses
  <2>3. CASE job' = [job EXCEPT ![j].step = "skip", ![j].mark = "SKIPPED_DEDUP"]
    BY <1>1, <2>1, <2>2, <2>3, GoNearer
  <2>4. CASE Go(j, "usage")
    BY <1>1, <2>1, <2>2, <2>4, GoNearer
  <2> QED
    BY <1>2, <2>3, <2>4 DEF Dedup
<1>3. CASE ReserveUsage(j)
  <2>1. Active(j) /\ job[j].step = "usage"
    BY <1>3 DEF ReserveUsage, At, Active
  <2>2. /\ "skip" \in Steps /\ "slot" \in Steps /\ "SKIPPED_PLAN_LIMIT" \in Statuses
        /\ \A q : q.step = "skip" => Rank(q) < Rank(job[j])
        /\ \A q : q.step = "slot" => Rank(q) < Rank(job[j])
    BY <2>1, RankIs DEF Steps, Statuses
  <2>3. CASE job' = [job EXCEPT ![j].step = "skip", ![j].mark = "SKIPPED_PLAN_LIMIT"]
    BY <1>1, <2>1, <2>2, <2>3, GoNearer
  <2>4. CASE Go(j, "slot")
    BY <1>1, <2>1, <2>2, <2>4, GoNearer
  <2> QED
    BY <1>3, <2>3, <2>4 DEF ReserveUsage
<1>4. CASE ReserveSlot(j)
  <2>1. Active(j) /\ job[j].step = "slot"
    BY <1>4 DEF ReserveSlot, At, Active
  <2>2. /\ "dm" \in Steps /\ "no-slot" \in Steps
        /\ \A q : q.step = "dm" => Rank(q) < Rank(job[j])
        /\ \A q : q.step = "no-slot" => Rank(q) < Rank(job[j])
    BY <2>1, RankIs DEF Steps
  <2>3. CASE Go(j, "dm")
    BY <1>1, <2>1, <2>2, <2>3, GoNearer
  <2>4. CASE Go(j, "no-slot")
    BY <1>1, <2>1, <2>2, <2>4, GoNearer
  <2> QED
    BY <1>4, <2>3, <2>4 DEF ReserveSlot
<1>5. CASE NoSlot(j)
  <2>1. Active(j) /\ job[j].step = "no-slot" /\ job' = Blocked(j)
    BY <1>5 DEF NoSlot, At, Active
  <2>2. /\ "skip" \in Steps /\ "defer" \in Steps /\ "SKIPPED_RATE_LIMIT" \in Statuses
        /\ \A q : q.step = "skip" => Rank(q) < Rank(job[j])
        /\ \A q : q.step = "defer" => Rank(q) < Rank(job[j])
    BY <2>1, RankIs DEF Steps, Statuses
  <2>3. CASE job' = [job EXCEPT ![j].step = "skip", ![j].mark = "SKIPPED_RATE_LIMIT"]
    BY <1>1, <2>1, <2>2, <2>3, GoNearer
  <2>4. CASE job' = [job EXCEPT ![j].step = "defer"]
    <3>1. Go(j, "defer")
      BY <2>4 DEF Go
    <3> QED
      BY <1>1, <2>1, <2>2, <3>1, GoNearer
  <2> QED
    BY <2>1, <2>3, <2>4 DEF Blocked
<1> QED
  BY <1>2, <1>3, <1>4, <1>5

LEMMA SettlesNearer ==
  ASSUME IInv, NEW j \in Jobs,
         Skip(j) \/ RecordSent(j) \/ Defer(j) \/ FreeSlot(j) \/ FreeUsage(j) \/ Fail(j)
  PROVE  Nearer
<1>1. "none" \in Statuses /\ "none" \in Errors
  BY DEF Statuses, Errors
<1>2. CASE Skip(j) \/ RecordSent(j)
  <2>1. Active(j) /\ Advance(j)
    BY <1>2 DEF Skip, RecordSent, At, Active
  <2> QED
    BY <2>1, AdvanceNearer
<1>3. CASE Defer(j)
  <2>1. Active(j) /\ job[j].step = "defer" /\ Go(j, "requeue") /\ "requeue" \in Steps
    BY <1>3 DEF Defer, At, Active, Steps
  <2>2. \A q : q.step = "requeue" => Rank(q) < Rank(job[j])
    BY <2>1, RankIs
  <2> QED
    BY <1>1, <2>1, <2>2, GoNearer
<1>4. CASE FreeSlot(j)
  <2>1. Active(j) /\ job[j].step = "free-slot" /\ Go(j, "free-usage") /\ "free-usage" \in Steps
    BY <1>4 DEF FreeSlot, At, Active, Steps
  <2>2. \A q : q.step = "free-usage" => Rank(q) < Rank(job[j])
    BY <2>1, RankIs
  <2> QED
    BY <1>1, <2>1, <2>2, GoNearer
<1>5. CASE FreeUsage(j)
  <2>1. Active(j) /\ job[j].step = "free-usage" /\ Go(j, "fail") /\ "fail" \in Steps
    BY <1>5 DEF FreeUsage, At, Active, Steps
  <2>2. \A q : q.step = "fail" => Rank(q) < Rank(job[j])
    BY <2>1, RankIs
  <2> QED
    BY <1>1, <2>1, <2>2, GoNearer
<1>6. CASE Fail(j)
  <2>1. Active(j) /\ Throw(j, job[j].err)
    BY <1>6 DEF Fail, At, Active
  <2> QED
    BY <2>1, ThrowNearer
<1> QED
  BY <1>2, <1>3, <1>4, <1>5, <1>6

(* A requeue ends its job's turn, and a job it queues has less left than   *)
(* one that is not queued yet.                                             *)
LEMMA RequeueNearer == ASSUME IInv, NEW j \in Jobs, Requeue(j) PROVE Nearer
<1>1. Active(j)
  BY DEF Requeue, At, Active
<1> DEFINE r == RequeueAttempt(j) + 1
<1>2. /\ r \in Jobs /\ r # j /\ job'[j] = Advanced(j)
      /\ job'[r] = [job[r] EXCEPT !.state = IF job[r].state = "absent" THEN "waiting"
                                                                       ELSE job[r].state]
      /\ job[r].state # "absent" => job'[r] = job[r]
      /\ \A i \in Jobs \ {j, r} : job'[i] = job[i]
  BY RequeueIs
<1> HIDE DEF r
<1>3. Work(job'[j]) < Work(job[j]) /\ Work(job'[j]) \in Nat
  BY <1>1, <1>2, AdvancesNearer
<1>4. \A i \in Jobs : Work(job[i]) \in Nat
  BY Counted
<1>5. Work(job'[r]) <= Work(job[r])
  <2>1. CASE job[r].state # "absent"
    <3>1. job'[r] = job[r] /\ Work(job[r]) \in Nat
      BY <1>2, <1>4, <2>1
    <3> QED
      BY <3>1
  <2>2. CASE job[r].state = "absent"
    <3>1. /\ job[r] \in JobRecords /\ job[r].attempts < MaxAttempts
          /\ job'[r] = [job[r] EXCEPT !.state = "waiting"]
      BY <1>2, <2>2, Counted
    <3>2. /\ job'[r] \in JobRecords /\ job'[r].state = "waiting"
          /\ job'[r].attempts = job[r].attempts
      BY <3>1 DEF JobRecords
    <3>3. Work(job'[r]) = Retries(job'[r]) /\ Work(job[r]) = MaxAttempts * Attempt + 1
      BY <2>2, <3>1, <3>2, WorkIs
    <3>4. /\ Retries(job'[r]) \in Nat /\ Retries(job'[r]) <= MaxAttempts * Attempt
          /\ MaxAttempts * Attempt \in Nat
      BY <3>2, RetriesAre
    <3> QED
      BY <3>3, <3>4
  <2> QED
    BY <2>1, <2>2
<1>6. \A i \in Jobs : Work(job'[i]) <= Work(job[i])
  <2> TAKE i \in Jobs
  <2>1. CASE i = j
    BY <1>3, <1>4, <2>1
  <2>2. CASE i = r
    BY <1>5, <2>2
  <2>3. CASE i \notin {j, r}
    <3>1. job'[i] = job[i] /\ Work(job[i]) \in Nat
      BY <1>2, <1>4, <2>3
    <3> QED
      BY <3>1
  <2> QED
    BY <2>1, <2>2, <2>3
<1> QED
  BY <1>3, <1>6 DEF Nearer

(* A fault that is no crash.                                               *)
LEMMA StatementFailsNearer == ASSUME IInv, NEW j \in Jobs, StatementFails(j) PROVE Nearer
<1>1. Active(j) /\ job[j] \in JobRecords
  BY UnderWay DEF StatementFails, Active
<1>2. "none" \in Statuses /\ "none" \in Errors /\ "error" \in Errors
  BY DEF Statuses, Errors
<1>3. CASE Sending(j)
  <2>1. job[j].step \in {"reply", "dm", "text"}
    BY <1>3 DEF Sending, At
  <2>2. Land(j, "error")
    BY <1>3, <2>1 DEF StatementFails
  <2> QED
    BY <1>2, <1>3, <2>2, LandsNearer
<1>4. CASE job[j].step = "replied" /\
           job' = [job EXCEPT ![j].step = "reply-failed", ![j].err = "error"]
  <2>1. "reply-failed" \in Steps /\ \A q : q.step = "reply-failed" => Rank(q) < Rank(job[j])
    BY <1>4, RankIs DEF Steps
  <2> QED
    BY <1>1, <1>2, <1>4, <2>1, GoNearer
<1>5. CASE job[j].step = "reply-failed" /\ job' = [job EXCEPT ![j] = AfterReply(j)]
  BY <1>1, <1>5, PastReplyNearer
<1>6. CASE job[j].step = "sent" /\ job' = [job EXCEPT ![j] = Undo(j, "error")]
  <2> DEFINE q == Undo(j, "error")
  <2>1. job[j].claimed = FALSE
    BY <1>1, <1>6, UnderWay
  <2>2. /\ q \in JobRecords /\ q.state = job[j].state /\ q.at = job[j].at
        /\ q.attempts = job[j].attempts /\ q.claimed = job[j].claimed /\ q.step = "free-slot"
    BY <1>1, <1>2, <2>1 DEF Undo, JobRecords, Steps
  <2>3. job' = [job EXCEPT ![j] = q]
    BY <1>6
  <2> HIDE DEF q
  <2>4. Rank(q) < Rank(job[j])
    BY <1>6, <2>2, RankIs
  <2> QED
    BY <1>1, <1>6, <2>2, <2>3, <2>4, LaterStep
<1>7. CASE job[j].step = "slot" /\
           job' = [job EXCEPT ![j].step = "free-usage", ![j].err = "error"]
  <2>1. "free-usage" \in Steps /\ \A q : q.step = "free-usage" => Rank(q) < Rank(job[j])
    BY <1>7, RankIs DEF Steps
  <2> QED
    BY <1>1, <1>2, <1>7, <2>1, GoNearer
<1>8. CASE Throw(j, "error")
  BY <1>1, <1>8, ThrowNearer
<1> QED
  BY <1>3, <1>4, <1>5, <1>6, <1>7, <1>8 DEF StatementFails

(* Every step of a job but a crash.                                        *)
LEMMA StepNearer ==
  ASSUME IInv, NEW j \in Jobs, JobStep(j) \/ Fault(j)
  PROVE  Crash(j) \/ Nearer
<1>1. CASE JobStep(j)
  BY <1>1, StartNearer, ReadLogNearer, WriteLogNearer, ReplyNearer, ClaimNearer, SendNearer,
     ReservesNearer, SettlesNearer, RequeueNearer DEF JobStep
<1>2. CASE NoCredentials(j)
  <2>1. Active(j) /\ Advance(j)
    BY <1>2 DEF NoCredentials, At, Active
  <2> QED
    BY <2>1, AdvanceNearer
<1>3. CASE StatementFails(j)
  BY <1>3, StatementFailsNearer
<1> QED
  BY <1>1, <1>2, <1>3 DEF Fault

(* What is left of a job is a number, and every step but a crash brings    *)
(* one job nearer to its end and none farther from it: no retry, requeue,  *)
(* failed send or lost claim ever sends a job back to where it was without *)
(* an attempt less (dm-worker.ts:275, the loop over the campaigns, and the *)
(* queue's attempts).  Crashes are at most Faults, so a job that keeps     *)
(* stepping ends: JobsEnd adds that it does keep stepping.                 *)
THEOREM JobsRunDown ==
  Spec => /\ [](\A j \in Jobs : Work(job[j]) \in Nat)
          /\ [][(\E j \in Jobs : Crash(j)) \/ Nearer]_vars
<1>1. IInv => \A j \in Jobs : Work(job[j]) \in Nat
  BY Counted
<1>2. IInv /\ [Next]_vars => [(\E j \in Jobs : Crash(j)) \/ Nearer]_vars
  BY StepNearer DEF Next, Done
<1> QED
  BY <1>1, <1>2, Invariance, PTL DEF Spec
=============================================================================
