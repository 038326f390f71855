---------------------------- MODULE CommentWorker ----------------------------
(***************************************************************************)
(* processComment (src/lib/queue/dm-worker.ts): what the jobs queued for   *)
(* one comment do to the delivery log of the campaigns it matches, to the  *)
(* reservations and to the commenter.  Every step of a job is one await of *)
(* the code; jobs run concurrently (the worker's concurrency is 5, and the *)
(* webhook and each polling sweep queue jobs of their own), fail and are   *)
(* retried, and stall when their worker dies.                              *)
(*                                                                         *)
(* The queue (BullMQ) and Instagram are external.  Which of the opening    *)
(* message, the follow prompt and the link is sent makes no difference to  *)
(* this module's state; the text fallback of the link button does.         *)
(***************************************************************************)
EXTENDS Naturals, FiniteSets

CONSTANTS
  NCampaigns,        \* active campaigns the comment matches, in createdAt order
  PublicReplies,     \* the campaigns with publicReplyEnabled
  Providers,         \* the account's may be "META", "COMPOSIO" or "ZERNIO"
  TrackedLinks,      \* the campaigns send link buttons (with the text fallback)
  BaseJobs,          \* the jobs the webhook and the sweeps queue
  MaxAttempts,       \* attempts of a job (3 in client.ts)
  MaxRequeue,        \* MAX_REQUEUE_ATTEMPTS (3 in rate-limiter.ts)
  RateLimited,       \* the hourly cap may be reached
  PlanLimited,       \* the monthly limit may be reached
  Lossy,             \* the providers whose answers may get lost
  OnePrivateReply,   \* Instagram itself refuses a second private reply
  TimelyQueue,       \* a 30 minute requeue outlasts a job's retries (20 minutes)
  Faults             \* bound: crashes, failing statements and bad credentials

Campaigns == 1..NCampaigns

RetryJobs == 1..MaxRequeue

Jobs == BaseJobs \union RetryJobs

ASSUME CommentWorkerAssumption ==
  /\ NCampaigns \in Nat \ {0}
  /\ PublicReplies \subseteq Campaigns
  /\ Providers \subseteq {"META", "COMPOSIO", "ZERNIO"} /\ Lossy \subseteq Providers
  /\ MaxAttempts \in Nat \ {0} /\ MaxRequeue \in Nat /\ Faults \in Nat
  /\ BaseJobs \intersect RetryJobs = {} /\ IsFiniteSet(BaseJobs)

VARIABLES
  provider,   \* the account's, which stays
  log,        \* the DmLog row of each campaign for the comment
  job,        \* the jobs in the queue, and where their worker is
  receipt,    \* the comment's composioDelivery receipts, see ComposioTransport
  slots,      \* what these jobs added to the hourly counter
  usage,      \* and to the workspace's monthly counter
  delivered,  \* history: public replies and private messages per campaign
  faults      \* faults so far

vars == <<provider, log, job, receipt, slots, usage, delivered, faults>>

Statuses == {"none", "PENDING", "SENT", "FAILED", "SKIPPED_DEDUP",
             "SKIPPED_PLAN_LIMIT", "SKIPPED_RATE_LIMIT"}

Rows == [status : Statuses, replied : BOOLEAN, replyUnconfirmed : BOOLEAN,
         dmUnconfirmed : BOOLEAN]

NoRow == [status |-> "none", replied |-> FALSE, replyUnconfirmed |-> FALSE,
          dmUnconfirmed |-> FALSE]

(* "lost" is an error like any other to the code: a request of the Meta     *)
(* client that got no answer.                                              *)
Errors == {"none", "error", "lost", "unconfirmed"}

Steps == {"read", "write", "reply", "replied", "reply-failed", "dedup", "skip",
          "usage", "slot", "defer", "requeue", "no-slot", "dm", "text",
          "sent", "free-slot", "free-usage", "fail"}

(* A job: its state in the queue, its failed attempts and, while active,   *)
(* its step and campaign, what it remembers of the row it read (found,     *)
(* needsDm, replyDue), the status it is to write, the error it will throw  *)
(* and whether it holds the receipt of the send under way.                 *)
JobRecords ==
  [state : {"absent", "waiting", "active", "completed", "failed"},
   attempts : 0..MaxAttempts, step : Steps, at : Campaigns,
   found : BOOLEAN, needsDm : BOOLEAN, replyDue : BOOLEAN,
   mark : Statuses, err : Errors, claimed : BOOLEAN]

Fresh(state, attempts, at) ==
  [state |-> state, attempts |-> attempts, step |-> "read", at |-> at,
   found |-> FALSE, needsDm |-> FALSE, replyDue |-> FALSE,
   mark |-> "none", err |-> "none", claimed |-> FALSE]

Channels == {"reply", "dm"}

TypeOK ==
  /\ provider \in Providers
  /\ log \in [Campaigns -> Rows]
  /\ job \in [Jobs -> JobRecords]
  /\ receipt \in [Channels -> {"none", "claimed", "answered"}]
  /\ slots \in Nat /\ usage \in Nat
  /\ delivered \in [Channels -> [Campaigns -> Nat]]
  /\ faults \in 0..Faults

(* The jobs of the webhook and of the sweeps are queued; a worker may take *)
(* them up at any time, in any order, together.                            *)
Init ==
  /\ provider \in Providers
  /\ log = [a \in Campaigns |-> NoRow]
  /\ job = [j \in Jobs |-> Fresh(IF j \in BaseJobs THEN "waiting" ELSE "absent", 0, 1)]
  /\ receipt = [k \in Channels |-> "none"]
  /\ slots = 0 /\ usage = 0
  /\ delivered = [k \in Channels |-> [a \in Campaigns |-> 0]]
  /\ faults = 0
-----------------------------------------------------------------------------
(* Moving a job along.                                                     *)

Ended(j) == job[j].state \in {"completed", "failed"}

At(j, step) == job[j].state = "active" /\ job[j].step = step

Here(j) == job[j].at

Row(j) == log[Here(j)]

Go(j, step) == job' = [job EXCEPT ![j].step = step]

(* continue, or the end of the loop over the campaigns.                    *)
Advanced(j) ==
  IF Here(j) < NCampaigns THEN Fresh("active", job[j].attempts, Here(j) + 1)
                          ELSE Fresh("completed", job[j].attempts, 1)

Advance(j) == job' = [job EXCEPT ![j] = Advanced(j)]

(* A queue that retries without counting.                                  *)
ThrownUncounted(j, err) ==
  IF err = "unconfirmed" THEN Fresh("failed", job[j].attempts + 1, 1)
                         ELSE Fresh("waiting", job[j].attempts, 1)

(* The job throws.  processJob turns a delivery in doubt into an error     *)
(* that is not retried; the queue retries any other while attempts last.   *)
Thrown(j, err) ==
  LET n == job[j].attempts + 1 IN
  IF err = "unconfirmed" \/ n = MaxAttempts THEN Fresh("failed", n, 1)
                                            ELSE Fresh("waiting", n, 1)

Throw(j, err) == job' = [job EXCEPT ![j] = Thrown(j, err)]

Write(j, row) == log' = [log EXCEPT ![Here(j)] = row]

SetStatus(j, status) == log' = [log EXCEPT ![Here(j)].status = status]

(* requeueAttempt of a job's data.                                         *)
RequeueAttempt(j) == IF j \in BaseJobs THEN 0 ELSE j

(* A requeued job is delayed by 30 minutes.                                *)
Due(j) ==
  TimelyQueue => \A i \in Jobs : RequeueAttempt(i) < RequeueAttempt(j) =>
                   Ended(i) \/ job[i].state = "absent"

Start(j) ==
  /\ job[j].state = "waiting" /\ Due(j)
  /\ job' = [job EXCEPT ![j].state = "active"]
  /\ UNCHANGED <<provider, log, receipt, slots, usage, delivered, faults>>
-----------------------------------------------------------------------------
(* The log row, read and written; the public reply leg.                    *)

(* Versions that forget a mark on the row.                                 *)
NeedsDmUnmarked(j) == Row(j).status # "SENT"

(* What the row leaves to do: a private reply, a public reply.             *)
NeedsDm(j) == Row(j).status # "SENT" /\ ~Row(j).dmUnconfirmed

ReplyDue(j) ==
  Here(j) \in PublicReplies /\ ~Row(j).replied /\ ~Row(j).replyUnconfirmed

(* findUnique of the campaign's row, and the early continues.              *)
ReadLog(j) ==
  /\ At(j, "read")
  /\ IF Row(j).status = "SKIPPED_PLAN_LIMIT" \/ (~NeedsDm(j) /\ ~ReplyDue(j))
     THEN Advance(j)
     ELSE job' = [job EXCEPT ![j].step = "write", ![j].found = (Row(j).status # "none"),
                             ![j].needsDm = NeedsDm(j), ![j].replyDue = ReplyDue(j)]
  /\ UNCHANGED <<provider, log, receipt, slots, usage, delivered, faults>>

(* Past the public reply: on to the private one, or to the next campaign.  *)
AfterReply(j) ==
  IF job[j].needsDm THEN [job[j] EXCEPT !.step = "dedup", !.err = "none",
                                        !.claimed = FALSE]
                    ELSE Advanced(j)

(* A write that resets the row whatever is left to do.                     *)
WriteLogAlways(j) ==
  /\ At(j, "write")
  /\ SetStatus(j, "PENDING")
  /\ IF job[j].replyDue THEN Go(j, "reply")
                        ELSE job' = [job EXCEPT ![j] = AfterReply(j)]
  /\ UNCHANGED <<provider, receipt, slots, usage, delivered, faults>>

(* The row is created, or reset to PENDING when the private reply is to be *)
(* attempted.  A row someone else created since the read violates the      *)
(* unique key, and the job fails.                                          *)
WriteLog(j) ==
  /\ At(j, "write")
  /\ IF ~job[j].found /\ Row(j).status # "none"
     THEN Throw(j, "error") /\ UNCHANGED log
     ELSE /\ IF job[j].needsDm THEN SetStatus(j, "PENDING") ELSE UNCHANGED log
          /\ IF job[j].replyDue THEN Go(j, "reply")
                                ELSE job' = [job EXCEPT ![j] = AfterReply(j)]
  /\ UNCHANGED <<provider, receipt, slots, usage, delivered, faults>>

(* No token, or one that cannot be decrypted: upsert FAILED and continue.  *)
NoCredentials(j) ==
  /\ At(j, "write") /\ faults < Faults
  /\ faults' = faults + 1
  /\ SetStatus(j, "FAILED")
  /\ Advance(j)
  /\ UNCHANGED <<provider, receipt, slots, usage, delivered>>

(* publicReplySentAt after a reply that went out.                          *)
RecordReply(j) ==
  /\ At(j, "replied")
  /\ Write(j, [Row(j) EXCEPT !.replied = TRUE])
  /\ job' = [job EXCEPT ![j] = AfterReply(j)]
  /\ UNCHANGED <<provider, receipt, slots, usage, delivered, faults>>

(* A failed public reply is noted on the row and otherwise swallowed.      *)
RecordReplyError(j) ==
  /\ At(j, "reply-failed")
  /\ Write(j, [Row(j) EXCEPT !.replyUnconfirmed = (job[j].err = "unconfirmed")])
  /\ job' = [job EXCEPT ![j] = AfterReply(j)]
  /\ UNCHANGED <<provider, receipt, slots, usage, delivered, faults>>
-----------------------------------------------------------------------------
(* Sending.  With Composio a send first claims the comment's receipt for   *)
(* its channel; with Meta and Zernio it goes straight out.                 *)

Sending(j) == \E step \in {"reply", "dm", "text"} : At(j, step)

Channel(j) == IF job[j].step = "reply" THEN "reply" ELSE "dm"

Undo(j, err) == [job[j] EXCEPT !.step = "free-slot", !.err = err, !.claimed = FALSE]

(* What a send's outcome leads to: a failed button template may be retried *)
(* as text, and whatever that attempt throws the first error is kept.      *)
Landings(j, answer) ==
  LET done(step) == [job[j] EXCEPT !.step = step, !.err = answer, !.claimed = FALSE] IN
  CASE job[j].step = "reply" ->
         {done(IF answer = "none" THEN "replied" ELSE "reply-failed")}
    [] job[j].step # "reply" /\ answer = "none" -> {done("sent")}
    [] job[j].step = "dm" /\ answer # "none" ->
         {Undo(j, answer)} \union
         IF TrackedLinks /\ provider # "ZERNIO" /\ answer \in {"error", "lost"}
         THEN {[job[j] EXCEPT !.step = "text", !.claimed = FALSE]} ELSE {}
    [] job[j].step = "text" /\ answer # "none" -> {Undo(j, "error")}

Land(j, answer) == \E next \in Landings(j, answer) : job' = [job EXCEPT ![j] = next]

(* A claim without an answer taken for one with it.                        *)
ClaimReceiptAsSent(j) ==
  /\ provider = "COMPOSIO" /\ Sending(j) /\ ~job[j].claimed
  /\ IF receipt[Channel(j)] = "none"
     THEN /\ receipt' = [receipt EXCEPT ![Channel(j)] = "claimed"]
          /\ job' = [job EXCEPT ![j].claimed = TRUE]
     ELSE Land(j, "none") /\ UNCHANGED receipt
  /\ UNCHANGED <<provider, log, slots, usage, delivered, faults>>

(* graphFetch finds the receipt free and claims it, answered (the answer   *)
(* is returned again) or claimed (delivery in doubt).  Its lookup after a  *)
(* conflict may also find the claim just deleted by another job.           *)
ClaimReceipt(j) ==
  /\ provider = "COMPOSIO" /\ Sending(j) /\ ~job[j].claimed
  /\ CASE receipt[Channel(j)] = "none" ->
            \/ /\ receipt' = [receipt EXCEPT ![Channel(j)] = "claimed"]
               /\ job' = [job EXCEPT ![j].claimed = TRUE]
            \/ /\ \E i \in Jobs \ {j} : job[i].state = "active"
               /\ Land(j, "unconfirmed") /\ UNCHANGED receipt
       [] receipt[Channel(j)] = "answered" -> Land(j, "none") /\ UNCHANGED receipt
       [] receipt[Channel(j)] = "claimed" -> Land(j, "unconfirmed") /\ UNCHANGED receipt
  /\ UNCHANGED <<provider, log, slots, usage, delivered, faults>>

(* External: what Instagram did with a send and what the job is told.      *)
Outcomes ==
  {[sent |-> TRUE, err |-> "none"], [sent |-> FALSE, err |-> "error"]} \union
  IF provider \notin Lossy THEN {}
  ELSE IF provider = "META" THEN {[sent |-> s, err |-> "lost"] : s \in BOOLEAN}
  ELSE {[sent |-> s, err |-> "unconfirmed"] : s \in BOOLEAN}

Refused(k) ==
  OnePrivateReply /\ k = "dm" /\ \E a \in Campaigns : delivered["dm"][a] > 0

(* A failed send that always frees its claim.                              *)
SettledFreely(k, err) == IF err = "none" THEN "answered" ELSE "none"

Settled(k, err) ==
  CASE err = "none" -> "answered" [] err = "error" -> "none" [] OTHER -> receipt[k]

Send(j) ==
  LET k == Channel(j) IN
  /\ Sending(j)
  /\ provider = "COMPOSIO" => job[j].claimed
  /\ \E o \in Outcomes :
       /\ o.sent => ~Refused(k)
       /\ delivered' = IF o.sent THEN [delivered EXCEPT ![k][Here(j)] = @ + 1]
                                 ELSE delivered
       /\ receipt' = IF provider = "COMPOSIO"
                     THEN [receipt EXCEPT ![k] = Settled(k, o.err)] ELSE receipt
       /\ Land(j, o.err)
  /\ UNCHANGED <<provider, log, slots, usage, faults>>
-----------------------------------------------------------------------------
(* The private reply leg.                                                  *)

(* Another campaign's row for the comment that is SENT ends this one's.    *)
Dedup(j) ==
  /\ At(j, "dedup")
  /\ IF \E a \in Campaigns \ {Here(j)} : log[a].status = "SENT"
     THEN job' = [job EXCEPT ![j].step = "skip", ![j].mark = "SKIPPED_DEDUP"]
     ELSE Go(j, "usage")
  /\ UNCHANGED <<provider, log, receipt, slots, usage, delivered, faults>>

(* A return where the loop has a continue.                                 *)
SkipReturns(j) ==
  /\ At(j, "skip")
  /\ SetStatus(j, job[j].mark)
  /\ job' = [job EXCEPT ![j] = Fresh("completed", job[j].attempts, 1)]
  /\ UNCHANGED <<provider, receipt, slots, usage, delivered, faults>>

(* The skipped row is marked, and the loop goes on.                        *)
Skip(j) ==
  /\ At(j, "skip")
  /\ SetStatus(j, job[j].mark)
  /\ Advance(j)
  /\ UNCHANGED <<provider, receipt, slots, usage, delivered, faults>>

(* reserveWorkspaceDMSend, whose counter WorkspaceUsage models.            *)
ReserveUsage(j) ==
  /\ At(j, "usage")
  /\ \/ usage' = usage + 1 /\ Go(j, "slot")
     \/ /\ PlanLimited /\ UNCHANGED usage
        /\ job' = [job EXCEPT ![j].step = "skip", ![j].mark = "SKIPPED_PLAN_LIMIT"]
  /\ UNCHANGED <<provider, log, receipt, slots, delivered, faults>>

(* reserveDMSlot, whose counter DmRateLimiter models.                      *)
ReserveSlot(j) ==
  /\ At(j, "slot")
  /\ \/ slots' = slots + 1 /\ Go(j, "dm")
     \/ RateLimited /\ UNCHANGED slots /\ Go(j, "no-slot")
  /\ UNCHANGED <<provider, log, receipt, usage, delivered, faults>>

(* blockedResult: the comment is skipped after the last requeue, and       *)
(* requeued before it.                                                     *)
Blocked(j) ==
  IF RequeueAttempt(j) >= MaxRequeue
  THEN [job EXCEPT ![j].step = "skip", ![j].mark = "SKIPPED_RATE_LIMIT"]
  ELSE [job EXCEPT ![j].step = "defer"]

(* A version that keeps the usage of a send put off.                       *)
NoSlotKeepsUsage(j) ==
  /\ At(j, "no-slot")
  /\ job' = Blocked(j)
  /\ UNCHANGED <<provider, log, receipt, slots, usage, delivered, faults>>

(* Over the cap: the usage is given back.                                  *)
NoSlot(j) ==
  /\ At(j, "no-slot")
  /\ usage' = usage - 1
  /\ job' = Blocked(j)
  /\ UNCHANGED <<provider, log, receipt, slots, delivered, faults>>

Defer(j) ==
  /\ At(j, "defer")
  /\ SetStatus(j, "PENDING")
  /\ Go(j, "requeue")
  /\ UNCHANGED <<provider, receipt, slots, usage, delivered, faults>>

(* One id for every requeue of the comment.                                *)
RequeueOneId(j) ==
  /\ At(j, "requeue")
  /\ job' = [job EXCEPT ![j] = Advanced(j),
                        ![1].state = IF @ = "absent" THEN "waiting" ELSE @]
  /\ UNCHANGED <<provider, log, receipt, slots, usage, delivered, faults>>

(* queue.add under the id of the next requeue: ignored while the queue     *)
(* keeps a job of that id, whatever its state.                             *)
Requeue(j) ==
  LET r == RequeueAttempt(j) + 1 IN
  /\ At(j, "requeue")
  /\ job' = [job EXCEPT ![j] = Advanced(j),
                        ![r].state = IF @ = "absent" THEN "waiting" ELSE @]
  /\ UNCHANGED <<provider, log, receipt, slots, usage, delivered, faults>>

RecordSent(j) ==
  /\ At(j, "sent")
  /\ SetStatus(j, "SENT")
  /\ Advance(j)
  /\ UNCHANGED <<provider, receipt, slots, usage, delivered, faults>>

(* The catch block of the send: both reservations go back, the row is      *)
(* FAILED, the error is rethrown.                                          *)
FreeSlot(j) ==
  /\ At(j, "free-slot")
  /\ slots' = slots - 1
  /\ Go(j, "free-usage")
  /\ UNCHANGED <<provider, log, receipt, usage, delivered, faults>>

FreeUsage(j) ==
  /\ At(j, "free-usage")
  /\ usage' = usage - 1
  /\ Go(j, "fail")
  /\ UNCHANGED <<provider, log, receipt, slots, delivered, faults>>

Fail(j) ==
  /\ At(j, "fail")
  /\ Write(j, [Row(j) EXCEPT !.status = "FAILED",
                             !.dmUnconfirmed = (job[j].err = "unconfirmed")])
  /\ Throw(j, job[j].err)
  /\ UNCHANGED <<provider, receipt, slots, usage, delivered, faults>>
-----------------------------------------------------------------------------
(* Faults, at most Faults of them.                                         *)

(* The worker dies: the queue finds the job stalled and gives it to a      *)
(* worker again, without counting an attempt.                              *)
Crash(j) ==
  /\ job[j].state = "active" /\ faults < Faults
  /\ faults' = faults + 1
  /\ job' = [job EXCEPT ![j] = Fresh("waiting", job[j].attempts, 1)]
  /\ UNCHANGED <<provider, log, receipt, slots, usage, delivered>>

(* A statement of Postgres or Redis fails.  Recording a reply falls into   *)
(* the catch of its leg and so does recording a SENT; an error while       *)
(* noting a failed reply is swallowed; a failed reservation of a slot      *)
(* gives the usage back; a statement of graphFetch (the claim, its         *)
(* deletion) fails the send; anywhere else the job throws that error.      *)
StatementFails(j) ==
  /\ job[j].state = "active" /\ faults < Faults
  /\ Sending(j) => provider = "COMPOSIO"
  /\ faults' = faults + 1
  /\ CASE Sending(j) -> Land(j, "error")
       [] job[j].step = "replied" ->
            job' = [job EXCEPT ![j].step = "reply-failed", ![j].err = "error"]
       [] job[j].step = "reply-failed" -> job' = [job EXCEPT ![j] = AfterReply(j)]
       [] job[j].step = "sent" -> job' = [job EXCEPT ![j] = Undo(j, "error")]
       [] job[j].step = "slot" ->
            job' = [job EXCEPT ![j].step = "free-usage", ![j].err = "error"]
       [] OTHER -> Throw(j, "error")
  /\ UNCHANGED <<provider, log, receipt, slots, usage, delivered>>

JobStep(j) ==
  \/ Start(j) \/ ReadLog(j) \/ WriteLog(j) \/ RecordReply(j) \/ RecordReplyError(j)
  \/ ClaimReceipt(j) \/ Send(j) \/ Dedup(j) \/ Skip(j) \/ ReserveUsage(j)
  \/ ReserveSlot(j) \/ NoSlot(j) \/ Defer(j) \/ Requeue(j) \/ RecordSent(j)
  \/ FreeSlot(j) \/ FreeUsage(j) \/ Fail(j)

Fault(j) == NoCredentials(j) \/ Crash(j) \/ StatementFails(j)

(* All jobs have run.                                                      *)
Done == (\A j \in Jobs : Ended(j) \/ job[j].state = "absent") /\ UNCHANGED vars

Next == (\E j \in Jobs : JobStep(j) \/ Fault(j)) \/ Done

Spec == Init /\ [][Next]_vars

(* The worker takes up what is queued, and every await settles.            *)
FairSpec == Spec /\ \A j \in Jobs : WF_vars(JobStep(j))

-----------------------------------------------------------------------------
(* Properties.                                                             *)

Copies(k) == {a \in Campaigns : delivered[k][a] > 0}

(* No campaign posts its public reply or sends its private reply twice,    *)
(* and the comment gets one private reply in all, whatever is retried,     *)
(* requeued, crashes or runs at the same time (README.md:46).              *)
NothingTwice ==
  /\ \A k \in Channels, a \in Campaigns : delivered[k][a] <= 1
  /\ Cardinality(Copies("dm")) <= 1

(* A row says SENT, or that its public reply is out, only when the comment *)
(* did get such a reply: answers that were lost, replayed or concern       *)
(* another job's send never turn into a false record.                      *)
RecordsAreTrue ==
  \A a \in Campaigns :
    /\ log[a].status = "SENT" => Copies("dm") # {}
    /\ log[a].replied => Copies("reply") # {}

HoldsSlot(j) == \E step \in {"dm", "text", "sent", "free-slot"} : At(j, step)

HoldsUsage(j) ==
  HoldsSlot(j) \/ \E step \in {"slot", "no-slot", "free-usage"} : At(j, step)

SentRows == {a \in Campaigns : log[a].status = "SENT"}

(* Nothing more is reserved either: each failed, skipped or requeued send  *)
(* returned what it took, once.                                            *)
ReservationsExact ==
  /\ slots = Cardinality(SentRows) + Cardinality({j \in Jobs : HoldsSlot(j)})
  /\ usage = Cardinality(SentRows) + Cardinality({j \in Jobs : HoldsUsage(j)})

(* A row that says PENDING (also "retry scheduled") has a job that will    *)
(* come back to it, unless an earlier campaign's failure ended the job     *)
(* before it got there (see PublicReplyReached).                           *)
PendingHasJob ==
  \A a \in Campaigns :
    log[a].status = "PENDING" =>
      \/ \E j \in Jobs : job[j].state \in {"waiting", "active"}
      \/ \E b \in Campaigns : b < a /\ log[b].status = "FAILED"

(* When the jobs have ended, every campaign got to its public reply        *)
(* (dm-worker.ts:463, "still goes out per campaign"), unless the private   *)
(* reply of an earlier one failed in every attempt and ended them.         *)
PublicReplyReached ==
  (\A j \in Jobs : Ended(j) \/ job[j].state = "absent") =>
    \A a \in PublicReplies :
      \/ log[a].status # "none"
      \/ \E b \in Campaigns : b < a /\ log[b].status = "FAILED"

(* A private reply on record stays on record (dm-worker.ts:370, "a prior   *)
(* SENT is never clobbered").                                              *)
SentNeverClobbered ==
  [][\A a \in Campaigns : log[a].status = "SENT" => log'[a].status = "SENT"]_vars

(* Once a delivery is marked unconfirmed nothing is sent for it again      *)
(* without a person (docs/zernio.md:55), and what is on record as posted   *)
(* is not posted again (schema.prisma:241).                                *)
MarkedNeverResent ==
  [][\A a \in Campaigns :
       /\ log[a].dmUnconfirmed \/ log[a].status = "SENT" =>
            delivered'["dm"][a] = delivered["dm"][a]
       /\ log[a].replyUnconfirmed \/ log[a].replied =>
            delivered'["reply"][a] = delivered["reply"][a]]_vars

(* A job that starts is done with the comment some day, and so is the      *)
(* chain of requeues it may start: no await keeps it forever.              *)
JobsEnd == \A j \in Jobs : job[j].state = "waiting" ~> Ended(j)

-----------------------------------------------------------------------------
(* What comments in the code say of it, and it does not do.                *)

(* comment-reconciler.ts:295 and schema.prisma:241: processing a comment   *)
(* again is safe, the public reply is posted once.                         *)
PublicReplyIdempotent == \A a \in Campaigns : delivered["reply"][a] <= 1

(* dm-worker.ts:463: the public reply goes out per campaign.  A campaign   *)
(* whose reply is on record has posted one.                                *)
PublicReplyPerCampaign ==
  \A a \in Campaigns : log[a].replied => delivered["reply"][a] > 0

=============================================================================
