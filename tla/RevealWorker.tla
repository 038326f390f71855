---------------------------- MODULE RevealWorker ----------------------------
(***************************************************************************)
(* What follows the opening message (src/lib/queue/dm-worker.ts): one      *)
(* user's button taps and the read fallback (processPostback), messages    *)
(* with a keyword (processMessage) and the follow-up (processFollowUp).    *)
(* A campaign's link is sent to the user, or the prompt to follow first.   *)
(* Every step of a job is one await of the code, jobs run concurrently,    *)
(* fail and are retried, stall, and are queued again after the queue has   *)
(* forgotten them.                                                         *)
(*                                                                         *)
(* The taps and the fallback are of campaign 1; a message goes through the *)
(* campaigns it matches.  Queue, Instagram and the services are external.  *)
(***************************************************************************)
EXTENDS Naturals, FiniteSets

CONSTANTS
  NCampaigns,    \* campaigns a message matches, in createdAt order
  Taps,          \* button taps, each a job of its own (its mid)
  Reads,         \* the job of the read fallback (one id per user), or none
  Messages,      \* messages of the user
  Workloads,     \* which of these jobs a behaviour has
  Providers,     \* the account's may be "META", "COMPOSIO" or "ZERNIO"
  Unreliable,    \* the providers with lost answers and faults
  TrackedLinks,  \* the link goes out as a button (with the text fallback)
  PlanLimited,   \* the monthly limit may be reached
  MaxAttempts,   \* attempts of a job (3 in client.ts)
  Faults         \* bound: crashes, failing statements, evicted jobs

Campaigns == 1..NCampaigns

(* The follow-up's job id is its campaign and user.                        *)
FollowUps == Campaigns

Postbacks == Taps \union Reads

Jobs == Postbacks \union Messages \union FollowUps

ASSUME RevealAssumption ==
  /\ NCampaigns \in Nat \ {0} /\ MaxAttempts \in Nat \ {0} /\ Faults \in Nat
  /\ Workloads \subseteq SUBSET (Postbacks \union Messages)
  /\ Providers \subseteq {"META", "COMPOSIO", "ZERNIO"}
  /\ IsFiniteSet(Postbacks \union Messages)
  /\ Taps \intersect Reads = {} /\ Postbacks \intersect Messages = {}
  /\ (Postbacks \union Messages) \intersect FollowUps = {}
  /\ "reveal" \notin Messages

(* Everything a job may send: the prompt, the link (as a button, or again  *)
(* as text when the button is refused) and the follow-up's thanks.         *)
Sends ==
  (Postbacks \X {1} \X {"prompt", "link", "text"}) \union
  (Messages \X Campaigns \X {"prompt", "link", "text"}) \union
  {<<a, a, "thanks">> : a \in FollowUps}

Keys == {<<"reveal", 1>>} \union (Messages \X Campaigns)

VARIABLES
  conf,       \* provider, requireFollow (gated), and whether Instagram can
              \* tell who follows (verifiable); they stay
  follows,    \* the user follows the account
  log,        \* the DmLog rows: the user's reveal row, and one per message
  job,        \* the jobs in the queue, and where their worker is
  claims,     \* postbackDelivery, by postback
  receipt,    \* what Composio's receipts, or Zernio, remember of each send
  usage,      \* what these jobs added to the workspace's monthly counter
  delivered,  \* history: copies of each send that reached the user
  faults      \* faults so far

vars == <<conf, follows, log, job, claims, receipt, usage, delivered, faults>>

Rows == [status : {"none", "SENT", "FAILED", "SKIPPED_PLAN_LIMIT"},
         unconfirmed : BOOLEAN]

Steps == {"read", "gate", "usage", "skip", "claim", "send", "unclaim", "thank",
          "record", "release", "fail"}

(* A job: its state in the queue, its failed attempts and, while active,   *)
(* its step, campaign, what it is to send, the error it is to throw and    *)
(* whether it holds the receipt of the send under way.                     *)
JobRecords ==
  [state : {"absent", "waiting", "active", "completed", "failed"},
   attempts : 0..MaxAttempts, step : Steps, at : Campaigns,
   form : {"none", "prompt", "link", "text", "thanks"},
   err : {"none", "error", "lost", "unconfirmed", "duplicate"}, claimed : BOOLEAN]

Fresh(j, state, attempts) ==
  [state |-> state, attempts |-> attempts, step |-> "read",
   at |-> IF j \in FollowUps THEN j ELSE 1,
   form |-> "none", err |-> "none", claimed |-> FALSE]

TypeOK ==
  /\ conf \in [provider : Providers, gated : BOOLEAN, verifiable : BOOLEAN]
  /\ follows \in BOOLEAN
  /\ log \in [Keys -> Rows]
  /\ job \in [Jobs -> JobRecords]
  /\ claims \subseteq Postbacks
  /\ receipt \in [Sends -> {"none", "claimed", "answered"}]
  /\ usage \in Nat
  /\ delivered \in [Sends -> Nat]
  /\ faults \in 0..Faults

Init ==
  /\ conf \in [provider : Providers, gated : BOOLEAN, verifiable : BOOLEAN]
  /\ follows \in BOOLEAN
  /\ conf.gated \/ (conf.verifiable /\ follows)  \* read only by the gate
  /\ log = [k \in Keys |-> [status |-> "none", unconfirmed |-> FALSE]]
  /\ \E load \in Workloads :
       job = [j \in Jobs |-> Fresh(j, IF j \in load THEN "waiting" ELSE "absent", 0)]
  /\ claims = {}
  /\ receipt = [x \in Sends |-> "none"]
  /\ usage = 0
  /\ delivered = [x \in Sends |-> 0]
  /\ faults = 0
-----------------------------------------------------------------------------
(* Moving a job along.                                                     *)

At(j, step) == job[j].state = "active" /\ job[j].step = step

Ended(j) == job[j].state \in {"completed", "failed"}

Go(j, step) == job' = [job EXCEPT ![j].step = step]

GoSend(j, form) ==
  job' = [job EXCEPT ![j].form = form, ![j].claimed = FALSE,
            ![j].step = IF conf.provider = "ZERNIO" /\ j \in Postbacks
                        THEN "claim" ELSE "send"]

Completed(j) == Fresh(j, "completed", job[j].attempts)

(* The end of a postback, or the next campaign of a message.               *)
Onward(j) ==
  IF j \in Messages /\ job[j].at < NCampaigns
  THEN [Fresh(j, "active", job[j].attempts) EXCEPT !.at = job[j].at + 1]
  ELSE Completed(j)

Leave(j) == job' = [job EXCEPT ![j] = Onward(j)]

(* The job throws: a delivery in doubt is not retried (processJob).        *)
Thrown(j, err) ==
  LET n == job[j].attempts + 1 IN
  Fresh(j, IF err = "unconfirmed" \/ n = MaxAttempts THEN "failed" ELSE "waiting", n)

Throw(j, err) == job' = [job EXCEPT ![j] = Thrown(j, err)]

Key(j) == IF j \in Messages THEN <<j, job[j].at>> ELSE <<"reveal", 1>>

Row(j) == log[Key(j)]

This(j) == <<j, job[j].at, job[j].form>>

Start(j) ==
  /\ job[j].state = "waiting"
  /\ job' = [job EXCEPT ![j].state = "active"]
  /\ UNCHANGED <<conf, follows, log, claims, receipt, usage, delivered, faults>>

(* External: the user starts to follow the account.                        *)
Follow ==
  /\ conf.gated /\ ~follows
  /\ follows' = TRUE
  /\ UNCHANGED <<conf, log, job, claims, receipt, usage, delivered, faults>>
-----------------------------------------------------------------------------
(* Before the send.                                                        *)

(* What the row says is done already.                                      *)
AlreadyDone(j) ==
  \/ /\ j \in Reads \union Messages
     /\ Row(j).status = "SENT" \/ Row(j).unconfirmed
  \/ j \in Messages /\ Row(j).status = "SKIPPED_PLAN_LIMIT"

(* The fallback and a message look at their row, a tap does not; a         *)
(* follow-up just sends.                                                   *)
ReadLog(j) ==
  /\ At(j, "read")
  /\ IF AlreadyDone(j) THEN Leave(j)
     ELSE IF j \in FollowUps THEN GoSend(j, "thanks")
     ELSE IF conf.gated THEN Go(j, "gate") ELSE Go(j, "usage")
  /\ UNCHANGED <<conf, follows, log, claims, receipt, usage, delivered, faults>>

(* No context can be made: a postback or follow-up ends silently, a        *)
(* message's row is FAILED.                                                *)
NoContext(j) ==
  /\ At(j, "read") /\ ~AlreadyDone(j)
  /\ conf.provider \in Unreliable /\ faults < Faults
  /\ faults' = faults + 1
  /\ log' = IF j \in Messages THEN [log EXCEPT ![Key(j)].status = "FAILED"] ELSE log
  /\ Leave(j)
  /\ UNCHANGED <<conf, follows, claims, receipt, usage, delivered>>

(* getUserFollowStatus: true, false or, when it cannot be told, null.      *)
Answers == {IF follows THEN "true" ELSE "false"} \union
           IF conf.verifiable THEN {} ELSE {"null"}

(* A gate that lets the fallback through.                                  *)
PromptedTapsOnly(j, answer) == j \notin Reads /\ answer = "false"

(* Who is prompted: a postback fails open, a message fails closed, except  *)
(* with Zernio.                                                            *)
Prompted(j, answer) ==
  IF j \in Messages /\ conf.provider # "ZERNIO" THEN answer # "true"
                                                ELSE answer = "false"

(* The fallback sends no prompt, a tap's is not charged, a message's is.   *)
Gate(j) ==
  /\ At(j, "gate")
  /\ \E answer \in Answers :
       IF ~Prompted(j, answer) THEN Go(j, "usage")
       ELSE IF j \in Reads THEN Leave(j)
       ELSE IF j \in Taps THEN GoSend(j, "prompt")
       ELSE job' = [job EXCEPT ![j].step = "usage", ![j].form = "prompt"]
  /\ UNCHANGED <<conf, follows, log, claims, receipt, usage, delivered, faults>>

(* reserveWorkspaceDMSend, whose counter WorkspaceUsage models.            *)
ReserveUsage(j) ==
  /\ At(j, "usage")
  /\ \/ usage' = usage + 1
        /\ GoSend(j, IF job[j].form = "prompt" THEN "prompt" ELSE "link")
     \/ PlanLimited /\ Go(j, "skip") /\ UNCHANGED usage
  /\ UNCHANGED <<conf, follows, log, claims, receipt, delivered, faults>>

Skip(j) ==
  /\ At(j, "skip")
  /\ log' = [log EXCEPT ![Key(j)].status = "SKIPPED_PLAN_LIMIT"]
  /\ Leave(j)
  /\ UNCHANGED <<conf, follows, claims, receipt, usage, delivered, faults>>
-----------------------------------------------------------------------------
(* The send.                                                               *)

(* A tap's prompt and the follow-up swallow what goes wrong.               *)
Swallowed(j) ==
  \/ job[j].form = "thanks"
  \/ job[j].form = "prompt" /\ j \in Taps

Undo(j, err) == [job[j] EXCEPT !.step = "release", !.err = err, !.claimed = FALSE]

(* A follow-up scheduled behind the prompt as well.                        *)
AfterSendAlways(j) == "thank"

(* The follow-up is for those who got the link.                            *)
AfterSend(j) == IF job[j].form = "prompt" THEN "record" ELSE "thank"

(* What a send leads to.  A refused button is sent again as text (whose    *)
(* error is not told), a refused postback of Zernio gives up its claim.    *)
Landings(j, err) ==
  CASE err = "none" ->
         {IF Swallowed(j) THEN Completed(j)
          ELSE [job[j] EXCEPT !.claimed = FALSE, !.step = AfterSend(j)]}
    [] err = "error" /\ conf.provider = "ZERNIO" /\ j \in Postbacks ->
         {[job[j] EXCEPT !.step = "unclaim"]}
    [] OTHER ->
         {IF Swallowed(j) THEN Completed(j)
          ELSE Undo(j, IF job[j].form = "text" THEN "error" ELSE err)} \union
         IF job[j].form = "link" /\ TrackedLinks /\ err \in {"error", "lost"}
            /\ conf.provider # "ZERNIO"
         THEN {[job[j] EXCEPT !.form = "text", !.claimed = FALSE]} ELSE {}

Land(j, err) == \E next \in Landings(j, err) : job' = [job EXCEPT ![j] = next]

(* A claim that is not looked at.                                          *)
ClaimTapAlways(j) ==
  /\ At(j, "claim")
  /\ claims' = claims \union {j} /\ Go(j, "send")
  /\ UNCHANGED <<conf, follows, log, receipt, usage, delivered, faults>>

(* sendPostbackOnce: the durable claim of the tap, with Zernio.            *)
ClaimTap(j) ==
  /\ At(j, "claim")
  /\ IF j \notin claims
     THEN claims' = claims \union {j} /\ Go(j, "send")
     ELSE /\ UNCHANGED claims
          /\ job' = [job EXCEPT ![j] = IF Swallowed(j) THEN Completed(j)
                                                       ELSE Undo(j, "duplicate")]
  /\ UNCHANGED <<conf, follows, log, receipt, usage, delivered, faults>>

(* graphFetch of Composio: free, answered or in doubt (ComposioTransport). *)
ClaimReceipt(j) ==
  /\ conf.provider = "COMPOSIO" /\ At(j, "send") /\ ~job[j].claimed
  /\ CASE receipt[This(j)] = "none" ->
            /\ receipt' = [receipt EXCEPT ![This(j)] = "claimed"]
            /\ job' = [job EXCEPT ![j].claimed = TRUE]
       [] receipt[This(j)] = "answered" -> Land(j, "none") /\ UNCHANGED receipt
       [] receipt[This(j)] = "claimed" -> Land(j, "unconfirmed") /\ UNCHANGED receipt
  /\ UNCHANGED <<conf, follows, log, claims, usage, delivered, faults>>

(* External: whether a send reached the user, and what the job is told.    *)
Outcomes ==
  {[sent |-> TRUE, err |-> "none"], [sent |-> FALSE, err |-> "error"]} \union
  IF conf.provider \notin Unreliable THEN {}
  ELSE {[sent |-> s, err |-> IF conf.provider = "META" THEN "lost" ELSE "unconfirmed"] :
          s \in BOOLEAN}

Settled(x, o) ==
  IF conf.provider = "META" \/ o.err = "error" THEN "none"
  ELSE IF o.err = "none" THEN "answered" ELSE receipt[x]

(* Zernio answers a send it remembers (its idempotency key) without        *)
(* sending it.                                                             *)
Send(j) ==
  LET x == This(j) IN
  /\ At(j, "send")
  /\ conf.provider = "COMPOSIO" => job[j].claimed
  /\ IF conf.provider = "ZERNIO" /\ receipt[x] = "answered"
     THEN Land(j, "none") /\ UNCHANGED <<receipt, delivered>>
     ELSE \E o \in Outcomes :
            /\ delivered' = IF o.sent THEN [delivered EXCEPT ![x] = @ + 1]
                                      ELSE delivered
            /\ receipt' = [receipt EXCEPT ![x] = Settled(x, o)]
            /\ Land(j, o.err)
  /\ UNCHANGED <<conf, follows, log, claims, usage, faults>>

(* A confirmed refusal deletes the tap's claim.                            *)
Unclaim(j) ==
  /\ At(j, "unclaim")
  /\ claims' = claims \ {j}
  /\ job' = [job EXCEPT ![j] = IF Swallowed(j) THEN Completed(j) ELSE Undo(j, "error")]
  /\ UNCHANGED <<conf, follows, log, receipt, usage, delivered, faults>>
-----------------------------------------------------------------------------
(* After the send.                                                         *)

(* The follow-up is queued unless the queue knows its id.                  *)
Thank(j) ==
  /\ At(j, "thank")
  /\ job' = [job EXCEPT ![j].step = "record",
                        ![job[j].at].state = IF @ = "absent" THEN "waiting" ELSE @]
  /\ UNCHANGED <<conf, follows, log, claims, receipt, usage, delivered, faults>>

RecordSent(j) ==
  /\ At(j, "record")
  /\ log' = [log EXCEPT ![Key(j)].status = "SENT"]
  /\ Leave(j)
  /\ UNCHANGED <<conf, follows, claims, receipt, usage, delivered, faults>>

(* A version that records a duplicate as sent.                             *)
ReleaseRecords(j) ==
  /\ At(j, "release")
  /\ usage' = usage - 1
  /\ IF job[j].err = "duplicate" THEN Go(j, "record") ELSE Go(j, "fail")
  /\ UNCHANGED <<conf, follows, log, claims, receipt, delivered, faults>>

(* A version that keeps the reservation of a fallback that was refused.    *)
ReleaseTapsOnly(j) ==
  /\ At(j, "release")
  /\ usage' = IF j \in Reads THEN usage ELSE usage - 1
  /\ IF job[j].err = "duplicate" \/ (j \in Reads /\ job[j].err # "unconfirmed")
     THEN Leave(j) ELSE Go(j, "fail")
  /\ UNCHANGED <<conf, follows, log, claims, receipt, delivered, faults>>

(* The reservation goes back.  A duplicate tap, and a fallback that was    *)
(* refused, end there.                                                     *)
Release(j) ==
  /\ At(j, "release")
  /\ usage' = usage - 1
  /\ IF job[j].err = "duplicate" \/ (j \in Reads /\ job[j].err # "unconfirmed")
     THEN Leave(j) ELSE Go(j, "fail")
  /\ UNCHANGED <<conf, follows, log, claims, receipt, delivered, faults>>

Fail(j) ==
  /\ At(j, "fail")
  /\ log' = [log EXCEPT ![Key(j)] = [status |-> "FAILED",
                                     unconfirmed |-> job[j].err = "unconfirmed"]]
  /\ Throw(j, job[j].err)
  /\ UNCHANGED <<conf, follows, claims, receipt, usage, delivered, faults>>
-----------------------------------------------------------------------------
(* Faults, at most Faults of them.                                         *)

Faulty == conf.provider \in Unreliable /\ faults < Faults /\ faults' = faults + 1

(* The worker dies, with or without the request it has on the line; the    *)
(* queue gives the stalled job to a worker again.                          *)
Crash(j) ==
  /\ Faulty /\ job[j].state = "active"
  /\ job' = [job EXCEPT ![j] = Fresh(j, "waiting", job[j].attempts)]
  /\ \/ UNCHANGED <<receipt, delivered>>
     \/ /\ At(j, "send") /\ (conf.provider = "COMPOSIO" => job[j].claimed)
        /\ receipt[This(j)] # "answered"
        /\ delivered' = [delivered EXCEPT ![This(j)] = @ + 1]
        /\ receipt' = IF conf.provider = "ZERNIO"
                      THEN [receipt EXCEPT ![This(j)] = "answered"] ELSE receipt
  /\ UNCHANGED <<conf, follows, log, claims, usage>>

(* A statement of Postgres or Redis fails: in the send or what it is       *)
(* wrapped in the error lands in the catch of the send, anywhere else it   *)
(* ends the attempt.                                                       *)
StatementFails(j) ==
  /\ Faulty /\ job[j].state = "active" /\ job[j].step # "gate"
  /\ At(j, "send") => conf.provider = "COMPOSIO"
  /\ CASE At(j, "send") -> Land(j, "error")
       [] job[j].step \in {"claim", "unclaim", "thank", "record"} ->
            job' = [job EXCEPT ![j] = IF Swallowed(j) THEN Completed(j)
                                                      ELSE Undo(j, "error")]
       [] OTHER -> Throw(j, "error")
  /\ UNCHANGED <<conf, follows, log, claims, receipt, usage, delivered>>

(* The queue forgets an ended job, and the webhook is delivered again (a   *)
(* follow-up has no webhook: the next answer may queue it again).          *)
Evict(j) ==
  /\ Faulty /\ Ended(j)
  /\ job' = [job EXCEPT ![j] = Fresh(j, IF j \in FollowUps THEN "absent" ELSE "waiting", 0)]
  /\ UNCHANGED <<conf, follows, log, claims, receipt, usage, delivered>>

JobStep(j) ==
  \/ Start(j) \/ ReadLog(j) \/ Gate(j) \/ ReserveUsage(j) \/ Skip(j)
  \/ ClaimTap(j) \/ ClaimReceipt(j) \/ Send(j) \/ Unclaim(j)
  \/ Thank(j) \/ RecordSent(j) \/ Release(j) \/ Fail(j)

Fault(j) == NoContext(j) \/ Crash(j) \/ StatementFails(j) \/ Evict(j)

(* All jobs have run.                                                      *)
Done == (\A j \in Jobs : Ended(j) \/ job[j].state = "absent") /\ UNCHANGED vars

Next == (\E j \in Jobs : JobStep(j) \/ Fault(j)) \/ Follow \/ Done

Spec == Init /\ [][Next]_vars
-----------------------------------------------------------------------------
(* Properties.                                                             *)

(* Nothing a job sends reaches the user twice, whatever is retried, queued *)
(* again after an eviction, or crashes with a request on the line (the     *)
(* claim "survives queue eviction, concurrent redelivery, and a process    *)
(* crash", dm-worker.ts:780).  Zernio's messages and follow-ups have no    *)
(* claim: after a lost answer only the mark on the row keeps them back.    *)
SentOnce ==
  \A x \in Sends :
    (conf.provider = "ZERNIO" => x[1] \in Postbacks) => delivered[x] <= 1

LinkBy(j, a) == \E form \in {"link", "text"} :
                  <<j, a, form>> \in Sends /\ delivered[<<j, a, form>>] > 0

(* A campaign that asks for a follow gives its link only to a follower, or *)
(* to one nobody can tell about: never by the fallback of a non-follower,  *)
(* nor by a message while the status is unknown (except with Zernio).      *)
GateHolds ==
  conf.gated /\ ~follows =>
    \A j \in Postbacks \union Messages, a \in Campaigns :
      LinkBy(j, a) => ~conf.verifiable /\ (j \in Postbacks \/ conf.provider = "ZERNIO")

(* A row says SENT only when the user got the answer it is about.          *)
SentIsTrue ==
  \A k \in Keys : log[k].status = "SENT" =>
    IF k[1] = "reveal" THEN \E j \in Postbacks : LinkBy(j, 1)
    ELSE LinkBy(k[1], k[2]) \/ delivered[<<k[1], k[2], "prompt">>] > 0

Charged(j, a) ==
  LinkBy(j, a) \/ (j \in Messages /\ delivered[<<j, a, "prompt">>] > 0)

(* Holding a reservation for something not sent (yet).                     *)
Holding(j) ==
  /\ job[j].state = "active" /\ job[j].step \in {"claim", "send", "unclaim", "release"}
  /\ ~Swallowed(j)

(* Where nothing fails unseen, the counter holds exactly the answers that  *)
(* went out and the reservations of running jobs: refusals, the fallback's *)
(* included, give theirs back, and a tap's prompt is free.                 *)
ChargedExactly ==
  conf.provider \notin Unreliable =>
    usage = Cardinality({p \in (Postbacks \union Messages) \X Campaigns :
                           Charged(p[1], p[2])})
            + Cardinality({j \in Jobs : Holding(j)})

(* Nobody is thanked for a link they did not get.                          *)
FollowUpAfterLink ==
  \A a \in FollowUps : delivered[<<a, a, "thanks">>] > 0 =>
    \E j \in Postbacks \union Messages : LinkBy(j, a)

(* The fallback passes its check only while no tap has ended with its link *)
(* delivered (process-webhook.ts:132, "no-ops this delayed job if a real   *)
(* button tap has already delivered the reveal").                          *)
FallbackYields ==
  [][\A r \in Reads, t \in Taps :
       job[r].step = "read" /\ job'[r].step \in {"gate", "usage"} =>
         ~(LinkBy(t, 1) /\ job[t].state = "completed")]_vars
=============================================================================
