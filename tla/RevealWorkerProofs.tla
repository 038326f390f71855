------------------------- MODULE RevealWorkerProofs -------------------------
(***************************************************************************)
(* Machine-checked proofs about RevealWorker, for any campaigns, taps,     *)
(* reads and messages, any attempts and any number of faults.              *)
(*                                                                         *)
(* The invariant IInv says what a job knows at each of its steps: past the *)
(* gate, that the user follows or cannot be told; past the send, that it   *)
(* was delivered; with a receipt or a claim, that nothing of it went out   *)
(* before.  It holds whatever fails.                                       *)
(*                                                                         *)
(* Two more are built on it.  Reserved counts the jobs that may still give *)
(* a reservation back.  Once says, where nothing fails unseen, that a job  *)
(* never comes back to an answer it gave; with it the counter is exact.    *)
(***************************************************************************)
EXTENDS RevealWorker, FiniteSetTheorems, TLAPS

-----------------------------------------------------------------------------
(* The inductive invariant.                                                *)

(* The link goes out as a button or, when that is refused, as text.        *)
LinkForms == {"link", "text"}

(* The jobs that answer the user; the others are the follow-ups.           *)
Answering == Postbacks \union Messages

(* What a job may send, and which of it is charged.                        *)
MaySend(j, form) ==
  IF j \in FollowUps THEN form = "thanks"
  ELSE form \in LinkForms \/ (form = "prompt" /\ j \notin Reads)

(* What the month is charged for: a link, and a message's prompt.          *)
Paid(j, form) ==
  j \in Answering /\ (form \in LinkForms \/ (form = "prompt" /\ j \in Messages))

(* A record of job j: what it sends and where is told by its step.         *)
Placed(j, q) ==
  /\ q \in JobRecords
  /\ q.state # "active" => q.step = "read"
  /\ q.state # "failed" => q.attempts < MaxAttempts
  /\ j \in FollowUps => q.at = j /\ q.step \in {"read", "send"}
  /\ j \in Postbacks => q.at = 1
  /\ q.step \in {"read", "gate"} => q.form = "none"
  /\ q.step = "usage" => q.form = "none" \/ (q.form = "prompt" /\ j \in Messages)
  /\ q.step \in {"claim", "unclaim"} => j \in Postbacks
  /\ q.step \in {"claim", "send", "unclaim"} => MaySend(j, q.form)
  /\ q.step = "thank" => q.form \in LinkForms
  /\ q.step \in {"thank", "record", "release"} => Paid(j, q.form)
  /\ q.claimed => q.step = "send"

(* Nothing this job sends went out.                                        *)
Unsent(j) == \A x \in Sends : x[1] = j => delivered[x] = 0

(* What a job with this record knows of the world it acts on.              *)
Knows(j, q) ==
  /\ conf.gated /\ ~follows /\ q.step \in {"usage", "claim", "send"}
       /\ q.form \in {"none", "link", "text"} =>
         ~conf.verifiable /\ (j \in Postbacks \/ conf.provider = "ZERNIO")
  /\ q.step \in {"thank", "record"} => delivered[<<j, q.at, q.form>>] > 0
  /\ j \in FollowUps /\ q.state # "absent" => \E i \in Answering : LinkBy(i, j)
  /\ q.claimed => /\ conf.provider = "COMPOSIO"
                  /\ receipt[<<j, q.at, q.form>>] = "claimed"
                  /\ delivered[<<j, q.at, q.form>>] = 0
  /\ conf.provider = "ZERNIO" /\ j \in Postbacks /\ q.step \in {"send", "unclaim"} =>
       j \in claims /\ Unsent(j)

(* The types of all but the counter, whose bound is proved further down.   *)
Typed ==
  /\ conf \in [provider : Providers, gated : BOOLEAN, verifiable : BOOLEAN]
  /\ follows \in BOOLEAN
  /\ log \in [Keys -> Rows]
  /\ job \in [Jobs -> JobRecords]
  /\ claims \subseteq Postbacks
  /\ receipt \in [Sends -> {"none", "claimed", "answered"}]
  /\ delivered \in [Sends -> Nat]
  /\ faults \in 0..Faults

(* The receipt of a send and the claim of a postback tell what went out.   *)
Told(x) ==
  /\ receipt[x] = "answered" => delivered[x] > 0
  /\ conf.provider = "COMPOSIO" =>
       delivered[x] <= 1 /\ (receipt[x] = "none" => delivered[x] = 0)
  /\ conf.provider = "ZERNIO" /\ x[1] \in Postbacks =>
       delivered[x] <= 1 /\ (x[1] \notin claims => delivered[x] = 0)

(* All of it, with three of the properties themselves.                     *)
IInv ==
  /\ Typed /\ SentIsTrue /\ GateHolds /\ FollowUpAfterLink
  /\ \A x \in Sends : Told(x)
  /\ \A j \in Jobs : Placed(j, job[j]) /\ Knows(j, job[j])

(* Where nothing fails unseen.                                             *)
Reliable == conf.provider \notin Unreliable

(* Job j is through with campaign a and will not come back to it.          *)
Over(j, a) ==
  \/ job[j].state = "active" /\ job[j].at = a /\ job[j].step \in {"thank", "record"}
  \/ j \in Messages /\ log[<<j, a>>].status = "SENT"
  \/ j \notin Messages /\ job[j].state = "completed"

(* Where nothing fails unseen, what went out went out once, and its job    *)
(* has left that step for good: it is past the send, its row says SENT, or *)
(* it has completed.  A message works only on a campaign it has not        *)
(* answered.                                                               *)
Once ==
  Reliable =>
    /\ \A x \in Sends : delivered[x] <= 1 /\ (delivered[x] > 0 => Over(x[1], x[2]))
    /\ \A j \in Messages : job[j].step # "read" => log[<<j, job[j].at>>].status # "SENT"

(* 1 if a job with record q holds a reservation at one of these steps, or  *)
(* else 0.                                                                 *)
Held(j, q, steps) ==
  IF q.state = "active" /\ q.step \in steps /\ Paid(j, q.form) THEN 1 ELSE 0

(* A reservation for something that is not sent,                           *)
Reserving == {"claim", "send", "unclaim", "release"}

(* and one that a failing statement may still give back.                   *)
Spending == Reserving \union {"thank", "record"}

(* The jobs that hold one.                                                 *)
Holders(steps) == {j \in Jobs : Held(j, job[j], steps) = 1}

(* The counter never falls below what running jobs may still give back.    *)
Reserved == usage \in Nat /\ usage >= Cardinality(Holders(Spending))

-----------------------------------------------------------------------------
(* What a job may send, and its row.                                       *)

(* A job that may send something at its campaign makes it one of Sends.    *)
LEMMA SendIn ==
  ASSUME NEW j \in Jobs, NEW a \in Campaigns, NEW form, MaySend(j, form),
         j \in FollowUps => a = j, j \in Postbacks => a = 1
  PROVE  <<j, a, form>> \in Sends
<1>1. CASE j \in FollowUps
  BY <1>1 DEF MaySend, Sends
<1>2. CASE j \in Postbacks \ FollowUps
  BY <1>2 DEF MaySend, Sends, LinkForms
<1>3. CASE j \in Messages \ FollowUps
  BY <1>3 DEF MaySend, Sends, LinkForms
<1> QED
  BY <1>1, <1>2, <1>3 DEF Jobs

(* Sends, told apart: a follow-up sends its own thanks, a postback is of   *)
(* campaign 1.                                                             *)
LEMMA SendIs ==
  ASSUME NEW x \in Sends
  PROVE  /\ x[1] \in Jobs /\ x[2] \in Campaigns /\ x = <<x[1], x[2], x[3]>>
         /\ x[1] \in FollowUps => x = <<x[1], x[1], "thanks">>
         /\ x[1] \in Postbacks => x[2] = 1
         /\ x[3] = "thanks" => x[1] \in FollowUps
<1>1. 1 \in Campaigns
  BY RevealAssumption DEF Campaigns
<1> QED
  BY <1>1, RevealAssumption DEF Sends, Jobs, FollowUps

(* Every job has a row.                                                    *)
LEMMA KeyIs ==
  ASSUME NEW j \in Jobs, job[j] \in JobRecords
  PROVE  Key(j) \in Keys
BY DEF Key, Keys, JobRecords

(* The four sorts of jobs have no job in common.                           *)
LEMMA Apart ==
  /\ Postbacks \intersect FollowUps = {} /\ Messages \intersect FollowUps = {}
  /\ Postbacks \intersect Messages = {} /\ Taps \intersect Reads = {}
BY RevealAssumption

(* What is charged is something its job may send.                          *)
LEMMA PaidAreSent ==
  ASSUME NEW j, NEW form, Paid(j, form)
  PROVE  MaySend(j, form) /\ j \notin FollowUps
BY Apart DEF Paid, MaySend, Answering, Postbacks

-----------------------------------------------------------------------------
(* The records a step gives its job.                                       *)

(* A worker runs job j.                                                    *)
Active(j) == job[j].state = "active"

(* A fresh record is at its first step and sends nothing.                  *)
LEMMA FreshIs ==
  ASSUME NEW j \in Jobs, NEW n \in 0..MaxAttempts,
         NEW state \in {"absent", "waiting", "active", "completed", "failed"},
         n < MaxAttempts \/ state = "failed"
  PROVE  /\ Placed(j, Fresh(j, state, n)) /\ Fresh(j, state, n).step = "read"
         /\ Fresh(j, state, n).state = state /\ Fresh(j, state, n).attempts = n
         /\ Fresh(j, state, n).form = "none"
<1>1. (IF j \in FollowUps THEN j ELSE 1) \in Campaigns
  BY RevealAssumption DEF FollowUps, Campaigns
<1>2. Fresh(j, state, n) \in JobRecords
  BY <1>1 DEF Fresh, JobRecords, Steps
<1> QED
  BY <1>2, Apart DEF Fresh, Placed

(* A job that leaves a campaign is done, or a message at its next one.     *)
LEMMA OnwardIs ==
  ASSUME IInv, NEW j \in Jobs, Active(j)
  PROVE  /\ Placed(j, Onward(j)) /\ Onward(j).step = "read"
         /\ Onward(j).state \in {"active", "completed"}
         /\ j \notin Messages => Onward(j).state = "completed"
<1>1. job[j] \in JobRecords /\ job[j].attempts \in 0..MaxAttempts /\ job[j].attempts < MaxAttempts
      /\ job[j].at \in Campaigns
  BY DEF IInv, Typed, JobRecords, Placed, Active
<1>2. CASE j \in Messages /\ job[j].at < NCampaigns
  <2> DEFINE f == Fresh(j, "active", job[j].attempts)
  <2>1. Placed(j, f) /\ f.step = "read" /\ f.form = "none"
        /\ f.state = "active" /\ f.attempts = job[j].attempts
    BY <1>1, FreshIs
  <2>2. job[j].at + 1 \in Campaigns
    BY <1>1, <1>2, RevealAssumption DEF Campaigns
  <2>3. Onward(j) = [f EXCEPT !.at = job[j].at + 1]
    BY <1>2 DEF Onward
  <2>4. f \in JobRecords /\ f.claimed = FALSE
    BY <2>1 DEF Placed, JobRecords
  <2> HIDE DEF f
  <2>5. /\ Onward(j) \in JobRecords /\ Onward(j).step = "read" /\ Onward(j).form = "none"
        /\ Onward(j).claimed = FALSE /\ Onward(j).state = "active"
        /\ Onward(j).attempts = job[j].attempts
    BY <2>1, <2>2, <2>3, <2>4 DEF JobRecords
  <2>6. j \notin FollowUps /\ j \notin Postbacks
    BY <1>2, Apart
  <2> QED
    BY <1>1, <1>2, <2>5, <2>6 DEF Placed
<1>3. CASE ~(j \in Messages /\ job[j].at < NCampaigns)
  <2>1. Onward(j) = Fresh(j, "completed", job[j].attempts)
    BY <1>3 DEF Onward, Completed
  <2> QED
    BY <1>1, <2>1, FreshIs
<1> QED
  BY <1>2, <1>3

(* A job that throws waits for its next attempt or has failed.             *)
LEMMA ThrownIs ==
  ASSUME IInv, NEW j \in Jobs, Active(j), NEW err
  PROVE  /\ Placed(j, Thrown(j, err)) /\ Thrown(j, err).step = "read"
         /\ Thrown(j, err).state \in {"waiting", "failed"}
<1>1. job[j] \in JobRecords /\ job[j].attempts \in 0..MaxAttempts /\ job[j].attempts < MaxAttempts
  BY DEF IInv, Typed, JobRecords, Placed, Active
<1> DEFINE n == job[j].attempts + 1
           state == IF err = "unconfirmed" \/ n = MaxAttempts THEN "failed" ELSE "waiting"
<1>2. n \in 0..MaxAttempts /\ (n < MaxAttempts \/ state = "failed")
  BY <1>1, RevealAssumption
<1>3. state \in {"waiting", "failed"}
  OBVIOUS
<1>4. Thrown(j, err) = Fresh(j, state, n)
  BY DEF Thrown
<1> HIDE DEF n, state
<1> QED
  BY <1>2, <1>3, <1>4, FreshIs

(* A job between its campaigns or attempts has nothing to know, but that a *)
(* follow-up follows a link.                                               *)
LEMMA IdleKnows ==
  ASSUME IInv, NEW j \in Jobs, job[j].state # "absent", NEW q, Placed(j, q), q.step = "read"
  PROVE  Knows(j, q)
<1>1. q.claimed = FALSE
  BY DEF Placed, JobRecords
<1>2. j \in FollowUps => \E i \in Answering : LinkBy(i, j)
  BY DEF IInv, Knows
<1> QED
  BY <1>1, <1>2 DEF Knows

(* The job holds no receipt.                                               *)
Unclaimed(q) == q.claimed = FALSE

(* What a send leads to: it is told and swallowed, it is noted, the claim  *)
(* is given up, the reservation is, or the link is sent again as text.     *)
LEMMA LandingsAre ==
  ASSUME IInv, NEW j \in Jobs, At(j, "send"), NEW err \in {"none", "error", "lost", "unconfirmed"},
         NEW q \in Landings(j, err)
  PROVE  /\ Placed(j, q) /\ Unclaimed(q)
         /\ q.step = "read" => q.state = "completed" /\ ~Paid(j, job[j].form)
         /\ q.step # "read" => q.state = "active" /\ q.at = job[j].at
         /\ q.step \in {"thank", "record", "unclaim", "release"} => q.form = job[j].form
         /\ q.step \in {"thank", "record"} => err = "none"
         /\ q.step \in {"thank", "record", "release"} => Paid(j, job[j].form)
         /\ err = "none" => q.step \in {"read", "thank", "record"}
         /\ q.step = "unclaim" => err = "error" /\ conf.provider = "ZERNIO" /\ j \in Postbacks
         /\ q.step = "send" =>
              /\ job[j].form = "link" /\ q.form = "text" /\ conf.provider # "ZERNIO"
              /\ err \in {"error", "lost"}
         /\ q.step \in {"read", "thank", "record", "unclaim", "release", "send"}
<1>1. /\ job[j] \in JobRecords /\ job[j].state = "active" /\ job[j].step = "send"
      /\ job[j].attempts < MaxAttempts /\ MaySend(j, job[j].form)
      /\ job[j].attempts \in 0..MaxAttempts
      /\ j \in Postbacks => job[j].at = 1
      /\ j \in FollowUps => job[j].at = j
      /\ job[j].claimed => conf.provider = "COMPOSIO"
  BY DEF IInv, Typed, Placed, Knows, At, JobRecords
<1>2. Swallowed(j) <=> ~Paid(j, job[j].form)
  BY <1>1, Apart DEF Swallowed, Paid, MaySend, LinkForms, Answering, Jobs, Postbacks
<1>3. CASE q = Completed(j) /\ Swallowed(j)
  <2>1. /\ Placed(j, Completed(j)) /\ Completed(j).step = "read"
        /\ Completed(j).state = "completed"
    BY <1>1, FreshIs DEF Completed
  <2>2. Completed(j).claimed = FALSE
    BY <2>1 DEF Placed, JobRecords
  <2> QED
    BY <1>2, <1>3, <2>1, <2>2 DEF Unclaimed
<1>4. CASE err = "none" /\ ~Swallowed(j) /\ q = [job[j] EXCEPT !.claimed = FALSE, !.step = AfterSend(j)]
  <2>1. /\ q \in JobRecords /\ q.claimed = FALSE /\ q.step = AfterSend(j) /\ q.state = "active"
        /\ q.at = job[j].at /\ q.form = job[j].form /\ q.attempts = job[j].attempts
    BY <1>1, <1>4 DEF JobRecords, AfterSend, Steps
  <2>2. IF job[j].form = "prompt" THEN AfterSend(j) = "record" ELSE AfterSend(j) = "thank"
    BY DEF AfterSend
  <2>3. job[j].form # "prompt" => job[j].form \in LinkForms
    BY <1>2, <1>4 DEF Paid
  <2>4. j \notin FollowUps
    BY <1>2, <1>4, Apart DEF Paid, Answering
  <2> QED
    BY <1>1, <1>2, <1>4, <2>1, <2>2, <2>3, <2>4 DEF Placed, Unclaimed
<1>5. CASE err = "error" /\ conf.provider = "ZERNIO" /\ j \in Postbacks /\ q = [job[j] EXCEPT !.step = "unclaim"]
  <2>1. /\ q \in JobRecords /\ q.step = "unclaim" /\ q.state = "active" /\ q.at = job[j].at
        /\ q.form = job[j].form /\ q.attempts = job[j].attempts /\ q.claimed = job[j].claimed
    BY <1>1, <1>5 DEF JobRecords, Steps
  <2>2. q.claimed = FALSE
    BY <1>1, <1>5, <2>1 DEF JobRecords
  <2>3. j \notin FollowUps
    BY <1>5, Apart
  <2> QED
    BY <1>1, <1>5, <2>1, <2>2, <2>3 DEF Placed, Unclaimed
<1>6. ASSUME NEW e \in {"error", "lost", "unconfirmed"}, ~Swallowed(j), q = Undo(j, e), err # "none"
      PROVE  /\ Placed(j, q) /\ q.claimed = FALSE /\ q.step = "release" /\ q.state = "active"
             /\ q.at = job[j].at /\ q.form = job[j].form
  <2>1. /\ q \in JobRecords /\ q.step = "release" /\ q.state = "active" /\ q.at = job[j].at
        /\ q.form = job[j].form /\ q.attempts = job[j].attempts /\ q.claimed = FALSE
    BY <1>1, <1>6 DEF JobRecords, Steps, Undo
  <2>2. j \notin FollowUps
    BY <1>2, <1>6, Apart DEF Paid, Answering
  <2> QED
    BY <1>1, <1>2, <1>6, <2>1, <2>2 DEF Placed
<1>7. CASE /\ job[j].form = "link" /\ err \in {"error", "lost"} /\ conf.provider # "ZERNIO"
           /\ q = [job[j] EXCEPT !.form = "text", !.claimed = FALSE]
  <2>1. /\ q \in JobRecords /\ q.step = "send" /\ q.state = "active" /\ q.at = job[j].at
        /\ q.form = "text" /\ q.attempts = job[j].attempts /\ q.claimed = FALSE
    BY <1>1, <1>7 DEF JobRecords
  <2>2. MaySend(j, "text") /\ j \notin FollowUps
    BY <1>1, <1>7 DEF MaySend, LinkForms
  <2> QED
    BY <1>1, <1>7, <2>1, <2>2 DEF Placed, Unclaimed
<1>8. \/ q = Completed(j) /\ Swallowed(j)
      \/ err = "none" /\ ~Swallowed(j) /\ q = [job[j] EXCEPT !.claimed = FALSE, !.step = AfterSend(j)]
      \/ err = "error" /\ conf.provider = "ZERNIO" /\ j \in Postbacks /\ q = [job[j] EXCEPT !.step = "unclaim"]
      \/ err # "none" /\ ~Swallowed(j) /\ \E e \in {"error", "lost", "unconfirmed"} : q = Undo(j, e)
      \/ /\ job[j].form = "link" /\ err \in {"error", "lost"} /\ conf.provider # "ZERNIO"
         /\ q = [job[j] EXCEPT !.form = "text", !.claimed = FALSE]
  <2>1. CASE err = "none"
    BY <2>1 DEF Landings
  <2>2. CASE err = "error" /\ conf.provider = "ZERNIO" /\ j \in Postbacks
    BY <2>2 DEF Landings
  <2>3. CASE err # "none" /\ ~(err = "error" /\ conf.provider = "ZERNIO" /\ j \in Postbacks)
    <3>1. (IF job[j].form = "text" THEN "error" ELSE err) \in {"error", "lost", "unconfirmed"}
      BY <2>3
    <3> QED
      BY <2>3, <3>1 DEF Landings
  <2> QED
    BY <2>1, <2>2, <2>3
<1> QED
  BY <1>2, <1>3, <1>4, <1>5, <1>6, <1>7, <1>8 DEF Unclaimed

-----------------------------------------------------------------------------
(* A step of one job.                                                      *)

(* No job has begun, no row exists and nothing was delivered.              *)
LEMMA InitInv == Init => IInv
<1> SUFFICES ASSUME Init PROVE IInv
  OBVIOUS
<1>1. ASSUME NEW j \in Jobs
      PROVE  /\ Placed(j, job[j]) /\ job[j].step = "read" /\ job[j].claimed = FALSE
             /\ job[j].state \in {"waiting", "absent"}
             /\ j \in FollowUps => job[j].state = "absent"
  <2>1. PICK load \in Workloads :
          job = [i \in Jobs |-> Fresh(i, IF i \in load THEN "waiting" ELSE "absent", 0)]
    BY DEF Init
  <2>2. PICK state \in {"waiting", "absent"} : /\ job[j] = Fresh(j, state, 0)
                                               /\ state = IF j \in load THEN "waiting" ELSE "absent"
    BY <2>1
  <2>3. 0 \in 0..MaxAttempts /\ 0 < MaxAttempts
    BY RevealAssumption
  <2>4. /\ Placed(j, job[j]) /\ job[j].step = "read" /\ job[j].state = state
    BY <2>2, <2>3, FreshIs
  <2>5. job[j].claimed = FALSE
    BY <2>4 DEF Placed, JobRecords
  <2>6. j \in FollowUps => j \notin load
    BY Apart, RevealAssumption
  <2> QED
    BY <2>2, <2>4, <2>5, <2>6
<1>2. ASSUME NEW j \in Jobs PROVE Knows(j, job[j])
  BY <1>1 DEF Knows
<1>3. /\ \A x \in Sends : delivered[x] = 0 /\ receipt[x] = "none"
      /\ \A j, a : ~LinkBy(j, a)
  BY DEF Init, LinkBy
<1>4. \A k \in Keys : log[k].status = "none"
  BY DEF Init
<1>5. SentIsTrue /\ GateHolds /\ FollowUpAfterLink
  <2>1. \A a \in FollowUps : <<a, a, "thanks">> \in Sends
    BY DEF Sends
  <2> QED
    BY <1>3, <1>4, <2>1 DEF SentIsTrue, GateHolds, FollowUpAfterLink
<1>6. \A x \in Sends : Told(x)
  BY <1>3 DEF Told
<1>7. Typed
  <2>1. log \in [Keys -> Rows]
    BY DEF Init, Rows
  <2>2. job \in [Jobs -> JobRecords]
    <3>1. \A j \in Jobs : job[j] \in JobRecords
      BY <1>1 DEF Placed
    <3>2. PICK load \in Workloads :
            job = [i \in Jobs |-> Fresh(i, IF i \in load THEN "waiting" ELSE "absent", 0)]
      BY DEF Init
    <3> QED
      BY <3>1, <3>2
  <2> QED
    BY <2>1, <2>2, RevealAssumption DEF Init, Typed
<1> QED
  BY <1>1, <1>2, <1>5, <1>6, <1>7 DEF IInv

(* What went out stays out.                                                *)
LEMMA LinksStay ==
  ASSUME delivered \in [Sends -> Nat], delivered' \in [Sends -> Nat],
         \A x \in Sends : delivered'[x] >= delivered[x], NEW j, NEW a, LinkBy(j, a)
  PROVE  LinkBy(j, a)'
<1>1. PICK form \in {"link", "text"} : <<j, a, form>> \in Sends /\ delivered[<<j, a, form>>] > 0
  BY DEF LinkBy
<1>2. /\ delivered[<<j, a, form>>] \in Nat /\ delivered'[<<j, a, form>>] \in Nat
      /\ delivered'[<<j, a, form>>] >= delivered[<<j, a, form>>]
  BY <1>1
<1>3. delivered'[<<j, a, form>>] > 0
  BY <1>1, <1>2
<1> QED
  BY <1>1, <1>3 DEF LinkBy

(* A step that sends nothing and leaves receipts and claims alone; another *)
(* job it may put into the queue is the follow-up of a link.               *)
LEMMA QuietStep ==
  ASSUME IInv, NEW j \in Jobs, UNCHANGED <<conf, follows, claims, receipt, delivered>>,
         job' \in [Jobs -> JobRecords], Placed(j, job'[j]), Knows(j, job'[j]),
         \A i \in Jobs \ {j} : job'[i] = job[i] \/
           /\ job[i].state = "absent" /\ job'[i] = [job[i] EXCEPT !.state = "waiting"]
           /\ i \in FollowUps => \E l \in Answering : LinkBy(l, i),
         log' \in [Keys -> Rows], SentIsTrue', faults' \in 0..Faults
  PROVE  IInv'
<1>1. Typed'
  BY DEF IInv, Typed
<1>2. ASSUME NEW i \in Jobs, Knows(i, job'[i]) PROVE Knows(i, job[i])'
  BY <1>2 DEF Knows, LinkBy, Unsent
<1>3. ASSUME NEW i \in Jobs \ {j} PROVE Placed(i, job'[i]) /\ Knows(i, job'[i])
  <2>1. CASE job'[i] = job[i]
    BY <2>1 DEF IInv
  <2>2. CASE /\ job[i].state = "absent" /\ job'[i] = [job[i] EXCEPT !.state = "waiting"]
             /\ i \in FollowUps => \E l \in Answering : LinkBy(l, i)
    <3>1. /\ job[i] \in JobRecords /\ Placed(i, job[i]) /\ job[i].step = "read"
      BY <2>2 DEF IInv, Typed, Placed
    <3>2. /\ job'[i].state = "waiting" /\ job'[i].step = "read" /\ job'[i].at = job[i].at
          /\ job'[i].attempts = job[i].attempts /\ job'[i].form = job[i].form
          /\ job'[i].claimed = job[i].claimed /\ job'[i] \in JobRecords
      BY <2>2, <3>1 DEF JobRecords
    <3>3. job'[i].claimed = FALSE
      BY <3>1, <3>2 DEF Placed, JobRecords
    <3>4. Placed(i, job'[i])
      BY <2>2, <3>1, <3>2, <3>3 DEF Placed
    <3> QED
      BY <2>2, <3>2, <3>3, <3>4 DEF Knows
  <2> QED
    BY <1>3, <2>1, <2>2
<1>4. \A i \in Jobs : Placed(i, job[i])' /\ Knows(i, job[i])'
  BY <1>2, <1>3 DEF Placed
<1>5. GateHolds' /\ FollowUpAfterLink' /\ \A x \in Sends : Told(x)'
  BY DEF IInv, GateHolds, FollowUpAfterLink, Told, LinkBy
<1> QED
  BY <1>1, <1>4, <1>5 DEF IInv

(* A step that may deliver what the job is about to send, on the claims    *)
(* and receipts of that job alone.                                         *)
LEMMA WorldStep ==
  ASSUME IInv, NEW j \in Jobs, UNCHANGED <<conf, follows, log>>,
         job' \in [Jobs -> JobRecords], \A i \in Jobs \ {j} : job'[i] = job[i],
         Placed(j, job'[j]), Knows(j, job[j])',
         claims' \subseteq Postbacks, claims' \ {j} = claims \ {j},
         receipt' \in [Sends -> {"none", "claimed", "answered"}],
         delivered' \in [Sends -> Nat],
         \A x \in Sends : x # This(j) => receipt'[x] = receipt[x] /\ delivered'[x] = delivered[x],
         \A x \in Sends : delivered'[x] >= delivered[x],
         delivered' # delivered => At(j, "send"),
         \A x \in Sends : x[1] = j => Told(x)',
         faults' \in 0..Faults
  PROVE  IInv'
<1>1. Typed'
  BY DEF IInv, Typed
<1>2. delivered \in [Sends -> Nat]
  BY DEF IInv, Typed
<1>3. \A i, a : LinkBy(i, a) => LinkBy(i, a)'
  BY <1>2, LinksStay
<1>4. ASSUME NEW i \in Jobs \ {j} PROVE Placed(i, job[i])' /\ Knows(i, job[i])'
  <2>1. Placed(i, job[i]) /\ Knows(i, job[i]) /\ job'[i] = job[i]
    BY DEF IInv
  <2>2. \A x \in Sends : x[1] = i => receipt'[x] = receipt[x] /\ delivered'[x] = delivered[x]
    BY DEF This
  <2>3. job[i].step \in {"thank", "record"} \/ job[i].claimed =>
          <<i, job[i].at, job[i].form>> \in Sends
    <3>1. job[i].step \in {"thank", "record"} => MaySend(i, job[i].form)
      BY <2>1, PaidAreSent DEF Placed
    <3>2. job[i].claimed => MaySend(i, job[i].form)
      BY <2>1 DEF Placed
    <3>3. job[i].at \in Campaigns
      BY <2>1 DEF Placed, JobRecords
    <3> QED
      BY <2>1, <3>1, <3>2, <3>3, SendIn DEF Placed
  <2>4. Unsent(i) => Unsent(i)'
    BY <2>2 DEF Unsent
  <2>5. i \in claims => i \in claims'
    OBVIOUS
  <2>6. Placed(i, job[i])'
    BY <2>1 DEF Placed
  <2> QED
    BY <1>3, <2>1, <2>2, <2>3, <2>4, <2>5, <2>6 DEF Knows
<1>5. Placed(j, job[j])'
  BY DEF Placed
<1>6. ASSUME NEW x \in Sends PROVE Told(x)'
  <2>1. CASE x[1] = j
    BY <2>1
  <2>2. CASE x[1] # j
    <3>1. receipt'[x] = receipt[x] /\ delivered'[x] = delivered[x]
      BY <2>2 DEF This
    <3>2. Told(x) /\ (x[1] \in claims <=> x[1] \in claims')
      BY <2>2 DEF IInv
    <3> QED
      BY <3>1, <3>2 DEF Told
  <2> QED
    BY <2>1, <2>2
<1>7. SentIsTrue'
  <2>1. SentIsTrue
    BY DEF IInv
  <2>2. ASSUME NEW k \in Keys, k[1] # "reveal", delivered[<<k[1], k[2], "prompt">>] > 0
        PROVE  delivered'[<<k[1], k[2], "prompt">>] > 0
    <3>1. <<k[1], k[2], "prompt">> \in Sends
      BY <2>2 DEF Keys, Sends
    <3> QED
      BY <1>2, <2>2, <3>1
  <2> QED
    BY <1>3, <2>1, <2>2 DEF SentIsTrue
<1>8. GateHolds'
  <2> SUFFICES ASSUME conf.gated, ~follows, NEW i \in Answering, NEW a \in Campaigns, LinkBy(i, a)'
               PROVE  ~conf.verifiable /\ (i \in Postbacks \/ conf.provider = "ZERNIO")
    BY DEF GateHolds, Answering
  <2>1. CASE LinkBy(i, a)
    BY <2>1 DEF IInv, GateHolds, Answering
  <2>2. CASE ~LinkBy(i, a)
    <3>1. PICK form \in {"link", "text"} :
            <<i, a, form>> \in Sends /\ delivered'[<<i, a, form>>] # delivered[<<i, a, form>>]
      BY <2>2 DEF LinkBy
    <3>2. <<i, a, form>> = This(j) /\ At(j, "send")
      BY <3>1
    <3>3. i = j /\ job[j].form = form /\ job[j].step = "send"
      BY <3>2 DEF This, At
    <3> QED
      BY <3>3 DEF IInv, Knows
  <2> QED
    BY <2>1, <2>2
<1>9. FollowUpAfterLink'
  <2> SUFFICES ASSUME NEW a \in FollowUps, delivered'[<<a, a, "thanks">>] > 0
               PROVE  \E i \in Answering : LinkBy(i, a)
    BY <1>3 DEF FollowUpAfterLink, Answering
  <2>1. CASE delivered[<<a, a, "thanks">>] > 0
    BY <2>1 DEF IInv, FollowUpAfterLink, Answering
  <2>2. CASE ~(delivered[<<a, a, "thanks">>] > 0)
    <3>1. <<a, a, "thanks">> \in Sends
      BY DEF Sends
    <3>2. <<a, a, "thanks">> = This(j) /\ At(j, "send")
      BY <2>2, <3>1
    <3>3. a = j /\ job[j].state = "active"
      BY <3>2 DEF This, At
    <3> QED
      BY <3>3 DEF IInv, Knows
  <2> QED
    BY <2>1, <2>2
<1> QED
  BY <1>1, <1>4, <1>5, <1>6, <1>7, <1>8, <1>9 DEF IInv

(* The job moves on and the rest stays.                                    *)
LEMMA Moved ==
  ASSUME IInv, NEW j \in Jobs, UNCHANGED <<conf, follows, log, claims, receipt, delivered>>,
         NEW q, Placed(j, q), Knows(j, q), job' = [job EXCEPT ![j] = q], faults' \in 0..Faults
  PROVE  IInv'
<1>1. job \in [Jobs -> JobRecords] /\ q \in JobRecords
  BY DEF IInv, Typed, Placed
<1>2. /\ job' \in [Jobs -> JobRecords] /\ job'[j] = q
      /\ \A i \in Jobs \ {j} : job'[i] = job[i]
  BY <1>1
<1>3. log' \in [Keys -> Rows] /\ SentIsTrue'
  BY DEF IInv, Typed, SentIsTrue, LinkBy
<1> QED
  BY <1>2, <1>3, QuietStep

(* The job writes its row and comes to a place where it knows nothing.     *)
LEMMA Noted ==
  ASSUME IInv, NEW j \in Jobs, UNCHANGED <<conf, follows, claims, receipt, delivered>>,
         NEW row \in Rows, log' = [log EXCEPT ![Key(j)] = row],
         row.status = "SENT" => job[j].step = "record",
         NEW q, Placed(j, q), Knows(j, q), job' = [job EXCEPT ![j] = q], faults' \in 0..Faults
  PROVE  IInv'
<1>1. job \in [Jobs -> JobRecords] /\ q \in JobRecords /\ log \in [Keys -> Rows] /\ Key(j) \in Keys
  BY KeyIs DEF IInv, Typed, Placed
<1>2. /\ job' \in [Jobs -> JobRecords] /\ job'[j] = q
      /\ \A i \in Jobs \ {j} : job'[i] = job[i]
  BY <1>1
<1>3. log' \in [Keys -> Rows] /\ \A k \in Keys : log'[k] = IF k = Key(j) THEN row ELSE log[k]
  BY <1>1
<1>4. SentIsTrue'
  <2> SUFFICES ASSUME NEW k \in Keys, log'[k].status = "SENT"
               PROVE  IF k[1] = "reveal" THEN \E i \in Postbacks : LinkBy(i, 1)
                      ELSE LinkBy(k[1], k[2]) \/ delivered[<<k[1], k[2], "prompt">>] > 0
    BY DEF SentIsTrue, LinkBy
  <2>1. CASE k # Key(j)
    BY <1>3, <2>1 DEF IInv, SentIsTrue
  <2>2. CASE k = Key(j)
    <3>1. job[j].step = "record"
      BY <1>3, <2>2
    <3>2. /\ delivered[<<j, job[j].at, job[j].form>>] > 0 /\ Paid(j, job[j].form)
          /\ j \in Postbacks => job[j].at = 1
          /\ job[j].at \in Campaigns /\ j \notin FollowUps
          /\ <<j, job[j].at, job[j].form>> \in Sends
      <4>1. Placed(j, job[j]) /\ Knows(j, job[j]) /\ job[j].at \in Campaigns
        BY <1>1 DEF IInv, JobRecords
      <4> QED
        BY <3>1, <4>1, PaidAreSent, SendIn DEF Placed, Knows
    <3>3. CASE j \in Messages
      <4>1. k[1] = j /\ k[2] = job[j].at /\ k[1] # "reveal"
        BY <2>2, <3>3, RevealAssumption DEF Key
      <4> QED
        BY <3>2, <4>1 DEF Paid, LinkForms, LinkBy
    <3>4. CASE j \notin Messages
      <4>1. k[1] = "reveal" /\ j \in Postbacks
        BY <2>2, <3>2, <3>4 DEF Key, Jobs
      <4> QED
        BY <3>2, <3>4, <4>1 DEF Paid, LinkForms, LinkBy
    <3> QED
      BY <3>3, <3>4
  <2> QED
    BY <2>1, <2>2
<1> QED
  BY <1>2, <1>3, <1>4, QuietStep

(* A status written on a row.                                              *)
LEMMA StatusIs ==
  ASSUME IInv, NEW j \in Jobs,
         NEW status \in {"none", "SENT", "FAILED", "SKIPPED_PLAN_LIMIT"}
  PROVE  /\ [Row(j) EXCEPT !.status = status] \in Rows
         /\ [Row(j) EXCEPT !.status = status].status = status
         /\ [log EXCEPT ![Key(j)].status = status]
              = [log EXCEPT ![Key(j)] = [Row(j) EXCEPT !.status = status]]
<1>1. Row(j) \in Rows
  BY KeyIs DEF IInv, Typed, Row
<1> QED
  BY <1>1 DEF Row, Rows

(* Three fields of one record are set in one assignment.                   *)
LEMMA GoSendIs ==
  ASSUME IInv, NEW j \in Jobs, NEW form, GoSend(j, form)
  PROVE  job' = [job EXCEPT ![j] =
                   [job[j] EXCEPT !.form = form, !.claimed = FALSE,
                      !.step = IF conf.provider = "ZERNIO" /\ j \in Postbacks
                               THEN "claim" ELSE "send"]]
BY DEF GoSend, IInv, Typed, JobRecords

(* A job under way, and the one next place.                                *)
LEMMA UnderWay ==
  ASSUME IInv, NEW j \in Jobs, Active(j)
  PROVE  /\ job[j] \in JobRecords /\ Placed(j, job[j]) /\ Knows(j, job[j])
         /\ job[j].state = "active" /\ job[j].attempts < MaxAttempts
         /\ job[j].step # "send" => job[j].claimed = FALSE
         /\ job \in [Jobs -> JobRecords]
BY DEF IInv, Typed, Placed, Active, JobRecords

(* A job leaves its campaign, and the rest stays.                          *)
LEMMA LeaveStep ==
  ASSUME IInv, NEW j \in Jobs, Active(j), Leave(j), faults' \in 0..Faults,
         UNCHANGED <<conf, follows, log, claims, receipt, delivered>>
  PROVE  IInv'
<1>1. Placed(j, Onward(j)) /\ Knows(j, Onward(j))
  BY OnwardIs, IdleKnows DEF Active
<1> QED
  BY <1>1, Moved DEF Leave

(* A job throws, and the rest stays.                                       *)
LEMMA ThrowStep ==
  ASSUME IInv, NEW j \in Jobs, Active(j), NEW err, Throw(j, err), faults' \in 0..Faults,
         UNCHANGED <<conf, follows, log, claims, receipt, delivered>>
  PROVE  IInv'
<1>1. Placed(j, Thrown(j, err)) /\ Knows(j, Thrown(j, err))
  BY ThrownIs, IdleKnows DEF Active
<1> QED
  BY <1>1, Moved DEF Throw

(* A job on its way to the send, with what it is to send.                  *)
LEMMA SendStepIs ==
  ASSUME IInv, NEW j \in Jobs, Active(j), job[j].step \in {"read", "gate", "usage"},
         NEW form \in {"prompt", "link", "thanks"}, MaySend(j, form), GoSend(j, form),
         form = "link" /\ conf.gated /\ ~follows =>
           ~conf.verifiable /\ (j \in Postbacks \/ conf.provider = "ZERNIO")
  PROVE  \E q : /\ Placed(j, q) /\ Knows(j, q) /\ job' = [job EXCEPT ![j] = q]
                /\ q.state = "active" /\ q.at = job[j].at /\ q.form = form
                /\ q.step \in {"claim", "send"}
<1> DEFINE step == IF conf.provider = "ZERNIO" /\ j \in Postbacks THEN "claim" ELSE "send"
           q == [job[j] EXCEPT !.form = form, !.claimed = FALSE, !.step = step]
<1>1. /\ job[j] \in JobRecords /\ Placed(j, job[j]) /\ Knows(j, job[j])
      /\ job[j].state = "active" /\ job[j].attempts < MaxAttempts
  BY UnderWay
<1>2. step \in {"claim", "send"} /\ (step = "claim" => j \in Postbacks)
      /\ (step = "send" => ~(conf.provider = "ZERNIO" /\ j \in Postbacks))
  OBVIOUS
<1>3. /\ q \in JobRecords /\ q.form = form /\ q.step = step /\ q.state = "active"
      /\ q.at = job[j].at /\ q.attempts = job[j].attempts /\ q.claimed = FALSE
  BY <1>1, <1>2 DEF JobRecords, Steps
<1>4. job' = [job EXCEPT ![j] = q]
  BY GoSendIs
<1> HIDE DEF step, q
<1>5. Placed(j, q)
  BY <1>1, <1>2, <1>3, Apart DEF Placed
<1>6. Knows(j, q)
  BY <1>1, <1>2, <1>3 DEF Knows
<1> QED
  BY <1>2, <1>3, <1>4, <1>5, <1>6

(* The worker takes the job up.                                            *)
LEMMA StartStep == ASSUME IInv, NEW j \in Jobs, Start(j) PROVE IInv'
<1> DEFINE q == [job[j] EXCEPT !.state = "active"]
<1>1. job[j] \in JobRecords /\ Placed(j, job[j]) /\ job[j].state = "waiting"
  BY DEF IInv, Start, Typed
<1>2. /\ q \in JobRecords /\ q.state = "active" /\ q.step = job[j].step /\ q.at = job[j].at
      /\ q.attempts = job[j].attempts /\ q.form = job[j].form /\ q.claimed = job[j].claimed
  BY <1>1 DEF JobRecords
<1>3. job' = [job EXCEPT ![j] = q]
  BY DEF Start
<1> HIDE DEF q
<1>4. Placed(j, q) /\ q.step = "read"
  BY <1>1, <1>2 DEF Placed
<1>5. Knows(j, q)
  BY <1>1, <1>4, IdleKnows
<1> QED
  BY <1>3, <1>4, <1>5, Moved DEF Start, IInv, Typed

(* The job goes on to a step at which it sends nothing.                    *)
LEMMA GoStep ==
  ASSUME IInv, NEW j \in Jobs, Active(j), job[j].step # "send",
         NEW step \in {"gate", "usage", "skip", "fail"}, Go(j, step), j \notin FollowUps,
         step = "gate" => job[j].form = "none",
         step = "usage" =>
           /\ job[j].form = "none"
           /\ conf.gated /\ ~follows =>
                ~conf.verifiable /\ (j \in Postbacks \/ conf.provider = "ZERNIO"),
         faults' \in 0..Faults, UNCHANGED <<conf, follows, log, claims, receipt, delivered>>
  PROVE  IInv'
<1> DEFINE q == [job[j] EXCEPT !.step = step]
<1>1. /\ job[j] \in JobRecords /\ Placed(j, job[j]) /\ job[j].state = "active"
      /\ job[j].attempts < MaxAttempts /\ job[j].claimed = FALSE
  BY UnderWay
<1>2. /\ q \in JobRecords /\ q.state = "active" /\ q.step = step /\ q.at = job[j].at
      /\ q.attempts = job[j].attempts /\ q.form = job[j].form /\ q.claimed = FALSE
  BY <1>1 DEF JobRecords, Steps
<1>3. job' = [job EXCEPT ![j] = q]
  BY DEF Go, IInv, Typed
<1> HIDE DEF q
<1>4. Placed(j, q)
  BY <1>1, <1>2 DEF Placed
<1>5. Knows(j, q)
  BY <1>1, <1>2 DEF Knows
<1> QED
  BY <1>3, <1>4, <1>5, Moved

(* It looks at its row and ends, or goes on to the gate, the counter or,   *)
(* as a follow-up, the send.                                               *)
LEMMA ReadLogStep == ASSUME IInv, NEW j \in Jobs, ReadLog(j) PROVE IInv'
<1>1. /\ Active(j) /\ job[j].step = "read" /\ faults' \in 0..Faults /\ job[j].form = "none"
      /\ UNCHANGED <<conf, follows, log, claims, receipt, delivered>>
  BY UnderWay DEF ReadLog, At, Active, IInv, Typed, Placed
<1>2. CASE Leave(j)
  BY <1>1, <1>2, LeaveStep
<1>3. CASE j \in FollowUps /\ GoSend(j, "thanks")
  <2>1. MaySend(j, "thanks")
    BY <1>3 DEF MaySend
  <2>2. PICK q : Placed(j, q) /\ Knows(j, q) /\ job' = [job EXCEPT ![j] = q]
    BY <1>1, <1>3, <2>1, SendStepIs
  <2> QED
    BY <1>1, <2>2, Moved
<1>4. CASE j \notin FollowUps /\ conf.gated /\ Go(j, "gate")
  BY <1>1, <1>4, GoStep
<1>5. CASE j \notin FollowUps /\ ~conf.gated /\ Go(j, "usage")
  BY <1>1, <1>5, GoStep
<1> QED
  BY <1>2, <1>3, <1>4, <1>5 DEF ReadLog

(* Who passes the gate follows, or nobody can tell; the others get the     *)
(* prompt, or nothing.                                                     *)
LEMMA GateStep == ASSUME IInv, NEW j \in Jobs, Gate(j) PROVE IInv'
<1>1. /\ Active(j) /\ job[j].step = "gate" /\ faults' \in 0..Faults /\ job[j].form = "none"
      /\ UNCHANGED <<conf, follows, log, claims, receipt, delivered>> /\ j \notin FollowUps
      /\ Placed(j, job[j]) /\ job[j] \in JobRecords /\ job[j].claimed = FALSE
      /\ job[j].attempts < MaxAttempts /\ job[j].state = "active"
  BY UnderWay DEF Gate, At, Active, IInv, Typed, Placed
<1>2. PICK answer \in Answers :
        IF ~Prompted(j, answer) THEN Go(j, "usage")
        ELSE IF j \in Reads THEN Leave(j)
        ELSE IF j \in Taps THEN GoSend(j, "prompt")
        ELSE job' = [job EXCEPT ![j].step = "usage", ![j].form = "prompt"]
  BY DEF Gate
<1>3. CASE ~Prompted(j, answer) /\ Go(j, "usage")
  <2>1. ~follows => answer \in {"false", "null"} /\ (answer = "null" => ~conf.verifiable)
    BY DEF Answers
  <2>2. ~follows => ~conf.verifiable /\ (j \in Postbacks \/ conf.provider = "ZERNIO")
    BY <1>1, <1>3, <2>1 DEF Prompted, Jobs
  <2> QED
    BY <1>1, <1>3, <2>2, GoStep
<1>4. CASE Leave(j)
  BY <1>1, <1>4, LeaveStep
<1>5. CASE j \in Taps \ Reads /\ GoSend(j, "prompt")
  <2>1. MaySend(j, "prompt")
    BY <1>1, <1>5 DEF MaySend
  <2>2. PICK q : Placed(j, q) /\ Knows(j, q) /\ job' = [job EXCEPT ![j] = q]
    BY <1>1, <1>5, <2>1, SendStepIs
  <2> QED
    BY <1>1, <2>2, Moved
<1>6. CASE /\ j \notin Reads /\ j \notin Taps
           /\ job' = [job EXCEPT ![j].step = "usage", ![j].form = "prompt"]
  <2> DEFINE q == [job[j] EXCEPT !.step = "usage", !.form = "prompt"]
  <2>1. /\ q \in JobRecords /\ q.state = "active" /\ q.step = "usage" /\ q.at = job[j].at
        /\ q.attempts = job[j].attempts /\ q.form = "prompt" /\ q.claimed = FALSE
    BY <1>1 DEF JobRecords, Steps
  <2>2. job' = [job EXCEPT ![j] = q]
    BY <1>6 DEF IInv, Typed, JobRecords
  <2>3. j \in Messages
    BY <1>1, <1>6 DEF Jobs, Postbacks
  <2> HIDE DEF q
  <2>4. Placed(j, q)
    BY <1>1, <2>1, <2>3, Apart DEF Placed
  <2>5. Knows(j, q)
    BY <1>1, <2>1 DEF Knows
  <2> QED
    BY <1>1, <2>2, <2>4, <2>5, Moved
<1> QED
  BY <1>2, <1>3, <1>4, <1>5, <1>6

(* A message of the month is reserved, or the plan is at its end.          *)
LEMMA ReserveUsageStep == ASSUME IInv, NEW j \in Jobs, ReserveUsage(j) PROVE IInv'
<1>1. /\ Active(j) /\ job[j].step = "usage" /\ faults' \in 0..Faults
      /\ UNCHANGED <<conf, follows, log, claims, receipt, delivered>> /\ j \notin FollowUps
      /\ Placed(j, job[j]) /\ Knows(j, job[j])
      /\ job[j].form = "none" \/ (job[j].form = "prompt" /\ j \in Messages)
  BY UnderWay DEF ReserveUsage, At, Active, IInv, Typed, Placed
<1> DEFINE form == IF job[j].form = "prompt" THEN "prompt" ELSE "link"
<1>2. CASE GoSend(j, form)
  <2>1. MaySend(j, form)
    BY <1>1, Apart DEF MaySend, LinkForms, Postbacks
  <2>2. form = "link" /\ conf.gated /\ ~follows =>
          ~conf.verifiable /\ (j \in Postbacks \/ conf.provider = "ZERNIO")
    BY <1>1 DEF Knows
  <2>3. form \in {"prompt", "link", "thanks"}
    OBVIOUS
  <2> HIDE DEF form
  <2>4. PICK q : Placed(j, q) /\ Knows(j, q) /\ job' = [job EXCEPT ![j] = q]
    BY <1>1, <1>2, <2>1, <2>2, <2>3, SendStepIs
  <2> QED
    BY <1>1, <2>4, Moved
<1>3. CASE Go(j, "skip")
  BY <1>1, <1>3, GoStep
<1> QED
  BY <1>2, <1>3 DEF ReserveUsage

(* A skipped row claims no delivery.                                       *)
LEMMA SkipStep == ASSUME IInv, NEW j \in Jobs, Skip(j) PROVE IInv'
<1>1. Active(j) /\ faults' \in 0..Faults
  BY DEF Skip, At, Active, IInv, Typed
<1>2. PICK row \in Rows : row.status = "SKIPPED_PLAN_LIMIT" /\ log' = [log EXCEPT ![Key(j)] = row]
  BY StatusIs DEF Skip
<1>3. Placed(j, Onward(j)) /\ Knows(j, Onward(j))
  BY <1>1, OnwardIs, IdleKnows DEF Active
<1> QED
  BY <1>1, <1>2, <1>3, Noted DEF Skip, Leave

(* What a job under way sends is one of the sends.                         *)
LEMMA ThisIs ==
  ASSUME IInv, NEW j \in Jobs, At(j, "send")
  PROVE  /\ This(j) \in Sends /\ This(j)[1] = j /\ Active(j) /\ MaySend(j, job[j].form)
         /\ receipt[This(j)] \in {"none", "claimed", "answered"} /\ delivered[This(j)] \in Nat
         /\ Told(This(j))
<1>1. /\ Active(j) /\ job[j].step = "send" /\ job[j] \in JobRecords /\ Placed(j, job[j])
      /\ job[j].at \in Campaigns
  BY UnderWay DEF At, Active, JobRecords
<1>2. This(j) \in Sends
  BY <1>1, SendIn DEF This, Placed
<1> QED
  BY <1>1, <1>2 DEF IInv, Typed, This, Placed

(* A send comes to an end, told or not.                                    *)
LEMMA LandStep ==
  ASSUME IInv, NEW j \in Jobs, At(j, "send"), NEW err \in {"none", "error", "lost", "unconfirmed"},
         Land(j, err), UNCHANGED <<conf, follows, log, claims>>,
         receipt' \in [Sends -> {"none", "claimed", "answered"}],
         delivered' \in [Sends -> Nat],
         \A x \in Sends : x # This(j) => receipt'[x] = receipt[x] /\ delivered'[x] = delivered[x],
         \A x \in Sends : delivered'[x] >= delivered[x],
         err = "none" => delivered'[This(j)] > 0,
         err = "error" => delivered' = delivered,
         NEW y, y = This(j), Told(y)', faults' \in 0..Faults
  PROVE  IInv'
<1>1. PICK q \in Landings(j, err) : job' = [job EXCEPT ![j] = q]
  BY DEF Land
<1>2. Active(j) /\ Knows(j, job[j]) /\ Placed(j, job[j]) /\ job[j].step = "send"
  BY UnderWay DEF At, Active
<1>3. /\ Placed(j, q) /\ Unclaimed(q)
      /\ q.step # "read" => q.at = job[j].at
      /\ q.step \in {"thank", "record", "unclaim", "release"} => q.form = job[j].form
      /\ q.step \in {"thank", "record"} => err = "none"
      /\ q.step = "unclaim" => err = "error" /\ conf.provider = "ZERNIO" /\ j \in Postbacks
      /\ q.step = "send" => job[j].form = "link" /\ q.form = "text" /\ conf.provider # "ZERNIO"
      /\ q.step \in {"read", "thank", "record", "unclaim", "release", "send"}
  BY LandingsAre
<1>4. /\ job' \in [Jobs -> JobRecords] /\ job'[j] = q /\ \A i \in Jobs \ {j} : job'[i] = job[i]
  BY <1>1, <1>3 DEF IInv, Typed, Placed
<1>5. ASSUME NEW x \in Sends, x[1] = j PROVE Told(x)'
  <2>1. CASE x # This(j)
    <3>1. Told(x) /\ receipt'[x] = receipt[x] /\ delivered'[x] = delivered[x]
      BY <2>1 DEF IInv
    <3> QED
      BY <3>1 DEF Told
  <2> QED
    BY <2>1
<1>6. Knows(j, job[j])'
  <2>1. j \in FollowUps => \E i \in Answering : LinkBy(i, j)'
    <3>1. j \in FollowUps => \E i \in Answering : LinkBy(i, j)
      BY <1>2 DEF Knows, Active
    <3> QED
      BY <3>1, LinksStay DEF IInv, Typed
  <2>2. q.step \in {"thank", "record"} => delivered'[<<j, q.at, q.form>>] > 0
    BY <1>3 DEF This
  <2>3. q.step = "unclaim" => j \in claims' /\ Unsent(j)'
    BY <1>2, <1>3 DEF Knows, Unsent
  <2>4. q.step = "send" /\ conf.gated /\ ~follows =>
          ~conf.verifiable /\ (j \in Postbacks \/ conf.provider = "ZERNIO")
    BY <1>2, <1>3 DEF Knows
  <2> QED
    BY <1>3, <1>4, <2>1, <2>2, <2>3, <2>4 DEF Knows, Unclaimed
<1>7. claims' \subseteq Postbacks
  BY DEF IInv, Typed
<1> QED
  BY <1>3, <1>4, <1>5, <1>6, <1>7, WorldStep

(* The first claim of a send that is free holds it alone; one that is      *)
(* answered was delivered, one in doubt ends the send.                     *)
LEMMA ClaimReceiptStep == ASSUME IInv, NEW j \in Jobs, ClaimReceipt(j) PROVE IInv'
<1>0. PICK x : x = This(j)
  OBVIOUS
<1>1. /\ At(j, "send") /\ conf.provider = "COMPOSIO" /\ faults' \in 0..Faults
      /\ UNCHANGED <<conf, follows, log, claims, delivered>>
  BY DEF ClaimReceipt, IInv, Typed
<1>2. /\ x \in Sends /\ x[1] = j /\ Active(j) /\ receipt[x] \in {"none", "claimed", "answered"}
      /\ Told(x) /\ delivered[x] \in Nat
  BY <1>0, <1>1, ThisIs
<1>3. /\ delivered \in [Sends -> Nat] /\ receipt \in [Sends -> {"none", "claimed", "answered"}]
      /\ claims \subseteq Postbacks
  BY DEF IInv, Typed
<1>4. \A y \in Sends : delivered'[y] >= delivered[y]
  BY <1>1, <1>3
<1>5. CASE receipt[x] = "none"
  <2> DEFINE q == [job[j] EXCEPT !.claimed = TRUE]
  <2>1. job' = [job EXCEPT ![j] = q] /\ receipt' = [receipt EXCEPT ![x] = "claimed"]
    BY <1>0, <1>5 DEF ClaimReceipt
  <2>2. /\ job[j] \in JobRecords /\ Placed(j, job[j]) /\ Knows(j, job[j]) /\ job[j].step = "send"
        /\ job \in [Jobs -> JobRecords]
    BY <1>1, <1>2, UnderWay DEF At
  <2>3. /\ q \in JobRecords /\ q.state = job[j].state /\ q.step = job[j].step /\ q.at = job[j].at
        /\ q.attempts = job[j].attempts /\ q.form = job[j].form /\ q.claimed = TRUE
    BY <2>2 DEF JobRecords
  <2> HIDE DEF q
  <2>4. Placed(j, q)
    BY <2>2, <2>3 DEF Placed
  <2>5. /\ job' \in [Jobs -> JobRecords] /\ job'[j] = q /\ \A i \in Jobs \ {j} : job'[i] = job[i]
    BY <2>1, <2>2, <2>3
  <2>6. delivered[x] = 0
    BY <1>1, <1>2, <1>5 DEF Told
  <2>7. /\ receipt' \in [Sends -> {"none", "claimed", "answered"}] /\ receipt'[x] = "claimed"
        /\ \A y \in Sends : y # x => receipt'[y] = receipt[y]
    BY <1>2, <1>3, <2>1
  <2>8. Knows(j, job[j])'
    <3>1. j \in FollowUps => \E i \in Answering : LinkBy(i, j)'
      <4>1. j \in FollowUps => \E i \in Answering : LinkBy(i, j)
        BY <1>2, <2>2 DEF Knows, Active
      <4> QED
        BY <1>1, <4>1 DEF LinkBy
    <3>2. receipt'[<<j, q.at, q.form>>] = "claimed" /\ delivered'[<<j, q.at, q.form>>] = 0
      BY <1>0, <1>1, <2>3, <2>6, <2>7 DEF This
    <3>3. q.step = "send" /\ conf.provider = "COMPOSIO"
      BY <1>1, <2>2, <2>3
    <3>4. conf.gated /\ ~follows /\ q.form \in {"none", "link", "text"} =>
            ~conf.verifiable /\ (j \in Postbacks \/ conf.provider = "ZERNIO")
      BY <2>2, <2>3 DEF Knows
    <3> QED
      BY <1>1, <2>5, <3>1, <3>2, <3>3, <3>4 DEF Knows
  <2>9. ASSUME NEW y \in Sends, y[1] = j PROVE Told(y)'
    <3>1. Told(y)
      BY DEF IInv
    <3> QED
      BY <1>1, <2>6, <2>7, <3>1 DEF Told
  <2>10. \A y \in Sends : y # This(j) => receipt'[y] = receipt[y] /\ delivered'[y] = delivered[y]
    BY <1>0, <1>1, <2>7
  <2> QED
    BY <1>1, <1>3, <1>4, <2>4, <2>5, <2>7, <2>8, <2>9, <2>10, WorldStep
<1>6. CASE receipt[x] # "none"
  <2>1. /\ receipt' = receipt
        /\ \/ receipt[x] = "answered" /\ Land(j, "none")
           \/ receipt[x] = "claimed" /\ Land(j, "unconfirmed")
    BY <1>0, <1>2, <1>6 DEF ClaimReceipt
  <2>2. Told(x)'
    BY <1>1, <1>2, <2>1 DEF Told
  <2>3. receipt[x] = "answered" => delivered'[x] > 0
    BY <1>1, <1>2 DEF Told
  <2>4. ASSUME NEW err \in {"none", "unconfirmed"}, Land(j, err), err = "none" => receipt[x] = "answered"
        PROVE  IInv'
    BY <1>0, <1>1, <1>2, <1>3, <1>4, <2>1, <2>2, <2>3, <2>4, LandStep
  <2> QED
    BY <2>1, <2>4
<1> QED
  BY <1>5, <1>6

(* A send is told as answered only when it went out, with Composio under   *)
(* its receipt and with Zernio under the postback's claim.                 *)
LEMMA SendStep == ASSUME IInv, NEW j \in Jobs, Send(j) PROVE IInv'
<1>0. PICK x : x = This(j)
  OBVIOUS
<1>1. /\ At(j, "send") /\ (conf.provider = "COMPOSIO" => job[j].claimed)
      /\ faults' \in 0..Faults /\ UNCHANGED <<conf, follows, log, claims>>
  BY DEF Send, IInv, Typed
<1>2. /\ x \in Sends /\ x[1] = j /\ Active(j) /\ receipt[x] \in {"none", "claimed", "answered"}
      /\ Told(x) /\ delivered[x] \in Nat
  BY <1>0, <1>1, ThisIs
<1>3. /\ delivered \in [Sends -> Nat] /\ receipt \in [Sends -> {"none", "claimed", "answered"}]
      /\ Knows(j, job[j]) /\ job[j].step = "send" /\ conf.provider \in {"META", "COMPOSIO", "ZERNIO"}
  BY <1>1, <1>2, UnderWay, RevealAssumption DEF IInv, Typed, At
<1>4. CASE conf.provider = "ZERNIO" /\ receipt[x] = "answered"
  <2>1. Land(j, "none") /\ UNCHANGED <<receipt, delivered>>
    BY <1>0, <1>4 DEF Send
  <2>2. \A y \in Sends : delivered'[y] >= delivered[y]
    BY <1>3, <2>1
  <2>3. Told(x)' /\ delivered'[x] > 0
    BY <1>1, <1>2, <1>4, <2>1 DEF Told
  <2> QED
    BY <1>0, <1>1, <1>3, <2>1, <2>2, <2>3, LandStep
<1>5. CASE ~(conf.provider = "ZERNIO" /\ receipt[x] = "answered")
  <2>1. PICK o \in Outcomes :
          /\ delivered' = IF o.sent THEN [delivered EXCEPT ![x] = @ + 1] ELSE delivered
          /\ receipt' = [receipt EXCEPT ![x] = Settled(x, o)]
          /\ Land(j, o.err)
    BY <1>0, <1>5 DEF Send
  <2>2. PICK err \in {"none", "error", "lost", "unconfirmed"}, sent \in BOOLEAN :
          o = [sent |-> sent, err |-> err] /\ (err = "none" => sent) /\ (err = "error" => ~sent)
    BY DEF Outcomes
  <2>3. o.err = err /\ (o.sent <=> sent)
    BY <2>2
  <2>4. Settled(x, o) = IF conf.provider = "META" THEN "none"
                        ELSE IF err = "none" THEN "answered"
                        ELSE IF err = "error" THEN "none" ELSE receipt[x]
    BY <2>3 DEF Settled
  <2>5. Settled(x, o) \in {"none", "claimed", "answered"}
    BY <1>2, <2>4
  <2>6. /\ delivered' \in [Sends -> Nat]
        /\ delivered'[x] = IF sent THEN delivered[x] + 1 ELSE delivered[x]
        /\ \A y \in Sends : y # x => delivered'[y] = delivered[y]
        /\ ~sent => delivered' = delivered
    BY <1>2, <1>3, <2>1, <2>3
  <2>7. /\ receipt' \in [Sends -> {"none", "claimed", "answered"}]
        /\ receipt'[x] = Settled(x, o)
        /\ \A y \in Sends : y # x => receipt'[y] = receipt[y]
    BY <1>2, <1>3, <2>1, <2>5
  <2>8. \A y \in Sends : delivered'[y] >= delivered[y]
    BY <1>2, <1>3, <2>6
  <2>9. err = "none" => delivered'[x] > 0
    BY <1>2, <2>2, <2>6
  <2>10. Told(x)'
    <3>1. CASE conf.provider = "META"
      BY <1>1, <2>4, <2>7, <3>1 DEF Told
    <3>2. CASE conf.provider = "COMPOSIO"
      <4>1. delivered[x] = 0 /\ receipt[x] = "claimed"
        BY <1>0, <1>1, <1>3, <3>2 DEF Knows, This
      <4> QED
        BY <1>1, <2>2, <2>4, <2>6, <2>7, <3>2, <4>1 DEF Told
    <3>3. CASE conf.provider = "ZERNIO"
      <4>1. receipt'[x] = "answered" => delivered'[x] > 0
        BY <1>5, <2>4, <2>7, <2>9, <3>3
      <4>2. x[1] \in Postbacks => x[1] \in claims /\ delivered[x] = 0
        BY <1>2, <1>3, <3>3 DEF Knows, Unsent
      <4> QED
        BY <1>1, <2>6, <3>3, <4>1, <4>2 DEF Told
    <3> QED
      BY <1>3, <3>1, <3>2, <3>3
  <2>11. Land(j, err) /\ (err = "error" => delivered' = delivered)
    BY <2>1, <2>2, <2>3, <2>6
  <2> QED
    BY <1>0, <1>1, <2>6, <2>7, <2>8, <2>9, <2>10, <2>11, LandStep
<1> QED
  BY <1>4, <1>5

(* A job that undoes its reservation, or had none.                         *)
LEMMA UndoneIs ==
  ASSUME IInv, NEW j \in Jobs, Active(j), job[j].step \in {"claim", "unclaim", "thank", "record"},
         NEW e \in {"error", "duplicate"}
  PROVE  \E q : /\ q = IF Swallowed(j) THEN Completed(j) ELSE Undo(j, e)
                /\ Placed(j, q) /\ Knows(j, q)
                /\ IF Swallowed(j) THEN q.step = "read" /\ q.state = "completed" ELSE
                     /\ q.step = "release" /\ q.state = "active" /\ q.at = job[j].at
                     /\ q.form = job[j].form /\ Paid(j, q.form)
<1>1. /\ job[j] \in JobRecords /\ Placed(j, job[j]) /\ job[j].attempts < MaxAttempts
      /\ job[j].attempts \in 0..MaxAttempts /\ job[j].state = "active" /\ j \notin FollowUps
  BY UnderWay DEF Placed, JobRecords
<1>2. CASE Swallowed(j)
  <2>1. /\ Placed(j, Completed(j)) /\ Completed(j).step = "read"
        /\ Completed(j).state = "completed"
    BY <1>1, FreshIs DEF Completed
  <2> QED
    BY <1>2, <2>1, IdleKnows DEF Active
<1>3. CASE ~Swallowed(j)
  <2> DEFINE q == Undo(j, e)
  <2>1. /\ q \in JobRecords /\ q.step = "release" /\ q.state = "active" /\ q.at = job[j].at
        /\ q.form = job[j].form /\ q.attempts = job[j].attempts /\ q.claimed = FALSE
    BY <1>1 DEF JobRecords, Steps, Undo
  <2>2. Paid(j, job[j].form)
    BY <1>1, <1>3 DEF Placed, MaySend, Paid, Swallowed, Answering, Jobs, Postbacks
  <2> HIDE DEF q
  <2>3. Placed(j, q) /\ Knows(j, q)
    BY <1>1, <2>1, <2>2 DEF Placed, Knows
  <2> QED
    BY <1>3, <2>1, <2>2, <2>3 DEF q
<1> QED
  BY <1>2, <1>3

(* The claim is new, so nothing of this postback went out; or it is taken  *)
(* and the job gives up.                                                   *)
LEMMA ClaimTapStep == ASSUME IInv, NEW j \in Jobs, ClaimTap(j) PROVE IInv'
<1>1. /\ Active(j) /\ job[j].step = "claim" /\ faults' \in 0..Faults
      /\ UNCHANGED <<conf, follows, log, receipt, delivered>>
  BY DEF ClaimTap, At, Active, IInv, Typed
<1>2. /\ job[j] \in JobRecords /\ Placed(j, job[j]) /\ Knows(j, job[j]) /\ j \in Postbacks
      /\ job[j].claimed = FALSE /\ job \in [Jobs -> JobRecords] /\ claims \subseteq Postbacks
      /\ delivered \in [Sends -> Nat] /\ receipt \in [Sends -> {"none", "claimed", "answered"}]
  BY <1>1, UnderWay DEF Placed, IInv, Typed
<1>3. CASE j \notin claims
  <2>1. claims' = claims \union {j} /\ Go(j, "send")
    BY <1>3 DEF ClaimTap
  <2> DEFINE q == [job[j] EXCEPT !.step = "send"]
  <2>2. /\ q \in JobRecords /\ q.state = job[j].state /\ q.step = "send" /\ q.at = job[j].at
        /\ q.attempts = job[j].attempts /\ q.form = job[j].form /\ q.claimed = FALSE
    BY <1>2 DEF JobRecords, Steps
  <2>3. job' = [job EXCEPT ![j] = q]
    BY <2>1 DEF Go
  <2> HIDE DEF q
  <2>4. Placed(j, q)
    BY <1>1, <1>2, <2>2, Apart DEF Placed, Active
  <2>5. /\ job' \in [Jobs -> JobRecords] /\ job'[j] = q /\ \A i \in Jobs \ {j} : job'[i] = job[i]
    BY <1>2, <2>2, <2>3
  <2>6. conf.provider = "ZERNIO" => Unsent(j)
    BY <1>2, <1>3 DEF IInv, Told, Unsent
  <2>7. Knows(j, job[j])'
    BY <1>1, <1>2, <2>1, <2>2, <2>5, <2>6, Apart DEF Knows, Unsent
  <2>8. ASSUME NEW y \in Sends, y[1] = j PROVE Told(y)'
    <3>1. Told(y)
      BY DEF IInv
    <3> QED
      BY <1>1, <2>1, <2>8, <3>1 DEF Told
  <2>9. claims' \subseteq Postbacks /\ claims' \ {j} = claims \ {j}
    BY <1>2, <2>1
  <2>10. \A y \in Sends : delivered'[y] >= delivered[y]
    BY <1>1, <1>2
  <2> QED
    BY <1>1, <1>2, <2>4, <2>5, <2>7, <2>8, <2>9, <2>10, WorldStep
<1>4. CASE j \in claims
  <2>1. PICK q : /\ q = IF Swallowed(j) THEN Completed(j) ELSE Undo(j, "duplicate")
                 /\ Placed(j, q) /\ Knows(j, q)
    BY <1>1, UndoneIs
  <2> QED
    BY <1>1, <1>4, <2>1, Moved DEF ClaimTap
<1> QED
  BY <1>3, <1>4

(* The claim of a refused postback goes: nothing of it went out.           *)
LEMMA UnclaimStep == ASSUME IInv, NEW j \in Jobs, Unclaim(j) PROVE IInv'
<1>1. /\ Active(j) /\ job[j].step = "unclaim" /\ faults' \in 0..Faults
      /\ UNCHANGED <<conf, follows, log, receipt, delivered>> /\ claims' = claims \ {j}
  BY DEF Unclaim, At, Active, IInv, Typed
<1>2. /\ Placed(j, job[j]) /\ Knows(j, job[j]) /\ j \in Postbacks
      /\ job \in [Jobs -> JobRecords] /\ claims \subseteq Postbacks
      /\ delivered \in [Sends -> Nat] /\ receipt \in [Sends -> {"none", "claimed", "answered"}]
  BY <1>1, UnderWay DEF Placed, IInv, Typed
<1>3. PICK q : /\ q = IF Swallowed(j) THEN Completed(j) ELSE Undo(j, "error")
               /\ Placed(j, q) /\ Knows(j, q) /\ q.step \in {"read", "release"}
  BY <1>1, UndoneIs
<1>4. job' = [job EXCEPT ![j] = q]
  BY <1>3 DEF Unclaim
<1>5. /\ job' \in [Jobs -> JobRecords] /\ job'[j] = q /\ \A i \in Jobs \ {j} : job'[i] = job[i]
  BY <1>2, <1>3, <1>4 DEF Placed
<1>6. Knows(j, job[j])'
  BY <1>1, <1>2, <1>3, <1>5, Apart DEF Knows, Placed
<1>7. ASSUME NEW y \in Sends, y[1] = j PROVE Told(y)'
  <2>1. Told(y) /\ (conf.provider = "ZERNIO" => delivered[y] = 0)
    BY <1>1, <1>2, <1>7 DEF IInv, Knows, Unsent
  <2> QED
    BY <1>1, <1>7, <2>1 DEF Told
<1>8. claims' \subseteq Postbacks /\ claims' \ {j} = claims \ {j}
  BY <1>1, <1>2
<1>9. \A y \in Sends : delivered'[y] >= delivered[y]
  BY <1>1, <1>2
<1> QED
  BY <1>1, <1>2, <1>3, <1>5, <1>6, <1>7, <1>8, <1>9, WorldStep

(* What noting a link does to the queue.                                   *)
LEMMA ThankIs ==
  ASSUME IInv, NEW j \in Jobs, Thank(j)
  PROVE  LET a == job[j].at IN
         /\ a \in FollowUps /\ a # j /\ a \in Jobs
         /\ job' \in [Jobs -> JobRecords]
         /\ job'[j] = [job[j] EXCEPT !.step = "record"]
         /\ job'[a] = IF job[a].state = "absent" THEN [job[a] EXCEPT !.state = "waiting"]
                      ELSE job[a]
         /\ \A i \in Jobs \ {j, a} : job'[i] = job[i]
         /\ LinkBy(j, a) /\ j \in Answering
<1> DEFINE a == job[j].at
           q == [job[j] EXCEPT !.step = "record"]
           r == [job[a] EXCEPT !.state = IF @ = "absent" THEN "waiting" ELSE @]
<1>1. /\ Active(j) /\ job[j].step = "thank" /\ Placed(j, job[j]) /\ Knows(j, job[j])
      /\ job[j] \in JobRecords /\ job \in [Jobs -> JobRecords]
  BY UnderWay DEF Thank, At, Active
<1>2. /\ a \in FollowUps /\ a \in Jobs /\ j \in Answering /\ j \notin FollowUps /\ a # j
      /\ job[a] \in JobRecords
  BY <1>1, PaidAreSent DEF JobRecords, FollowUps, Jobs, Placed, Paid
<1>3. q \in JobRecords /\ r \in JobRecords
  BY <1>1, <1>2 DEF JobRecords, Steps
<1>4. r = IF job[a].state = "absent" THEN [job[a] EXCEPT !.state = "waiting"] ELSE job[a]
  BY <1>2 DEF JobRecords
<1>5. job' = [job EXCEPT ![j] = q, ![a] = r]
  BY <1>1, <1>2 DEF Thank
<1> HIDE DEF q, r
<1>6. /\ job' \in [Jobs -> JobRecords] /\ job'[j] = q /\ job'[a] = r
      /\ \A i \in Jobs \ {j, a} : job'[i] = job[i]
  BY <1>1, <1>2, <1>3, <1>5
<1>7. LinkBy(j, a)
  <2>1. <<j, a, job[j].form>> \in Sends
    BY <1>1, <1>2, SendIn, PaidAreSent DEF Placed, FollowUps
  <2> QED
    BY <1>1, <2>1 DEF LinkBy, Knows, Placed, LinkForms
<1> QED
  BY <1>2, <1>4, <1>6, <1>7 DEF q

(* The follow-up that is queued follows a link that went out.              *)
LEMMA ThankStep == ASSUME IInv, NEW j \in Jobs, Thank(j) PROVE IInv'
<1>1. PICK a : a = job[j].at
  OBVIOUS
<1>2. /\ a \in FollowUps /\ a # j /\ job' \in [Jobs -> JobRecords]
      /\ job'[j] = [job[j] EXCEPT !.step = "record"]
      /\ job'[a] = IF job[a].state = "absent" THEN [job[a] EXCEPT !.state = "waiting"]
                   ELSE job[a]
      /\ \A i \in Jobs \ {j, a} : job'[i] = job[i]
      /\ LinkBy(j, a) /\ j \in Answering
  BY <1>1, ThankIs
<1>3. /\ Active(j) /\ job[j].step = "thank" /\ Placed(j, job[j]) /\ Knows(j, job[j])
      /\ job[j] \in JobRecords /\ job[j].claimed = FALSE
      /\ faults' \in 0..Faults /\ UNCHANGED <<conf, follows, log, claims, receipt, delivered>>
  BY UnderWay DEF Thank, At, Active, IInv, Typed
<1> DEFINE q == [job[j] EXCEPT !.step = "record"]
<1>4. /\ q \in JobRecords /\ q.state = job[j].state /\ q.step = "record" /\ q.at = job[j].at
      /\ q.attempts = job[j].attempts /\ q.form = job[j].form /\ q.claimed = FALSE
  BY <1>3 DEF JobRecords, Steps
<1>5. Placed(j, q) /\ Knows(j, q)
  <2> HIDE DEF q
  <2>1. j \notin FollowUps
    BY <1>2, Apart DEF Answering
  <2> QED
    BY <1>3, <1>4, <2>1 DEF Placed, Knows, Active
<1>6. Placed(j, job'[j]) /\ Knows(j, job'[j])
  BY <1>2, <1>5
<1>7. \A i \in Jobs \ {j} : job'[i] = job[i] \/
        /\ job[i].state = "absent" /\ job'[i] = [job[i] EXCEPT !.state = "waiting"]
        /\ i \in FollowUps => \E l \in Answering : LinkBy(l, i)
  BY <1>2
<1>8. log' \in [Keys -> Rows] /\ SentIsTrue'
  BY <1>3 DEF IInv, Typed, SentIsTrue, LinkBy
<1> QED
  BY <1>2, <1>3, <1>6, <1>7, <1>8, QuietStep

(* A row that says SENT is about an answer that went out: the job knew it. *)
LEMMA RecordSentStep == ASSUME IInv, NEW j \in Jobs, RecordSent(j) PROVE IInv'
<1>1. Active(j) /\ job[j].step = "record" /\ faults' \in 0..Faults
  BY DEF RecordSent, At, Active, IInv, Typed
<1>2. PICK row \in Rows : log' = [log EXCEPT ![Key(j)] = row]
  BY StatusIs DEF RecordSent
<1>3. Placed(j, Onward(j)) /\ Knows(j, Onward(j))
  BY <1>1, OnwardIs, IdleKnows DEF Active
<1> QED
  BY <1>1, <1>2, <1>3, Noted DEF RecordSent, Leave

(* The reservation goes back, and the job ends or fails.                   *)
LEMMA ReleaseStep == ASSUME IInv, NEW j \in Jobs, Release(j) PROVE IInv'
<1>1. /\ Active(j) /\ job[j].step = "release" /\ faults' \in 0..Faults
      /\ UNCHANGED <<conf, follows, log, claims, receipt, delivered>> /\ j \notin FollowUps
      /\ Leave(j) \/ Go(j, "fail")
  BY UnderWay DEF Release, At, Active, IInv, Typed, Placed
<1> QED
  BY <1>1, LeaveStep, GoStep

(* The row is FAILED and the error thrown.                                 *)
LEMMA FailStep == ASSUME IInv, NEW j \in Jobs, Fail(j) PROVE IInv'
<1> DEFINE row == [status |-> "FAILED", unconfirmed |-> job[j].err = "unconfirmed"]
<1>1. Active(j) /\ faults' \in 0..Faults /\ log' = [log EXCEPT ![Key(j)] = row]
  BY DEF Fail, At, Active, IInv, Typed
<1>2. row \in Rows /\ row.status = "FAILED"
  BY DEF Rows
<1> HIDE DEF row
<1>3. Placed(j, Thrown(j, job[j].err)) /\ Knows(j, Thrown(j, job[j].err))
  BY <1>1, ThrownIs, IdleKnows DEF Active
<1> QED
  BY <1>1, <1>2, <1>3, Noted DEF Fail, Throw

-----------------------------------------------------------------------------
(* Faults, and the user who starts to follow.                              *)

(* Faults stay within their bound.                                         *)
LEMMA FaultCounted == Typed /\ Faulty => faults' \in 0..Faults
BY RevealAssumption DEF Typed, Faulty

(* Without a context nothing is sent; a message's row is FAILED.           *)
LEMMA NoContextStep == ASSUME IInv, NEW j \in Jobs, NoContext(j) PROVE IInv'
<1>1. /\ Active(j) /\ job[j].step = "read" /\ faults' \in 0..Faults /\ Leave(j)
      /\ UNCHANGED <<conf, follows, claims, receipt, delivered>>
  BY FaultCounted DEF NoContext, At, Active, IInv, Faulty
<1>2. CASE log' = log
  BY <1>1, <1>2, LeaveStep
<1>3. CASE log' = [log EXCEPT ![Key(j)].status = "FAILED"]
  <2>1. PICK row \in Rows : row.status = "FAILED" /\ log' = [log EXCEPT ![Key(j)] = row]
    BY <1>3, StatusIs
  <2>2. Placed(j, Onward(j)) /\ Knows(j, Onward(j))
    BY <1>1, OnwardIs, IdleKnows DEF Active
  <2> QED
    BY <1>1, <2>1, <2>2, Noted DEF Leave
<1> QED
  BY <1>2, <1>3 DEF NoContext

(* A crash, with the request on the line: what goes out is told by the     *)
(* receipt or the claim it was sent under.                                 *)
LEMMA CrashStep == ASSUME IInv, NEW j \in Jobs, Crash(j) PROVE IInv'
<1>1. PICK q : q = Fresh(j, "waiting", job[j].attempts)
  OBVIOUS
<1>2. /\ Active(j) /\ faults' \in 0..Faults /\ job' = [job EXCEPT ![j] = q]
      /\ UNCHANGED <<conf, follows, log, claims>>
  BY <1>1, FaultCounted DEF Crash, Active, IInv
<1>3. Placed(j, q) /\ q.step = "read"
  <2>1. job[j].attempts \in 0..MaxAttempts /\ job[j].attempts < MaxAttempts
    BY <1>2, UnderWay DEF JobRecords
  <2> QED
    BY <1>1, <2>1, FreshIs
<1>4. Knows(j, q)
  BY <1>2, <1>3, IdleKnows DEF Active
<1>5. CASE UNCHANGED <<receipt, delivered>>
  BY <1>2, <1>3, <1>4, <1>5, Moved
<1>6. CASE /\ At(j, "send") /\ (conf.provider = "COMPOSIO" => job[j].claimed)
           /\ receipt[This(j)] # "answered"
           /\ delivered' = [delivered EXCEPT ![This(j)] = @ + 1]
           /\ receipt' = IF conf.provider = "ZERNIO"
                         THEN [receipt EXCEPT ![This(j)] = "answered"] ELSE receipt
  <2>0. PICK x : x = This(j)
    OBVIOUS
  <2>1. /\ x \in Sends /\ x[1] = j /\ receipt[x] \in {"none", "claimed", "answered"}
        /\ Told(x) /\ delivered[x] \in Nat
    BY <1>6, <2>0, ThisIs
  <2>2. /\ delivered \in [Sends -> Nat] /\ receipt \in [Sends -> {"none", "claimed", "answered"}]
        /\ Knows(j, job[j]) /\ job[j].step = "send" /\ claims \subseteq Postbacks
        /\ job \in [Jobs -> JobRecords]
    BY <1>2, <1>6, UnderWay DEF IInv, Typed, At
  <2>3. /\ delivered' \in [Sends -> Nat] /\ delivered'[x] = delivered[x] + 1
        /\ \A y \in Sends : y # x => delivered'[y] = delivered[y]
    BY <1>6, <2>0, <2>1, <2>2
  <2>4. /\ receipt' \in [Sends -> {"none", "claimed", "answered"}]
        /\ receipt'[x] = IF conf.provider = "ZERNIO" THEN "answered" ELSE receipt[x]
        /\ \A y \in Sends : y # x => receipt'[y] = receipt[y]
    BY <1>6, <2>0, <2>1, <2>2
  <2>5. \A y \in Sends : delivered'[y] >= delivered[y]
    BY <2>1, <2>2, <2>3
  <2>6. Told(x)'
    <3>1. conf.provider = "COMPOSIO" => delivered[x] = 0 /\ receipt[x] = "claimed"
      BY <1>6, <2>0, <2>2 DEF Knows, This
    <3>2. conf.provider = "ZERNIO" /\ x[1] \in Postbacks => x[1] \in claims /\ delivered[x] = 0
      BY <2>1, <2>2 DEF Knows, Unsent
    <3> QED
      BY <1>2, <1>6, <2>0, <2>1, <2>3, <2>4, <3>1, <3>2 DEF Told
  <2>7. ASSUME NEW y \in Sends, y[1] = j PROVE Told(y)'
    <3>1. CASE y = x
      BY <2>6, <3>1
    <3>2. CASE y # x
      <4>1. Told(y) /\ receipt'[y] = receipt[y] /\ delivered'[y] = delivered[y]
        BY <2>3, <2>4, <3>2 DEF IInv
      <4> QED
        BY <1>2, <4>1 DEF Told
    <3> QED
      BY <3>1, <3>2
  <2>8. /\ job' \in [Jobs -> JobRecords] /\ job'[j] = q /\ \A i \in Jobs \ {j} : job'[i] = job[i]
    BY <1>2, <1>3, <2>2 DEF Placed
  <2>9. Knows(j, job[j])'
    <3>1. j \in FollowUps => \E i \in Answering : LinkBy(i, j)'
      <4>1. j \in FollowUps => \E i \in Answering : LinkBy(i, j)
        BY <1>2, <2>2 DEF Knows, Active
      <4> QED
        BY <2>2, <2>3, <2>5, <4>1, LinksStay
    <3>2. q.claimed = FALSE
      BY <1>3 DEF Placed, JobRecords
    <3> QED
      BY <1>3, <2>8, <3>1, <3>2 DEF Knows
  <2> QED
    BY <1>2, <1>3, <1>6, <2>0, <2>2, <2>3, <2>4, <2>5, <2>7, <2>8, <2>9, WorldStep
<1> QED
  BY <1>5, <1>6 DEF Crash

(* A failing statement delivers nothing.                                   *)
LEMMA StatementFailsStep == ASSUME IInv, NEW j \in Jobs, StatementFails(j) PROVE IInv'
<1>1. /\ Active(j) /\ faults' \in 0..Faults
      /\ UNCHANGED <<conf, follows, log, claims, receipt, delivered>>
  BY FaultCounted DEF StatementFails, Active, IInv
<1>2. CASE At(j, "send")
  <2>0. PICK x : x = This(j)
    OBVIOUS
  <2>1. Land(j, "error")
    BY <1>2 DEF StatementFails, At
  <2>2. Told(x)'
    <3>1. Told(x)
      BY <1>2, <2>0, ThisIs
    <3> QED
      BY <1>1, <3>1 DEF Told
  <2>3. /\ delivered \in [Sends -> Nat] /\ receipt \in [Sends -> {"none", "claimed", "answered"}]
    BY DEF IInv, Typed
  <2>4. \A y \in Sends : delivered'[y] >= delivered[y]
    BY <1>1, <2>3
  <2> QED
    BY <1>1, <1>2, <2>0, <2>1, <2>2, <2>3, <2>4, LandStep
<1>3. CASE job[j].step \in {"claim", "unclaim", "thank", "record"}
  <2>1. PICK q : /\ q = IF Swallowed(j) THEN Completed(j) ELSE Undo(j, "error")
                 /\ Placed(j, q) /\ Knows(j, q)
    BY <1>1, <1>3, UndoneIs
  <2>2. job' = [job EXCEPT ![j] = q]
    BY <1>3, <2>1 DEF StatementFails, At
  <2> QED
    BY <1>1, <2>1, <2>2, Moved
<1>4. CASE ~At(j, "send") /\ job[j].step \notin {"claim", "unclaim", "thank", "record"}
  <2>1. Throw(j, "error")
    BY <1>4 DEF StatementFails
  <2> QED
    BY <1>1, <2>1, ThrowStep
<1> QED
  BY <1>2, <1>3, <1>4

(* The queue forgets a job that has ended.                                 *)
LEMMA EvictStep == ASSUME IInv, NEW j \in Jobs, Evict(j) PROVE IInv'
<1>1. PICK state \in {"absent", "waiting"}, q \in {Fresh(j, "absent", 0), Fresh(j, "waiting", 0)} :
        /\ q = Fresh(j, state, 0) /\ job' = [job EXCEPT ![j] = q]
        /\ state = IF j \in FollowUps THEN "absent" ELSE "waiting"
  BY DEF Evict
<1>2. faults' \in 0..Faults /\ UNCHANGED <<conf, follows, log, claims, receipt, delivered>>
  BY FaultCounted DEF Evict, IInv
<1>3. Placed(j, q) /\ q.step = "read" /\ q.state = state
  <2>1. 0 \in 0..MaxAttempts /\ 0 < MaxAttempts
    BY RevealAssumption
  <2> QED
    BY <1>1, <2>1, FreshIs
<1>4. q.claimed = FALSE
  BY <1>3 DEF Placed, JobRecords
<1>5. Knows(j, q)
  BY <1>1, <1>3, <1>4 DEF Knows
<1> QED
  BY <1>1, <1>2, <1>3, <1>5, Moved

(* A user who follows may have any link.                                   *)
LEMMA FollowStep == ASSUME IInv, Follow PROVE IInv'
<1>1. /\ follows' = TRUE /\ UNCHANGED <<conf, log, job, claims, receipt, delivered, faults>>
  BY DEF Follow
<1>2. Typed' /\ SentIsTrue' /\ FollowUpAfterLink' /\ \A x \in Sends : Told(x)'
  BY <1>1 DEF IInv, Typed, SentIsTrue, FollowUpAfterLink, LinkBy, Told
<1>3. GateHolds'
  BY <1>1 DEF GateHolds
<1>4. ASSUME NEW j \in Jobs PROVE Placed(j, job[j])' /\ Knows(j, job[j])'
  <2>1. Placed(j, job[j]) /\ Knows(j, job[j])
    BY DEF IInv
  <2> QED
    BY <1>1, <2>1 DEF Placed, Knows, LinkBy, Unsent
<1> QED
  BY <1>2, <1>3, <1>4 DEF IInv

(* Every step of a job, every fault and a new follower preserve the        *)
(* invariant.                                                              *)
LEMMA InvStep == IInv /\ [Next]_vars => IInv'
<1> SUFFICES ASSUME IInv, [Next]_vars PROVE IInv'
  OBVIOUS
<1>1. ASSUME NEW j \in Jobs, JobStep(j) PROVE IInv'
  BY <1>1, StartStep, ReadLogStep, GateStep, ReserveUsageStep, SkipStep, ClaimTapStep,
     ClaimReceiptStep, SendStep, UnclaimStep, ThankStep, RecordSentStep, ReleaseStep, FailStep
     DEF JobStep
<1>2. ASSUME NEW j \in Jobs, Fault(j) PROVE IInv'
  BY <1>2, NoContextStep, CrashStep, StatementFailsStep, EvictStep DEF Fault
<1>3. CASE UNCHANGED vars
  <2>1. UNCHANGED <<conf, follows, log, job, claims, receipt, delivered, faults>>
    BY <1>3 DEF vars
  <2>2. /\ Typed' /\ SentIsTrue' /\ GateHolds' /\ FollowUpAfterLink'
        /\ \A x \in Sends : Told(x)'
    BY <2>1 DEF IInv, Typed, SentIsTrue, GateHolds, FollowUpAfterLink, LinkBy, Told
  <2>3. ASSUME NEW j \in Jobs PROVE Placed(j, job[j])' /\ Knows(j, job[j])'
    <3>1. Placed(j, job[j]) /\ Knows(j, job[j])
      BY DEF IInv
    <3> QED
      BY <2>1, <3>1 DEF Placed, Knows, LinkBy, Unsent
  <2> QED
    BY <2>2, <2>3 DEF IInv
<1> QED
  BY <1>1, <1>2, <1>3, FollowStep DEF Next, Done

(* For any campaigns, taps, reads and messages, any provider and any       *)
(* number of faults, the inductive invariant holds: a job past its send    *)
(* knows that it was delivered, one past the gate that it may send the     *)
(* link, and receipts and claims tell what went out.                       *)
THEOREM Invariance == Spec => []IInv
<1> QED
  BY InitInv, InvStep, PTL DEF Spec

(* A row says SENT only after the user got the answer it is about          *)
(* (dm-worker.ts:992-1009 and 1325-1346 write it behind the send): no      *)
(* crash, lost answer, failed statement or second run of a job makes it    *)
(* claim a link that never went out.                                       *)
THEOREM SentRowsAreTrue == Spec => []SentIsTrue
<1>1. IInv => SentIsTrue
  BY DEF IInv
<1> QED
  BY <1>1, Invariance, PTL

(* A campaign that asks for a follow gives its link to nobody who is known *)
(* not to follow, by no tap, fallback or message, nor to somebody unknown  *)
(* by a message (dm-worker.ts:887-922, 1245-1255): the gate's answer still *)
(* holds at the send and at every copy of it that a retry or a text        *)
(* fallback makes.                                                         *)
THEOREM NoLinkBeforeTheGate == Spec => []GateHolds
<1>1. IInv => GateHolds
  BY DEF IInv
<1> QED
  BY <1>1, Invariance, PTL

(* The follow-up thanks only for a link that went out: it is queued behind *)
(* the delivery (dm-worker.ts:971-990) and nothing else makes it run,      *)
(* though the queue may forget it and a later answer queue it again.       *)
THEOREM ThanksFollowTheLink == Spec => []FollowUpAfterLink
<1>1. IInv => FollowUpAfterLink
  BY DEF IInv
<1> QED
  BY <1>1, Invariance, PTL

-----------------------------------------------------------------------------
(* What a step does to the counter and to the jobs that are through.       *)

(* The other jobs and rows: at most a follow-up is woken.                  *)
Steady(j) ==
  /\ conf' = conf
  /\ \A i \in Jobs \ {j} :
       job'[i] = job[i] \/ (i \in FollowUps /\ job[i].state = "absent" /\ job'[i].state = "waiting")
  /\ \A k \in Keys \ {Key(j)} : log'[k] = log[k]

(* The counter keeps up with what job j may still give back.               *)
Spends(j) ==
  /\ usage' \in Int
  /\ usage' - usage >= Held(j, job'[j], Spending) - Held(j, job[j], Spending)

(* A step that sends nothing: the counter moves with the reservation, and  *)
(* a campaign the job is through with stays so.                            *)
Kept(j) ==
  /\ delivered' = delivered
  /\ usage' - usage = Held(j, job'[j], Reserving) - Held(j, job[j], Reserving)
  /\ \A a \in Campaigns : Over(j, a) => Over(j, a)'
  /\ j \in Messages /\ job'[j].step # "read" => log'[<<j, job'[j].at>>].status # "SENT"

(* A step that sends.                                                      *)
Landed(j) ==
  /\ At(j, "send") /\ usage' = usage /\ log' = log
  /\ delivered' = [delivered EXCEPT ![This(j)] = @ + 1]
  /\ (\A a \in Campaigns : a = job[j].at => Over(j, a)') /\ Held(j, job'[j], Reserving) = 0
  /\ j \in Messages => job'[j].at = job[j].at

(* What a record holds, by its step and what it sends.                     *)
LEMMA HeldIs ==
  ASSUME NEW j, NEW q
  PROVE  /\ Held(j, q, Spending) \in {0, 1} /\ Held(j, q, Reserving) \in {0, 1}
         /\ q.step \notin Spending \/ q.state # "active" \/ ~Paid(j, q.form) =>
              Held(j, q, Spending) = 0 /\ Held(j, q, Reserving) = 0
         /\ q.step \in Reserving /\ q.state = "active" /\ Paid(j, q.form) =>
              Held(j, q, Spending) = 1 /\ Held(j, q, Reserving) = 1
         /\ q.step \in {"thank", "record"} => Held(j, q, Reserving) = 0
         /\ q.step \in {"thank", "record"} /\ q.state = "active" /\ Paid(j, q.form) =>
              Held(j, q, Spending) = 1
BY DEF Held, Spending, Reserving

(* A step that replaces one record, and one row at most, leaves the others *)
(* alone.                                                                  *)
LEMMA SteadyIs ==
  ASSUME IInv, NEW j \in Jobs, conf' = conf, NEW q \in JobRecords, job' = [job EXCEPT ![j] = q],
         log' = log \/ \E row : log' = [log EXCEPT ![Key(j)] = row]
  PROVE  Steady(j) /\ job'[j] = q
<1>1. job \in [Jobs -> JobRecords] /\ log \in [Keys -> Rows]
  BY DEF IInv, Typed
<1> QED
  BY <1>1 DEF Steady

(* A job that is not noting its answer keeps what is over.                 *)
LEMMA OverStays ==
  ASSUME IInv, Once, Reliable, NEW j \in Jobs, Active(j), job[j].step \notin {"thank", "record"},
         \/ log' = log
         \/ job[j].step # "read" /\ \E row : log' = [log EXCEPT ![Key(j)] = row],
         NEW a \in Campaigns, Over(j, a)
  PROVE  Over(j, a)'
<1>1. j \in Messages /\ log[<<j, a>>].status = "SENT"
  BY DEF Over, Active
<1>2. <<j, a>> \in Keys /\ log \in [Keys -> Rows]
  BY <1>1 DEF Keys, IInv, Typed
<1>3. CASE log' = log
  BY <1>1, <1>3 DEF Over
<1>4. CASE job[j].step # "read" /\ \E row : log' = [log EXCEPT ![Key(j)] = row]
  <2>1. job[j].at # a
    BY <1>1, <1>4 DEF Once
  <2>2. <<j, a>> # Key(j)
    BY <1>1, <2>1 DEF Key
  <2>3. log'[<<j, a>>] = log[<<j, a>>]
    BY <1>2, <1>4, <2>2
  <2> QED
    BY <1>1, <2>3 DEF Over
<1> QED
  BY <1>3, <1>4

(* A job that leaves a campaign, or throws, holds nothing.                 *)
LEMMA IdleCounts ==
  ASSUME IInv, NEW j \in Jobs, Active(j), conf' = conf,
         NEW q, Placed(j, q), q.step = "read", job' = [job EXCEPT ![j] = q],
         log' = log \/ \E row : log' = [log EXCEPT ![Key(j)] = row], usage \in Nat
  PROVE  /\ Steady(j) /\ job'[j] = q
         /\ usage' = usage => Spends(j)
         /\ /\ Once /\ Reliable /\ job[j].step \notin {"thank", "record"} /\ delivered' = delivered
            /\ log' = log \/ job[j].step # "read"
            /\ \/ usage' = usage /\ Held(j, job[j], Reserving) = 0
               \/ usage' = usage - 1 /\ Held(j, job[j], Reserving) = 1
            => Kept(j)
<1>1. Steady(j) /\ job'[j] = q
  BY SteadyIs DEF Placed
<1>2. Held(j, q, Spending) = 0 /\ Held(j, q, Reserving) = 0
  BY HeldIs DEF Spending, Reserving
<1>3. Held(j, job[j], Spending) \in {0, 1} /\ Held(j, job[j], Reserving) \in {0, 1}
  BY HeldIs
<1> QED
  BY <1>1, <1>2, <1>3, OverStays DEF Spends, Kept

(* All a step of a job does to the counter, unless it sends.               *)
Counts(j) == Steady(j) /\ Spends(j) /\ (Once /\ Reliable => Kept(j))

(* A step of a job under way that keeps its campaign.                      *)
LEMMA StayCounts ==
  ASSUME IInv, usage \in Nat, NEW j \in Jobs, Active(j), UNCHANGED <<conf, log, delivered>>,
         NEW q \in JobRecords, job' = [job EXCEPT ![j] = q],
         q.step # "read" => q.at = job[j].at, job[j].step \notin {"thank", "record"},
         j \in Messages /\ job[j].step = "read" => Row(j).status # "SENT",
         \/ usage' = usage /\ Held(j, q, Reserving) = Held(j, job[j], Reserving)
         \/ usage' = usage + 1 /\ Held(j, q, Reserving) = 1 /\ Held(j, job[j], Reserving) = 0
         \/ usage' = usage - 1 /\ Held(j, q, Reserving) = 0 /\ Held(j, job[j], Reserving) = 1,
         Held(j, q, Spending) = Held(j, q, Reserving)
  PROVE  Counts(j)
<1>1. Steady(j) /\ job'[j] = q
  BY SteadyIs
<1>2. /\ Held(j, q, Reserving) \in {0, 1} /\ Held(j, job[j], Reserving) \in {0, 1}
      /\ Held(j, job[j], Spending) = Held(j, job[j], Reserving)
  BY DEF Held, Spending, Reserving
<1>3. Spends(j)
  BY <1>1, <1>2 DEF Spends
<1>4. ASSUME Once, Reliable PROVE Kept(j)
  <2>1. j \in Messages => log[<<j, job[j].at>>].status # "SENT"
    BY <1>4 DEF Once, Row, Key
  <2>2. \A a \in Campaigns : Over(j, a) => Over(j, a)'
    BY <1>4, OverStays
  <2> QED
    BY <1>1, <1>2, <2>1, <2>2 DEF Kept
<1> QED
  BY <1>1, <1>3, <1>4 DEF Counts

(* The worker takes the job up: it holds nothing yet.                      *)
LEMMA StartCounts == ASSUME IInv, usage \in Nat, NEW j \in Jobs, Start(j) PROVE Counts(j)
<1> DEFINE q == [job[j] EXCEPT !.state = "active"]
<1>1. job[j] \in JobRecords /\ Placed(j, job[j]) /\ job[j].state = "waiting"
  BY DEF IInv, Start, Typed
<1>2. /\ q \in JobRecords /\ q.step = job[j].step
  BY <1>1 DEF JobRecords
<1>3. job' = [job EXCEPT ![j] = q] /\ UNCHANGED <<conf, log, usage, delivered>>
  BY DEF Start
<1> HIDE DEF q
<1>4. Steady(j) /\ job'[j] = q /\ q.step = "read" /\ job[j].step = "read"
  BY <1>1, <1>2, <1>3, SteadyIs DEF Placed
<1>5. /\ Held(j, q, Spending) = 0 /\ Held(j, q, Reserving) = 0
      /\ Held(j, job[j], Spending) = 0 /\ Held(j, job[j], Reserving) = 0
  BY <1>4, HeldIs DEF Spending, Reserving
<1>6. \A a \in Campaigns : Over(j, a) => Over(j, a)'
  BY <1>1, <1>3 DEF Over
<1> QED
  BY <1>3, <1>4, <1>5, <1>6 DEF Counts, Spends, Kept

(* A job leaves its campaign, with its reservation given back or none.     *)
LEMMA LeaveCounts ==
  ASSUME IInv, usage \in Nat, NEW j \in Jobs, Active(j), Leave(j), conf' = conf,
         \/ log' = log
         \/ job[j].step # "read" /\ \E row : log' = [log EXCEPT ![Key(j)] = row],
         UNCHANGED delivered, job[j].step \notin {"thank", "record"},
         \/ usage' = usage /\ Held(j, job[j], Reserving) = 0
         \/ usage' = usage - 1 /\ Held(j, job[j], Reserving) = 1
  PROVE  Counts(j)
<1>1. PICK q : q = Onward(j)
  OBVIOUS
<1>2. Placed(j, q) /\ q.step = "read" /\ job' = [job EXCEPT ![j] = q]
  BY <1>1, OnwardIs DEF Leave
<1>3. Held(j, job[j], Reserving) \in {0, 1} /\ Held(j, job[j], Spending) = Held(j, job[j], Reserving)
  BY DEF Held, Spending, Reserving
<1>4. Held(j, q, Spending) = 0 /\ Held(j, q, Reserving) = 0
  BY <1>2, HeldIs DEF Spending, Reserving
<1>5. Steady(j) /\ job'[j] = q /\ (Once /\ Reliable => Kept(j))
  BY <1>2, IdleCounts
<1>6. Spends(j)
  BY <1>3, <1>4, <1>5 DEF Spends
<1> QED
  BY <1>5, <1>6 DEF Counts

(* A message goes on only if its row does not say SENT.                    *)
LEMMA ReadLogCounts == ASSUME IInv, usage \in Nat, NEW j \in Jobs, ReadLog(j) PROVE Counts(j)
<1>1. /\ Active(j) /\ job[j].step = "read" /\ job[j].form = "none"
      /\ UNCHANGED <<conf, log, usage, delivered>> /\ job[j] \in JobRecords
      /\ Placed(j, job[j])
  BY UnderWay DEF ReadLog, At, Active, Placed
<1>2. Held(j, job[j], Reserving) = 0 /\ Held(j, job[j], Spending) = 0
  BY <1>1, HeldIs DEF Reserving, Spending
<1>3. CASE Leave(j)
  BY <1>1, <1>2, <1>3, LeaveCounts
<1>4. CASE ~AlreadyDone(j) /\ j \in FollowUps /\ GoSend(j, "thanks")
  <2>1. MaySend(j, "thanks")
    BY <1>4 DEF MaySend
  <2>2. PICK q : /\ Placed(j, q) /\ job' = [job EXCEPT ![j] = q]
                 /\ q.at = job[j].at /\ q.form = "thanks"
    BY <1>1, <1>4, <2>1, SendStepIs
  <2>3. Held(j, q, Reserving) = 0 /\ Held(j, q, Spending) = 0
    BY <2>2, HeldIs DEF Paid, LinkForms
  <2>4. j \notin Messages
    BY <1>4, Apart
  <2> QED
    BY <1>1, <1>2, <2>2, <2>3, <2>4, StayCounts DEF Placed
<1>5. ASSUME NEW step \in {"gate", "usage"}, ~AlreadyDone(j), Go(j, step) PROVE Counts(j)
  <2> DEFINE q == [job[j] EXCEPT !.step = step]
  <2>1. q \in JobRecords /\ q.step = step /\ q.at = job[j].at
    BY <1>1 DEF JobRecords, Steps
  <2>2. job' = [job EXCEPT ![j] = q]
    BY <1>5 DEF Go, IInv, Typed
  <2> HIDE DEF q
  <2>3. Held(j, q, Reserving) = 0 /\ Held(j, q, Spending) = 0
    BY <2>1, HeldIs DEF Reserving, Spending
  <2>4. j \in Messages => Row(j).status # "SENT"
    BY <1>5 DEF AlreadyDone
  <2> QED
    BY <1>1, <1>2, <2>1, <2>2, <2>3, <2>4, StayCounts
<1> QED
  BY <1>3, <1>4, <1>5 DEF ReadLog

(* A job at the gate holds nothing, and a tap's prompt is free.            *)
LEMMA GateCounts == ASSUME IInv, usage \in Nat, NEW j \in Jobs, Gate(j) PROVE Counts(j)
<1>1. /\ Active(j) /\ job[j].step = "gate" /\ j \notin FollowUps
      /\ UNCHANGED <<conf, log, usage, delivered>> /\ job[j] \in JobRecords
  BY UnderWay DEF Gate, At, Active, Placed
<1>2. Held(j, job[j], Reserving) = 0 /\ Held(j, job[j], Spending) = 0
  BY <1>1, HeldIs DEF Reserving, Spending
<1>3. CASE Leave(j)
  BY <1>1, <1>2, <1>3, LeaveCounts
<1>4. CASE j \in Taps \ Reads /\ GoSend(j, "prompt")
  <2>1. MaySend(j, "prompt")
    BY <1>1, <1>4 DEF MaySend
  <2>2. PICK q : /\ Placed(j, q) /\ job' = [job EXCEPT ![j] = q]
                 /\ q.at = job[j].at /\ q.form = "prompt"
    BY <1>1, <1>4, <2>1, SendStepIs
  <2>3. j \notin Messages
    BY <1>4, Apart DEF Postbacks
  <2>4. Held(j, q, Reserving) = 0 /\ Held(j, q, Spending) = 0
    BY <2>2, <2>3, HeldIs DEF Paid, LinkForms
  <2> QED
    BY <1>1, <1>2, <2>2, <2>3, <2>4, StayCounts DEF Placed
<1>5. ASSUME NEW q, q \in JobRecords, q.step = "usage", q.at = job[j].at, job' = [job EXCEPT ![j] = q]
      PROVE  Counts(j)
  <2>1. Held(j, q, Reserving) = 0 /\ Held(j, q, Spending) = 0
    BY <1>5, HeldIs DEF Reserving, Spending
  <2> QED
    BY <1>1, <1>2, <1>5, <2>1, StayCounts
<1>6. CASE Go(j, "usage")
  <2> DEFINE q == [job[j] EXCEPT !.step = "usage"]
  <2>1. q \in JobRecords /\ q.step = "usage" /\ q.at = job[j].at
    BY <1>1 DEF JobRecords, Steps
  <2>2. job' = [job EXCEPT ![j] = q]
    BY <1>6 DEF Go, IInv, Typed
  <2> HIDE DEF q
  <2> QED
    BY <1>5, <2>1, <2>2
<1>7. CASE job' = [job EXCEPT ![j].step = "usage", ![j].form = "prompt"]
  <2> DEFINE q == [job[j] EXCEPT !.step = "usage", !.form = "prompt"]
  <2>1. q \in JobRecords /\ q.step = "usage" /\ q.at = job[j].at
    BY <1>1 DEF JobRecords, Steps
  <2>2. job' = [job EXCEPT ![j] = q]
    BY <1>7 DEF IInv, Typed, JobRecords
  <2> HIDE DEF q
  <2> QED
    BY <1>5, <2>1, <2>2
<1> QED
  BY <1>3, <1>4, <1>6, <1>7 DEF Gate

(* One message of the month is counted, and the job holds it.              *)
LEMMA ReserveUsageCounts == ASSUME IInv, usage \in Nat, NEW j \in Jobs, ReserveUsage(j) PROVE Counts(j)
<1>1. /\ Active(j) /\ job[j].step = "usage" /\ j \notin FollowUps
      /\ UNCHANGED <<conf, log, delivered>> /\ job[j] \in JobRecords
      /\ Placed(j, job[j]) /\ Knows(j, job[j])
      /\ job[j].form = "none" \/ (job[j].form = "prompt" /\ j \in Messages)
  BY UnderWay DEF ReserveUsage, At, Active, Placed
<1>2. Held(j, job[j], Reserving) = 0 /\ Held(j, job[j], Spending) = 0
  BY <1>1, HeldIs DEF Reserving, Spending
<1> DEFINE form == IF job[j].form = "prompt" THEN "prompt" ELSE "link"
<1>3. CASE usage' = usage + 1 /\ GoSend(j, form)
  <2>1. MaySend(j, form) /\ Paid(j, form)
    BY <1>1, Apart DEF MaySend, Paid, LinkForms, Postbacks, Answering, Jobs
  <2>2. form = "link" /\ conf.gated /\ ~follows =>
          ~conf.verifiable /\ (j \in Postbacks \/ conf.provider = "ZERNIO")
    BY <1>1 DEF Knows
  <2>3. form \in {"prompt", "link", "thanks"}
    OBVIOUS
  <2> HIDE DEF form
  <2>4. PICK q : /\ Placed(j, q) /\ job' = [job EXCEPT ![j] = q]
                 /\ q.state = "active" /\ q.at = job[j].at /\ q.form = form
                 /\ q.step \in {"claim", "send"}
    BY <1>1, <1>3, <2>1, <2>2, <2>3, SendStepIs
  <2>5. Held(j, q, Reserving) = 1 /\ Held(j, q, Spending) = 1
    BY <2>1, <2>4, HeldIs DEF Reserving
  <2>6. q \in JobRecords
    BY <2>4 DEF Placed
  <2> QED
    BY <1>1, <1>2, <1>3, <2>4, <2>5, <2>6, StayCounts
<1>4. CASE Go(j, "skip") /\ usage' = usage
  <2> DEFINE q == [job[j] EXCEPT !.step = "skip"]
  <2>1. q \in JobRecords /\ q.step = "skip" /\ q.at = job[j].at
    BY <1>1 DEF JobRecords, Steps
  <2>2. job' = [job EXCEPT ![j] = q]
    BY <1>4 DEF Go, IInv, Typed
  <2> HIDE DEF q
  <2>3. Held(j, q, Reserving) = 0 /\ Held(j, q, Spending) = 0
    BY <2>1, HeldIs DEF Reserving, Spending
  <2> QED
    BY <1>1, <1>2, <1>4, <2>1, <2>2, <2>3, StayCounts
<1> QED
  BY <1>3, <1>4 DEF ReserveUsage

(* Nothing was reserved.                                                   *)
LEMMA SkipCounts == ASSUME IInv, usage \in Nat, NEW j \in Jobs, Skip(j) PROVE Counts(j)
<1>1. /\ Active(j) /\ job[j].step = "skip" /\ Leave(j)
      /\ UNCHANGED <<conf, usage, delivered>> /\ \E row : log' = [log EXCEPT ![Key(j)] = row]
  BY StatusIs DEF Skip, At, Active
<1>2. Held(j, job[j], Reserving) = 0
  BY <1>1, HeldIs DEF Reserving, Spending
<1> QED
  BY <1>1, <1>2, LeaveCounts

(* Nothing of what the job is at went out, where nothing fails unseen.     *)
LEMMA NotOver ==
  ASSUME IInv, Once, Reliable, NEW j \in Jobs, At(j, "send")
  PROVE  /\ ~Over(j, job[j].at)
         /\ \A x \in Sends : x[1] = j /\ x[2] = job[j].at => delivered[x] = 0
<1>1. ~Over(j, job[j].at)
  BY DEF Over, Once, At
<1>2. \A x \in Sends : delivered[x] \in Nat
  BY DEF IInv, Typed
<1> QED
  BY <1>1, <1>2 DEF Once

(* The end of a send keeps the reservation, as spent or for the release.   *)
LEMMA LandCounts ==
  ASSUME IInv, usage \in Nat, NEW j \in Jobs, At(j, "send"),
         NEW err \in {"none", "error", "lost", "unconfirmed"}, Land(j, err),
         UNCHANGED <<conf, log, usage>>
  PROVE  /\ Steady(j) /\ Spends(j)
         /\ err # "none" /\ delivered' = delivered => Counts(j)
         /\ err = "none" => /\ (\A a \in Campaigns : a = job[j].at => Over(j, a)') /\ Held(j, job'[j], Reserving) = 0
                            /\ j \in Messages => job'[j].at = job[j].at
<1>1. PICK q \in Landings(j, err) : job' = [job EXCEPT ![j] = q]
  BY DEF Land
<1>2. /\ Active(j) /\ Placed(j, job[j]) /\ job[j].step = "send" /\ job[j].state = "active"
      /\ MaySend(j, job[j].form)
  BY UnderWay DEF At, Active, Placed
<1>3. /\ Placed(j, q) /\ q \in JobRecords
      /\ q.step = "read" => q.state = "completed" /\ ~Paid(j, job[j].form)
      /\ q.step # "read" => q.state = "active" /\ q.at = job[j].at
      /\ q.step \in {"thank", "record", "unclaim", "release"} => q.form = job[j].form
      /\ q.step \in {"thank", "record"} => err = "none"
      /\ q.step \in {"thank", "record", "release"} => Paid(j, job[j].form)
      /\ err = "none" => q.step \in {"read", "thank", "record"}
      /\ q.step = "send" => job[j].form = "link" /\ q.form = "text"
      /\ q.step \in {"read", "thank", "record", "unclaim", "release", "send"}
  BY LandingsAre DEF Placed
<1>4. Steady(j) /\ job'[j] = q
  BY <1>1, <1>3, SteadyIs
<1>5. /\ Held(j, job[j], Reserving) = IF Paid(j, job[j].form) THEN 1 ELSE 0
      /\ Held(j, job[j], Spending) = IF Paid(j, job[j].form) THEN 1 ELSE 0
  BY <1>2 DEF Held, Reserving, Spending
<1>6. Paid(j, "link") <=> Paid(j, "text")
  BY DEF Paid, LinkForms
<1>7. Held(j, q, Spending) = IF Paid(j, job[j].form) THEN 1 ELSE 0
  <2>1. CASE q.step = "read"
    BY <1>3, <2>1, HeldIs DEF Spending, Reserving
  <2>2. CASE q.step # "read"
    <3>1. q.step \in Spending /\ q.state = "active" /\ (Paid(j, q.form) <=> Paid(j, job[j].form))
      BY <1>3, <1>6, <2>2 DEF Spending, Reserving
    <3> QED
      BY <3>1 DEF Held
  <2> QED
    BY <2>1, <2>2
<1>8. q.step \notin {"thank", "record"} => Held(j, q, Reserving) = Held(j, q, Spending)
  BY DEF Held, Reserving, Spending
<1>9. Spends(j)
  BY <1>4, <1>5, <1>7 DEF Spends
<1>10. ASSUME err # "none", delivered' = delivered PROVE Counts(j)
  <2>1. Held(j, q, Reserving) = Held(j, job[j], Reserving) /\ Held(j, q, Spending) = Held(j, q, Reserving)
    BY <1>3, <1>5, <1>7, <1>8, <1>10
  <2> QED
    BY <1>1, <1>2, <1>3, <1>10, <2>1, StayCounts
<1>11. ASSUME err = "none"
       PROVE  /\ (\A a \in Campaigns : a = job[j].at => Over(j, a)') /\ Held(j, job'[j], Reserving) = 0
              /\ j \in Messages => job'[j].at = job[j].at
  <2>1. CASE q.step \in {"thank", "record"}
    <3>1. Held(j, q, Reserving) = 0
      BY <2>1, HeldIs
    <3> QED
      BY <1>3, <1>4, <2>1, <3>1 DEF Over
  <2>2. CASE q.step = "read"
    <3>1. j \notin Messages
      BY <1>2, <1>3, <2>2, Apart DEF Paid, MaySend, LinkForms, Answering
    <3>2. Held(j, q, Reserving) = 0
      BY <2>2, HeldIs DEF Reserving, Spending
    <3> QED
      BY <1>3, <1>4, <2>2, <3>1, <3>2 DEF Over
  <2> QED
    BY <1>3, <1>11, <2>1, <2>2
<1> QED
  BY <1>4, <1>9, <1>10, <1>11

(* Claiming, or giving up a send in doubt, moves no reservation.           *)
LEMMA ClaimReceiptCounts == ASSUME IInv, usage \in Nat, NEW j \in Jobs, ClaimReceipt(j) PROVE Counts(j)
<1>0. PICK x : x = This(j)
  OBVIOUS
<1>1. /\ At(j, "send") /\ UNCHANGED <<conf, log, usage, delivered>>
      /\ x \in Sends /\ x[1] = j /\ Active(j) /\ receipt[x] \in {"none", "claimed", "answered"}
      /\ Told(x) /\ job[j] \in JobRecords /\ job[j].step = "send" /\ x[2] = job[j].at
  BY <1>0, ThisIs, UnderWay DEF ClaimReceipt, At, This
<1>2. CASE receipt[x] = "none"
  <2> DEFINE q == [job[j] EXCEPT !.claimed = TRUE]
  <2>1. job' = [job EXCEPT ![j] = q]
    BY <1>0, <1>2 DEF ClaimReceipt
  <2>2. /\ q \in JobRecords /\ q.state = job[j].state /\ q.step = job[j].step /\ q.at = job[j].at
        /\ q.form = job[j].form
    BY <1>1 DEF JobRecords
  <2> HIDE DEF q
  <2>3. Held(j, q, Reserving) = Held(j, job[j], Reserving) /\ Held(j, q, Spending) = Held(j, q, Reserving)
    BY <1>1, <2>2 DEF Held, Reserving, Spending
  <2> QED
    BY <1>1, <2>1, <2>2, <2>3, StayCounts
<1>3. CASE receipt[x] = "claimed"
  <2>1. Land(j, "unconfirmed")
    BY <1>0, <1>3 DEF ClaimReceipt
  <2> QED
    BY <1>1, <2>1, LandCounts
<1>4. CASE receipt[x] = "answered"
  <2>1. Land(j, "none")
    BY <1>0, <1>4 DEF ClaimReceipt
  <2>2. Steady(j) /\ Spends(j)
    BY <1>1, <2>1, LandCounts
  <2>3. ~(Once /\ Reliable)
    BY <1>1, <1>4, NotOver DEF Told
  <2> QED
    BY <2>2, <2>3 DEF Counts
<1> QED
  BY <1>1, <1>2, <1>3, <1>4

(* A send that went out spends the reservation, one that was refused keeps *)
(* it.                                                                     *)
LEMMA SendCounts ==
  ASSUME IInv, usage \in Nat, NEW j \in Jobs, Send(j)
  PROVE  Steady(j) /\ Spends(j) /\ (Once /\ Reliable => Kept(j) \/ Landed(j))
<1>0. PICK x : x = This(j)
  OBVIOUS
<1>1. /\ At(j, "send") /\ UNCHANGED <<conf, log, usage>>
      /\ x \in Sends /\ x[1] = j /\ Active(j) /\ Told(x) /\ x[2] = job[j].at
  BY <1>0, ThisIs DEF Send, This
<1>2. CASE conf.provider = "ZERNIO" /\ receipt[x] = "answered"
  <2>1. Land(j, "none")
    BY <1>0, <1>2 DEF Send
  <2>2. Steady(j) /\ Spends(j)
    BY <1>1, <2>1, LandCounts
  <2>3. ~(Once /\ Reliable)
    BY <1>1, <1>2, NotOver DEF Told
  <2> QED
    BY <2>2, <2>3
<1>3. CASE ~(conf.provider = "ZERNIO" /\ receipt[x] = "answered")
  <2>1. PICK o \in Outcomes :
          /\ delivered' = IF o.sent THEN [delivered EXCEPT ![x] = @ + 1] ELSE delivered
          /\ Land(j, o.err)
    BY <1>0, <1>3 DEF Send
  <2>2. PICK err \in {"none", "error", "lost", "unconfirmed"}, sent \in BOOLEAN :
          /\ o = [sent |-> sent, err |-> err] /\ (err = "none" => sent) /\ (err = "error" => ~sent)
          /\ Reliable => err \in {"none", "error"}
    BY DEF Outcomes, Reliable
  <2>3. o.err = err /\ (o.sent <=> sent)
    BY <2>2
  <2>4. Land(j, err)
    BY <2>1, <2>3
  <2>5. /\ Steady(j) /\ Spends(j)
        /\ err # "none" /\ delivered' = delivered => Counts(j)
        /\ err = "none" => /\ (\A a \in Campaigns : a = job[j].at => Over(j, a)') /\ Held(j, job'[j], Reserving) = 0
                           /\ j \in Messages => job'[j].at = job[j].at
    BY <1>1, <2>4, LandCounts
  <2>6. CASE Reliable /\ err = "none"
    BY <1>0, <1>1, <2>1, <2>2, <2>3, <2>5, <2>6 DEF Landed
  <2>7. CASE Reliable /\ err = "error"
    BY <2>1, <2>2, <2>3, <2>5, <2>7 DEF Counts
  <2> QED
    BY <2>2, <2>5, <2>6, <2>7
<1> QED
  BY <1>2, <1>3

(* A job gives up and keeps its reservation for the release.               *)
LEMMA UndoCounts ==
  ASSUME IInv, usage \in Nat, NEW j \in Jobs, Active(j),
         job[j].step \in {"claim", "unclaim", "thank", "record"}, NEW e \in {"error", "duplicate"},
         job' = [job EXCEPT ![j] = IF Swallowed(j) THEN Completed(j) ELSE Undo(j, e)],
         UNCHANGED <<conf, log, usage, delivered>>
  PROVE  Steady(j) /\ Spends(j) /\ (job[j].step \in {"claim", "unclaim"} => Counts(j))
<1>1. PICK q : /\ q = IF Swallowed(j) THEN Completed(j) ELSE Undo(j, e)
               /\ Placed(j, q)
               /\ IF Swallowed(j) THEN q.step = "read" /\ q.state = "completed" ELSE
                    /\ q.step = "release" /\ q.state = "active" /\ q.at = job[j].at
                    /\ q.form = job[j].form /\ Paid(j, q.form)
  BY UndoneIs
<1>2. job' = [job EXCEPT ![j] = q] /\ q \in JobRecords
  BY <1>1 DEF Placed
<1>3. Steady(j) /\ job'[j] = q
  BY <1>2, SteadyIs
<1>4. /\ Held(j, q, Reserving) = Held(j, q, Spending)
      /\ Held(j, q, Spending) = IF Swallowed(j) THEN 0 ELSE 1
  BY <1>1, HeldIs DEF Reserving, Spending
<1>5. Swallowed(j) => ~Paid(j, job[j].form)
  BY Apart DEF Swallowed, Paid, LinkForms, Postbacks, Answering
<1>6. /\ job[j].state = "active"
      /\ Held(j, job[j], Spending) = IF Swallowed(j) THEN 0 ELSE 1
      /\ job[j].step \in {"claim", "unclaim"} => Held(j, job[j], Reserving) = Held(j, job[j], Spending)
  BY <1>1, <1>5 DEF Held, Active, Reserving, Spending
<1>7. Spends(j)
  BY <1>3, <1>4, <1>6 DEF Spends
<1>8. ASSUME job[j].step \in {"claim", "unclaim"} PROVE Counts(j)
  <2>1. Held(j, q, Reserving) = Held(j, job[j], Reserving)
    BY <1>4, <1>6, <1>8
  <2> QED
    BY <1>1, <1>2, <1>4, <1>8, <2>1, StayCounts
<1> QED
  BY <1>3, <1>7, <1>8

(* Claiming the postback, or giving up as a duplicate, keeps the           *)
(* reservation.                                                            *)
LEMMA ClaimTapCounts == ASSUME IInv, usage \in Nat, NEW j \in Jobs, ClaimTap(j) PROVE Counts(j)
<1>1. /\ Active(j) /\ job[j].step = "claim" /\ UNCHANGED <<conf, log, usage, delivered>>
      /\ job[j] \in JobRecords
  BY UnderWay DEF ClaimTap, At, Active
<1>2. CASE j \notin claims
  <2> DEFINE q == [job[j] EXCEPT !.step = "send"]
  <2>1. /\ q \in JobRecords /\ q.state = job[j].state /\ q.step = "send" /\ q.at = job[j].at
        /\ q.form = job[j].form
    BY <1>1 DEF JobRecords, Steps
  <2>2. job' = [job EXCEPT ![j] = q]
    BY <1>2 DEF Go, ClaimTap
  <2> HIDE DEF q
  <2>3. Held(j, q, Reserving) = Held(j, job[j], Reserving) /\ Held(j, q, Spending) = Held(j, q, Reserving)
    BY <1>1, <2>1 DEF Held, Reserving, Spending
  <2> QED
    BY <1>1, <2>1, <2>2, <2>3, StayCounts
<1>3. CASE j \in claims
  BY <1>1, <1>3, UndoCounts DEF ClaimTap
<1> QED
  BY <1>2, <1>3

(* A refused postback keeps its reservation for the release.               *)
LEMMA UnclaimCounts == ASSUME IInv, usage \in Nat, NEW j \in Jobs, Unclaim(j) PROVE Counts(j)
BY UndoCounts DEF Unclaim, At, Active

(* Queueing the follow-up moves no reservation.                            *)
LEMMA ThankCounts == ASSUME IInv, usage \in Nat, NEW j \in Jobs, Thank(j) PROVE Counts(j)
<1>1. PICK a : a = job[j].at
  OBVIOUS
<1>2. /\ a \in FollowUps /\ a # j /\ a \in Jobs
      /\ job'[j] = [job[j] EXCEPT !.step = "record"]
      /\ job'[a] = IF job[a].state = "absent" THEN [job[a] EXCEPT !.state = "waiting"]
                   ELSE job[a]
      /\ \A i \in Jobs \ {j, a} : job'[i] = job[i]
  BY <1>1, ThankIs
<1>3. /\ Active(j) /\ job[j].step = "thank" /\ Placed(j, job[j]) /\ job[j] \in JobRecords
      /\ job[a] \in JobRecords /\ UNCHANGED <<conf, log, usage, delivered>>
      /\ job[j].state = "active" /\ Paid(j, job[j].form)
  BY <1>2, UnderWay DEF Thank, At, Active, IInv, Typed, Placed
<1>4. PICK q : q = job'[j]
  OBVIOUS
<1>5. q.state = "active" /\ q.step = "record" /\ q.at = job[j].at /\ q.form = job[j].form
  BY <1>2, <1>3, <1>4 DEF JobRecords
<1>6. job[a].state = "absent" => job'[a].state = "waiting"
  BY <1>2, <1>3 DEF JobRecords
<1>7. Steady(j)
  BY <1>2, <1>3, <1>6 DEF Steady
<1>8. /\ Held(j, q, Reserving) = 0 /\ Held(j, job[j], Reserving) = 0
      /\ Held(j, q, Spending) = 1 /\ Held(j, job[j], Spending) = 1
  BY <1>3, <1>5, HeldIs
<1>9. Spends(j)
  BY <1>3, <1>4, <1>8 DEF Spends
<1>10. ASSUME Once, Reliable PROVE Kept(j)
  <2>1. \A b \in Campaigns : Over(j, b) => Over(j, b)'
    BY <1>3, <1>4, <1>5 DEF Over
  <2>2. j \in Messages => log[<<j, job[j].at>>].status # "SENT"
    BY <1>3, <1>10 DEF Once
  <2> QED
    BY <1>3, <1>4, <1>5, <1>8, <2>1, <2>2 DEF Kept
<1> QED
  BY <1>7, <1>9, <1>10 DEF Counts

(* The row of a message says SENT, and a postback completes: what was over *)
(* stays over.                                                             *)
LEMMA RecordSentCounts == ASSUME IInv, usage \in Nat, NEW j \in Jobs, RecordSent(j) PROVE Counts(j)
<1>1. /\ Active(j) /\ job[j].step = "record" /\ job[j] \in JobRecords /\ job[j].state = "active"
      /\ UNCHANGED <<conf, usage, delivered>> /\ Placed(j, job[j])
  BY UnderWay DEF RecordSent, At, Active
<1>2. PICK row \in Rows : row.status = "SENT" /\ log' = [log EXCEPT ![Key(j)] = row]
  BY StatusIs DEF RecordSent
<1>3. PICK q : q = Onward(j)
  OBVIOUS
<1>4. /\ Placed(j, q) /\ q.step = "read" /\ job' = [job EXCEPT ![j] = q]
      /\ j \notin Messages => q.state = "completed"
  BY <1>1, <1>3, OnwardIs DEF RecordSent, Leave
<1>5. Steady(j) /\ job'[j] = q /\ Spends(j)
  BY <1>1, <1>2, <1>4, IdleCounts
<1>6. Held(j, q, Reserving) = 0 /\ Held(j, job[j], Reserving) = 0
  BY <1>1, <1>4, HeldIs DEF Reserving, Spending
<1>7. log \in [Keys -> Rows] /\ Key(j) \in Keys
  BY <1>1, KeyIs DEF IInv, Typed
<1>8. ASSUME NEW a \in Campaigns, Over(j, a) PROVE Over(j, a)'
  <2>1. CASE j \notin Messages
    BY <1>4, <1>5, <2>1 DEF Over
  <2>2. CASE j \in Messages /\ a = job[j].at
    <3>1. Key(j) = <<j, a>>
      BY <2>2 DEF Key
    <3>2. log'[<<j, a>>] = row
      BY <1>2, <1>7, <3>1
    <3> QED
      BY <1>2, <2>2, <3>2 DEF Over
  <2>3. CASE j \in Messages /\ a # job[j].at
    <3>1. log[<<j, a>>].status = "SENT"
      BY <1>8, <2>3 DEF Over
    <3>2. <<j, a>> # Key(j) /\ <<j, a>> \in Keys
      BY <2>3 DEF Key, Keys
    <3>3. log'[<<j, a>>] = log[<<j, a>>]
      BY <1>2, <1>7, <3>2
    <3> QED
      BY <2>3, <3>1, <3>3 DEF Over
  <2> QED
    BY <2>1, <2>2, <2>3
<1> QED
  BY <1>1, <1>4, <1>5, <1>6, <1>8 DEF Counts, Kept

(* The release gives back what this job holds, and nothing else.           *)
LEMMA ReleaseCounts ==
  ASSUME IInv, usage \in Nat, NEW j \in Jobs, Release(j)
  PROVE  Counts(j) /\ Held(j, job[j], Spending) = 1
<1>1. /\ Active(j) /\ job[j].step = "release" /\ job[j] \in JobRecords /\ job[j].state = "active"
      /\ UNCHANGED <<conf, log, delivered>> /\ Paid(j, job[j].form) /\ usage' = usage - 1
      /\ Leave(j) \/ Go(j, "fail")
  BY UnderWay DEF Release, At, Active, Placed
<1>2. Held(j, job[j], Spending) = 1 /\ Held(j, job[j], Reserving) = 1
  BY <1>1, HeldIs DEF Reserving
<1>3. CASE Leave(j)
  BY <1>1, <1>2, <1>3, LeaveCounts
<1>4. CASE Go(j, "fail")
  <2> DEFINE q == [job[j] EXCEPT !.step = "fail"]
  <2>1. q \in JobRecords /\ q.step = "fail" /\ q.at = job[j].at
    BY <1>1 DEF JobRecords, Steps
  <2>2. job' = [job EXCEPT ![j] = q]
    BY <1>4 DEF Go
  <2> HIDE DEF q
  <2>3. Held(j, q, Reserving) = 0 /\ Held(j, q, Spending) = 0
    BY <2>1, HeldIs DEF Reserving, Spending
  <2> QED
    BY <1>1, <1>2, <2>1, <2>2, <2>3, StayCounts
<1> QED
  BY <1>1, <1>2, <1>3, <1>4

(* A job that fails has given its reservation back.                        *)
LEMMA FailCounts == ASSUME IInv, usage \in Nat, NEW j \in Jobs, Fail(j) PROVE Counts(j)
<1>1. PICK q : q = Thrown(j, job[j].err)
  OBVIOUS
<1>2. /\ Active(j) /\ job[j].step = "fail" /\ UNCHANGED <<conf, usage, delivered>>
      /\ job' = [job EXCEPT ![j] = q] /\ \E row : log' = [log EXCEPT ![Key(j)] = row]
  BY <1>1 DEF Fail, At, Active, Throw
<1>3. Placed(j, q) /\ q.step = "read"
  BY <1>1, <1>2, ThrownIs
<1>4. Held(j, job[j], Reserving) = 0
  BY <1>2, HeldIs DEF Reserving, Spending
<1> QED
  BY <1>2, <1>3, <1>4, IdleCounts DEF Counts

(* A fault costs at most a reservation that nobody gives back.             *)
LEMMA FaultCounts ==
  ASSUME IInv, usage \in Nat, NEW j \in Jobs, Fault(j)
  PROVE  Steady(j) /\ Spends(j) /\ ~Reliable /\ UNCHANGED usage
<1>1. ~Reliable /\ UNCHANGED <<conf, usage>>
  BY DEF Fault, NoContext, Crash, StatementFails, Evict, Faulty, Reliable
<1>2. CASE NoContext(j)
  <2>1. PICK q : q = Onward(j)
    OBVIOUS
  <2>2. Active(j) /\ job' = [job EXCEPT ![j] = q]
    BY <1>2, <2>1 DEF NoContext, At, Active, Leave
  <2>3. Placed(j, q) /\ q.step = "read"
    BY <2>1, <2>2, OnwardIs
  <2>4. log' = log \/ \E row : log' = [log EXCEPT ![Key(j)] = row]
    BY <1>2, StatusIs DEF NoContext
  <2> QED
    BY <1>1, <2>2, <2>3, <2>4, IdleCounts
<1>3. CASE Crash(j)
  <2>1. PICK q : q = Fresh(j, "waiting", job[j].attempts)
    OBVIOUS
  <2>2. Active(j) /\ job' = [job EXCEPT ![j] = q] /\ log' = log
    BY <1>3, <2>1 DEF Crash, Active
  <2>3. job[j].attempts \in 0..MaxAttempts /\ job[j].attempts < MaxAttempts
    BY <2>2, UnderWay DEF JobRecords
  <2>4. Placed(j, q) /\ q.step = "read"
    BY <2>1, <2>3, FreshIs
  <2> QED
    BY <1>1, <2>2, <2>4, IdleCounts
<1>4. CASE StatementFails(j)
  <2>1. Active(j) /\ UNCHANGED <<conf, log, usage, delivered>>
    BY <1>4 DEF StatementFails, Active
  <2>2. CASE At(j, "send")
    <3>1. Land(j, "error")
      BY <1>4, <2>2 DEF StatementFails, At
    <3> QED
      BY <1>1, <2>1, <2>2, <3>1, LandCounts
  <2>3. CASE job[j].step \in {"claim", "unclaim", "thank", "record"}
    <3>1. job' = [job EXCEPT ![j] = IF Swallowed(j) THEN Completed(j) ELSE Undo(j, "error")]
      BY <1>4, <2>3 DEF StatementFails, At
    <3> QED
      BY <1>1, <2>1, <2>3, <3>1, UndoCounts
  <2>4. CASE ~At(j, "send") /\ job[j].step \notin {"claim", "unclaim", "thank", "record"}
    <3>1. PICK q : q = Thrown(j, "error")
      OBVIOUS
    <3>2. job' = [job EXCEPT ![j] = q]
      BY <1>4, <2>4, <3>1 DEF StatementFails, Throw
    <3>3. Placed(j, q) /\ q.step = "read"
      BY <2>1, <3>1, ThrownIs
    <3> QED
      BY <1>1, <2>1, <3>2, <3>3, IdleCounts
  <2> QED
    BY <2>2, <2>3, <2>4
<1>5. CASE Evict(j)
  <2>1. PICK state \in {"absent", "waiting"}, q \in {Fresh(j, "absent", 0), Fresh(j, "waiting", 0)} :
          q = Fresh(j, state, 0) /\ job' = [job EXCEPT ![j] = q]
    BY <1>5 DEF Evict
  <2>2. 0 \in 0..MaxAttempts /\ 0 < MaxAttempts
    BY RevealAssumption
  <2>3. Placed(j, q) /\ q.step = "read"
    BY <2>1, <2>2, FreshIs
  <2>4. Steady(j) /\ job'[j] = q
    BY <1>1, <1>5, <2>1, <2>3, SteadyIs DEF Evict, Placed
  <2>5. Held(j, q, Spending) = 0 /\ Held(j, job[j], Spending) = 0
    BY <1>5, <2>3, HeldIs DEF Evict, Ended, Spending, Reserving
  <2> QED
    BY <1>1, <2>4, <2>5 DEF Spends
<1> QED
  BY <1>1, <1>2, <1>3, <1>4, <1>5 DEF Fault

(* Every step of a job keeps the books; only a release takes from the      *)
(* counter, and its job holds what it takes.                               *)
LEMMA StepCounts ==
  ASSUME IInv, usage \in Nat, NEW j \in Jobs, JobStep(j)
  PROVE  /\ Steady(j) /\ Spends(j) /\ (Once /\ Reliable => Kept(j) \/ Landed(j))
         /\ usage' # usage - 1 \/ Held(j, job[j], Spending) = 1
<1>1. Steady(j) /\ Spends(j) /\ (Once /\ Reliable => Kept(j) \/ Landed(j))
  BY StartCounts, ReadLogCounts, GateCounts, ReserveUsageCounts, SkipCounts, ClaimTapCounts,
     ClaimReceiptCounts, SendCounts, UnclaimCounts, ThankCounts, RecordSentCounts, ReleaseCounts,
     FailCounts DEF JobStep, Counts
<1>2. usage' \in {usage, usage + 1} \/ Release(j)
  BY DEF JobStep, Start, ReadLog, Gate, ReserveUsage, Skip, ClaimTap, ClaimReceipt, Send, Unclaim,
         Thank, RecordSent, Fail
<1> QED
  BY <1>1, <1>2, ReleaseCounts

-----------------------------------------------------------------------------
(* The counter.                                                            *)

(* There are finitely many jobs, and answers to count.                     *)
LEMMA JobsFinite == IsFiniteSet(Jobs) /\ IsFiniteSet(Answering \X Campaigns)
<1>1. IsFiniteSet(Campaigns)
  BY RevealAssumption, FS_Interval DEF Campaigns
<1>2. IsFiniteSet(Answering)
  BY RevealAssumption DEF Answering
<1>3. IsFiniteSet(Answering \X Campaigns)
  BY <1>1, <1>2, FS_Product
<1>4. Jobs = Answering \union Campaigns
  BY DEF Jobs, Answering, FollowUps
<1> QED
  BY <1>1, <1>2, <1>3, <1>4, FS_Union

(* What the job of a step takes and gives back is what the number of       *)
(* holders changes by.                                                     *)
LEMMA Recount ==
  ASSUME NEW j \in Jobs, Steady(j), NEW steps
  PROVE  /\ Cardinality(Holders(steps)) \in Nat
         /\ Cardinality(Holders(steps))' = Cardinality(Holders(steps))
              + Held(j, job'[j], steps) - Held(j, job[j], steps)
         /\ Held(j, job[j], steps) = 1 => Cardinality(Holders(steps)) >= 1
<1> DEFINE S == {i \in Jobs : Held(i, job[i], steps) = 1}
           T == {i \in Jobs : Held(i, job'[i], steps) = 1}
<1>1. Held(j, job[j], steps) \in {0, 1} /\ Held(j, job'[j], steps) \in {0, 1}
  BY DEF Held
<1>2. ASSUME NEW i \in Jobs \ {j} PROVE Held(i, job'[i], steps) = Held(i, job[i], steps)
  <2>1. CASE job'[i] = job[i]
    BY <2>1
  <2>2. CASE i \in FollowUps
    <3>1. i \notin Answering
      BY <2>2, Apart DEF Answering
    <3> QED
      BY <3>1 DEF Held, Paid
  <2> QED
    BY <2>1, <2>2 DEF Steady
<1>3. S \ {j} = T \ {j}
  BY <1>2
<1>4. IsFiniteSet(S) /\ IsFiniteSet(S \ {j}) /\ Cardinality(S \ {j}) \in Nat /\ Cardinality(S) \in Nat
  BY JobsFinite, FS_Subset, FS_CardinalityType, FS_RemoveElement
<1>5. Cardinality(S) = Cardinality(S \ {j}) + Held(j, job[j], steps)
  <2>1. CASE j \in S
    <3>1. S = (S \ {j}) \union {j} /\ j \notin S \ {j}
      BY <2>1
    <3>2. Held(j, job[j], steps) = 1
      BY <2>1
    <3> HIDE DEF S
    <3> QED
      BY <1>4, <3>1, <3>2, FS_AddElement
  <2>2. CASE j \notin S
    <3>1. S = S \ {j} /\ Held(j, job[j], steps) = 0
      BY <1>1, <2>2
    <3> HIDE DEF S
    <3> QED
      BY <1>4, <3>1
  <2> QED
    BY <2>1, <2>2
<1>6. Cardinality(T) = Cardinality(S \ {j}) + Held(j, job'[j], steps)
  <2>1. CASE j \in T
    <3>1. T = (S \ {j}) \union {j} /\ j \notin S \ {j}
      BY <1>3, <2>1
    <3>2. Held(j, job'[j], steps) = 1
      BY <2>1
    <3> HIDE DEF S, T
    <3> QED
      BY <1>4, <3>1, <3>2, FS_AddElement
  <2>2. CASE j \notin T
    <3>1. T = S \ {j} /\ Held(j, job'[j], steps) = 0
      BY <1>1, <1>3, <2>2
    <3> HIDE DEF S, T
    <3> QED
      BY <1>4, <3>1
  <2> QED
    BY <2>1, <2>2
<1>7. Holders(steps) = S /\ Holders(steps)' = T
  BY DEF Holders, Held, Paid, Answering, Postbacks
<1> HIDE DEF S, T
<1> QED
  BY <1>1, <1>4, <1>5, <1>6, <1>7

(* At first nobody holds anything.                                         *)
LEMMA ReservedInit == Init => Reserved
<1> SUFFICES ASSUME Init PROVE Reserved
  OBVIOUS
<1>1. \A j \in Jobs : job[j].state # "active"
  <2>1. PICK load \in Workloads :
          job = [j \in Jobs |-> Fresh(j, IF j \in load THEN "waiting" ELSE "absent", 0)]
    BY DEF Init
  <2> QED
    BY <2>1 DEF Fresh
<1>2. Holders(Spending) = {}
  BY <1>1 DEF Holders, Held
<1> QED
  BY <1>2, FS_EmptySet DEF Init, Reserved

(* Every step keeps the counter above what is held: it moves with it, and  *)
(* a fault only loses holders.                                             *)
LEMMA ReservedStep == IInv /\ Reserved /\ [Next]_vars => Reserved'
<1> SUFFICES ASSUME IInv, Reserved, [Next]_vars PROVE Reserved'
  OBVIOUS
<1>1. usage \in Nat /\ usage >= Cardinality(Holders(Spending))
  BY DEF Reserved
<1>2. ASSUME NEW j \in Jobs, JobStep(j) \/ Fault(j) PROVE Reserved'
  <2>1. /\ Steady(j) /\ Spends(j)
        /\ usage' # usage - 1 \/ Held(j, job[j], Spending) = 1
    BY <1>1, <1>2, StepCounts, FaultCounts
  <2>2. /\ Cardinality(Holders(Spending)) \in Nat
        /\ Cardinality(Holders(Spending))' = Cardinality(Holders(Spending))
             + Held(j, job'[j], Spending) - Held(j, job[j], Spending)
        /\ Held(j, job'[j], Spending) \in {0, 1} /\ Held(j, job[j], Spending) \in {0, 1}
    BY <2>1, Recount, HeldIs
  <2>3. Cardinality(Holders(Spending))' \in Nat
    <3>1. IsFiniteSet(Holders(Spending)')
      BY JobsFinite, FS_Subset DEF Holders
    <3> QED
      BY <3>1, FS_CardinalityType
  <2> QED
    BY <1>1, <2>1, <2>2, <2>3 DEF Spends, Reserved
<1>3. CASE UNCHANGED vars \/ Follow
  BY <1>1, <1>3 DEF vars, Follow, Reserved, Holders
<1> QED
  BY <1>2, <1>3 DEF Next, Done

(* The monthly counter is at least the number of running jobs that may     *)
(* still give a reservation back (dm-worker.ts:960-965 and the releases in *)
(* the catches): no release frees what another job reserved, and the       *)
(* counter never goes below zero, whatever fails.                          *)
THEOREM NeverNegative == Spec => []Reserved
<1> QED
  BY ReservedInit, ReservedStep, Invariance, PTL DEF Spec

(* Every variable keeps its type; for the counter, which a release         *)
(* decrements without a check, this is the bound above.                    *)
THEOREM TypeCorrect == Spec => []TypeOK
<1>1. IInv /\ Reserved => TypeOK
  BY DEF IInv, Typed, Reserved, TypeOK
<1> QED
  BY <1>1, Invariance, NeverNegative, PTL

-----------------------------------------------------------------------------
(* What goes out goes out once.                                            *)

(* At first nothing went out and no message is at work.                    *)
LEMMA OnceInit == Init => Once
<1> SUFFICES ASSUME Init PROVE Once
  OBVIOUS
<1>1. PICK load \in Workloads :
        job = [j \in Jobs |-> Fresh(j, IF j \in load THEN "waiting" ELSE "absent", 0)]
  BY DEF Init
<1>2. \A j \in Messages : job[j].step = "read"
  BY <1>1 DEF Fresh, Jobs
<1>3. \A x \in Sends : delivered[x] = 0
  BY DEF Init
<1> QED
  BY <1>2, <1>3 DEF Once

(* A step of one job changes nothing that is over for another.             *)
LEMMA OthersOver ==
  ASSUME IInv, NEW j \in Jobs, Steady(j), NEW i \in Jobs \ {j}
  PROVE  /\ \A a \in Campaigns : i \in Messages => log'[<<i, a>>] = log[<<i, a>>]
         /\ i \in Messages => job'[i] = job[i]
         /\ \A a \in Campaigns : Over(i, a) => Over(i, a)'
<1>1. \A a \in Campaigns : i \in Messages => log'[<<i, a>>] = log[<<i, a>>]
  <2> SUFFICES ASSUME NEW a \in Campaigns, i \in Messages PROVE log'[<<i, a>>] = log[<<i, a>>]
    OBVIOUS
  <2>1. <<i, a>> \in Keys /\ <<i, a>> # Key(j)
    BY RevealAssumption DEF Keys, Key
  <2> QED
    BY <2>1 DEF Steady
<1>2. job'[i] = job[i] \/ (i \in FollowUps /\ i \notin Messages /\ job[i].state = "absent")
  BY Apart DEF Steady
<1> QED
  BY <1>1, <1>2 DEF Over

(* A step that sends has a campaign that is not over, so its copy is the   *)
(* first; every other step keeps what is over.                             *)
LEMMA OnceMoves ==
  ASSUME IInv, Once, Reliable, NEW j \in Jobs, Steady(j), Kept(j) \/ Landed(j)
  PROVE  Once'
<1>1. /\ \A x \in Sends : /\ delivered[x] \in Nat /\ delivered[x] <= 1
                          /\ delivered[x] > 0 => Over(x[1], x[2])
      /\ delivered \in [Sends -> Nat]
  BY DEF IInv, Typed, Once
<1>2. ASSUME NEW x \in Sends PROVE delivered'[x] <= 1 /\ (delivered'[x] > 0 => Over(x[1], x[2])')
  <2>1. x[1] \in Jobs /\ x[2] \in Campaigns
    BY SendIs
  <2>2. CASE delivered'[x] = delivered[x] /\ x[1] # j
    BY <1>1, <2>1, <2>2, OthersOver
  <2>3. CASE x[1] = j /\ Kept(j)
    BY <1>1, <2>1, <2>3 DEF Kept
  <2>4. CASE x[1] = j /\ Landed(j)
    <3>1. /\ At(j, "send") /\ log' = log /\ (\A a \in Campaigns : a = job[j].at => Over(j, a)')
          /\ delivered' = [delivered EXCEPT ![This(j)] = @ + 1]
          /\ job[j].state = "active" /\ job[j].step = "send"
      BY <2>4 DEF Landed, At
    <3>2. CASE x[2] = job[j].at
      <4>1. delivered[x] = 0
        BY <2>4, <3>1, <3>2, NotOver
      <4>2. delivered'[x] <= 1
        BY <1>1, <3>1, <4>1
      <4>3. Over(x[1], x[2])'
        BY <2>1, <2>4, <3>1, <3>2
      <4> QED
        BY <4>2, <4>3
    <3>3. CASE x[2] # job[j].at
      <4>1. delivered'[x] = delivered[x]
        BY <1>1, <3>1, <3>3 DEF This
      <4>2. Over(j, x[2]) => Over(j, x[2])'
        BY <3>1, <3>3 DEF Over
      <4> QED
        BY <1>1, <2>4, <4>1, <4>2
    <3> QED
      BY <3>2, <3>3
  <2>5. x[1] # j => delivered'[x] = delivered[x]
    BY <1>1 DEF Kept, Landed, This
  <2> QED
    BY <2>2, <2>3, <2>4, <2>5
<1>3. ASSUME NEW i \in Messages, job'[i].step # "read"
      PROVE  log'[<<i, job'[i].at>>].status # "SENT"
  <2>1. i \in Jobs /\ job[i] \in JobRecords /\ job[i].at \in Campaigns
    BY DEF Jobs, IInv, Typed, JobRecords
  <2>2. CASE i # j
    BY <1>3, <2>1, <2>2, OthersOver DEF Once
  <2>3. CASE i = j /\ Kept(j)
    BY <1>3, <2>3 DEF Kept
  <2>4. CASE i = j /\ Landed(j)
    BY <2>4 DEF Landed, Once, At
  <2> QED
    BY <2>2, <2>3, <2>4
<1> QED
  BY <1>2, <1>3 DEF Once

(* Every step of a reliable provider preserves it, and a fault is none.    *)
LEMMA OnceStep == IInv /\ usage \in Nat /\ Once /\ [Next]_vars => Once'
<1> SUFFICES ASSUME IInv, usage \in Nat, Once, [Next]_vars PROVE Once'
  OBVIOUS
<1>1. ASSUME NEW j \in Jobs, JobStep(j) PROVE Once'
  <2>1. Steady(j) /\ (Reliable => Kept(j) \/ Landed(j))
    BY <1>1, StepCounts
  <2>2. CASE Reliable
    BY <2>1, <2>2, OnceMoves
  <2>3. CASE ~Reliable
    BY <2>1, <2>3 DEF Once, Reliable, Steady
  <2> QED
    BY <2>2, <2>3
<1>2. ASSUME NEW j \in Jobs, Fault(j) PROVE Once'
  BY <1>2, FaultCounts DEF Once, Reliable, Steady
<1>3. CASE UNCHANGED vars \/ Follow
  BY <1>3 DEF vars, Follow, Once, Reliable, Over
<1> QED
  BY <1>1, <1>2, <1>3 DEF Next, Done

(* Where nothing fails unseen, no tap, fallback, message or follow-up      *)
(* delivers anything twice, of any provider, with the retries, text        *)
(* fallbacks and refusals that remain, though no claim holds a message or, *)
(* over Meta, a tap: the row and the end of the job do.                    *)
THEOREM AtMostOnce == Spec => []Once
<1>1. IInv /\ Reserved => usage \in Nat
  BY DEF Reserved
<1>2. IInv /\ Reserved /\ Once /\ [Next]_vars => Once'
  BY <1>1, OnceStep
<1> QED
  BY <1>2, OnceInit, Invariance, NeverNegative, PTL DEF Spec

(* Unless Meta, which keeps no claim or receipt, loses answers, nothing a  *)
(* job sends reaches the user twice: through Composio the receipt          *)
(* (transport.ts:41-56), for Zernio's postbacks the claim                  *)
(* (dm-worker.ts:753-799) holds it, whatever is retried, evicted and       *)
(* delivered again, or crashes with the request on the line.               *)
THEOREM NothingSentTwice == ASSUME "META" \notin Unreliable PROVE Spec => []SentOnce
<1>1. IInv /\ Once => SentOnce
  <2> SUFFICES ASSUME IInv, Once, NEW x \in Sends, conf.provider = "ZERNIO" => x[1] \in Postbacks
               PROVE  delivered[x] <= 1
    BY DEF SentOnce
  <2>1. Told(x) /\ conf.provider \in {"META", "COMPOSIO", "ZERNIO"}
    BY RevealAssumption DEF IInv, Typed
  <2> QED
    BY <2>1 DEF Told, Once, Reliable
<1> QED
  BY <1>1, Invariance, AtMostOnce, PTL

-----------------------------------------------------------------------------
(* The counter, where nothing fails unseen.                                *)

(* The answers that went out and are charged.                              *)
Answered == {p \in Answering \X Campaigns : Charged(p[1], p[2])}

(* The books: the counter is what went out and what is held for it.        *)
Exact == Reliable => usage = Cardinality(Answered) + Cardinality(Holders(Reserving))

(* A send that is charged is a new answer, any other is none.              *)
LEMMA AnsweredGrows ==
  ASSUME IInv, Once, Reliable, NEW j \in Jobs, Landed(j)
  PROVE  /\ Paid(j, job[j].form) => /\ <<j, job[j].at>> \notin Answered
                                    /\ Answered' = Answered \union {<<j, job[j].at>>}
         /\ ~Paid(j, job[j].form) => Answered' = Answered
<1>0. PICK x : x = This(j)
  OBVIOUS
<1>1. /\ At(j, "send") /\ delivered' = [delivered EXCEPT ![x] = @ + 1]
      /\ x \in Sends /\ delivered[x] \in Nat /\ x = <<j, job[j].at, job[j].form>>
      /\ MaySend(j, job[j].form) /\ job[j].at \in Campaigns
  BY <1>0, ThisIs, UnderWay DEF Landed, This, JobRecords
<1>2. delivered \in [Sends -> Nat]
  BY DEF IInv, Typed
<1>3. /\ delivered'[x] = delivered[x] + 1
      /\ \A y \in Sends : y # x => delivered'[y] = delivered[y]
  BY <1>1, <1>2
<1>4. ASSUME NEW i \in Answering, NEW a \in Campaigns, i # j \/ a # job[j].at \/ ~Paid(j, job[j].form)
      PROVE  Charged(i, a)' <=> Charged(i, a)
  <2>1. ASSUME NEW form \in {"link", "text"}, <<i, a, form>> \in Sends
        PROVE  delivered'[<<i, a, form>>] = delivered[<<i, a, form>>]
    <3>1. <<i, a, form>> # x
      BY <1>1, <1>4 DEF Paid, LinkForms
    <3> QED
      BY <1>3, <2>1, <3>1
  <2>2. LinkBy(i, a)' <=> LinkBy(i, a)
    BY <2>1 DEF LinkBy
  <2>3. ASSUME i \in Messages
        PROVE  delivered'[<<i, a, "prompt">>] = delivered[<<i, a, "prompt">>]
    <3>1. <<i, a, "prompt">> \in Sends /\ <<i, a, "prompt">> # x
      BY <1>1, <1>4, <2>3 DEF Sends, Paid
    <3> QED
      BY <1>3, <3>1
  <2> QED
    BY <2>2, <2>3 DEF Charged
<1>5. CASE Paid(j, job[j].form)
  <2>1. j \in Answering
    BY <1>5 DEF Paid
  <2>2. PICK a \in Campaigns : a = job[j].at
    BY <1>1
  <2>3. Charged(j, a)'
    <3>1. delivered'[x] > 0
      BY <1>1, <1>3
    <3> QED
      BY <1>1, <1>5, <2>2, <3>1 DEF Charged, LinkBy, Paid, LinkForms
  <2>4. ~Charged(j, a)
    <3>1. \A y \in Sends : y[1] = j /\ y[2] = job[j].at => delivered[y] = 0
      BY <1>1, NotOver
    <3>2. j \in Messages => <<j, job[j].at, "prompt">> \in Sends
      BY <1>1 DEF Sends
    <3> QED
      BY <2>2, <3>1, <3>2 DEF Charged, LinkBy
  <2>5. <<j, a>> \notin Answered
    BY <2>4 DEF Answered
  <2>6. Answered' = Answered \union {<<j, a>>}
    BY <1>4, <2>1, <2>2, <2>3 DEF Answered
  <2> QED
    BY <1>5, <2>2, <2>5, <2>6
<1>6. CASE ~Paid(j, job[j].form)
  BY <1>4, <1>6 DEF Answered
<1> QED
  BY <1>5, <1>6

(* The books start empty.                                                  *)
LEMMA ExactInit == Init => Exact
<1> SUFFICES ASSUME Init PROVE Exact
  OBVIOUS
<1>1. \A j \in Jobs : job[j].state # "active"
  <2>1. PICK load \in Workloads :
          job = [j \in Jobs |-> Fresh(j, IF j \in load THEN "waiting" ELSE "absent", 0)]
    BY DEF Init
  <2> QED
    BY <2>1 DEF Fresh
<1>2. Holders(Reserving) = {}
  BY <1>1 DEF Holders, Held
<1>3. Answered = {}
  <2>1. \A x \in Sends : ~(delivered[x] > 0)
    BY DEF Init
  <2>2. \A j \in Messages, a \in Campaigns : <<j, a, "prompt">> \in Sends
    BY DEF Sends
  <2> QED
    BY <2>1, <2>2 DEF Answered, Charged, LinkBy
<1> QED
  BY <1>2, <1>3, FS_EmptySet DEF Init, Exact

(* Every step of a reliable provider keeps the books.                      *)
LEMMA ExactStep == IInv /\ usage \in Nat /\ Once /\ Exact /\ [Next]_vars => Exact'
<1> SUFFICES ASSUME IInv, usage \in Nat, Once, Exact, [Next]_vars PROVE Exact'
  OBVIOUS
<1>1. ASSUME NEW j \in Jobs, JobStep(j) PROVE Exact'
  <2>1. Steady(j) /\ (Reliable => Kept(j) \/ Landed(j)) /\ usage' \in Int
    BY <1>1, StepCounts DEF Spends
  <2> SUFFICES ASSUME Reliable
               PROVE  usage' = Cardinality(Answered)' + Cardinality(Holders(Reserving))'
    BY <2>1 DEF Exact, Reliable, Steady
  <2>2. /\ Cardinality(Holders(Reserving)) \in Nat
        /\ Cardinality(Holders(Reserving))' = Cardinality(Holders(Reserving))
             + Held(j, job'[j], Reserving) - Held(j, job[j], Reserving)
        /\ Held(j, job'[j], Reserving) \in {0, 1} /\ Held(j, job[j], Reserving) \in {0, 1}
    BY <2>1, Recount, HeldIs
  <2>3. usage = Cardinality(Answered) + Cardinality(Holders(Reserving))
    BY DEF Exact
  <2>4. IsFiniteSet(Answered) /\ Cardinality(Answered) \in Nat
    <3>1. IsFiniteSet(Answered)
      BY JobsFinite, FS_Subset DEF Answered
    <3> QED
      BY <3>1, FS_CardinalityType
  <2>5. CASE Kept(j)
    <3>1. Answered' = Answered
      BY <2>5 DEF Kept, Answered, Charged, LinkBy
    <3> QED
      BY <2>1, <2>2, <2>3, <2>4, <2>5, <3>1 DEF Kept
  <2>6. CASE Landed(j)
    <3>1. /\ usage' = usage /\ Held(j, job'[j], Reserving) = 0
          /\ job[j].state = "active" /\ job[j].step = "send"
      BY <2>6 DEF Landed, At
    <3>2. Held(j, job[j], Reserving) = IF Paid(j, job[j].form) THEN 1 ELSE 0
      BY <3>1 DEF Held, Reserving
    <3>3. Cardinality(Answered') =
            Cardinality(Answered) + IF Paid(j, job[j].form) THEN 1 ELSE 0
      <4>1. CASE Paid(j, job[j].form)
        <5>1. PICK p : p \notin Answered /\ Answered' = Answered \union {p}
          BY <2>6, <4>1, AnsweredGrows
        <5> QED
          BY <2>4, <4>1, <5>1, FS_AddElement
      <4>2. CASE ~Paid(j, job[j].form)
        <5>1. Answered' = Answered
          BY <2>6, <4>2, AnsweredGrows
        <5> QED
          BY <2>4, <4>2, <5>1
      <4> QED
        BY <4>1, <4>2
    <3> QED
      BY <2>2, <2>3, <2>4, <3>1, <3>2, <3>3
  <2> QED
    BY <2>1, <2>5, <2>6
<1>2. ASSUME NEW j \in Jobs, Fault(j) PROVE Exact'
  BY <1>2, FaultCounts DEF Exact, Reliable, Steady
<1>3. CASE UNCHANGED vars \/ Follow
  BY <1>3 DEF vars, Follow, Exact, Reliable, Answered, Charged, LinkBy, Holders
<1> QED
  BY <1>1, <1>2, <1>3 DEF Next, Done

(* Where nothing fails unseen, the monthly counter holds exactly the       *)
(* answers that went out and the reservations of running jobs: every       *)
(* refusal gives its reservation back once (dm-worker.ts:1010-1058,        *)
(* 1347-1374), no answer is charged twice, and a tap's prompt, the         *)
(* fallback's silence and the follow-up cost nothing.                      *)
THEOREM CountedExactly == Spec => []ChargedExactly
<1>1. IInv /\ Exact => ChargedExactly
  <2> SUFFICES ASSUME IInv, Exact PROVE ChargedExactly
    OBVIOUS
  <2>1. ASSUME NEW j \in Jobs PROVE Holding(j) <=> Held(j, job[j], Reserving) = 1
    <3>1. Placed(j, job[j])
      BY DEF IInv
    <3>2. ASSUME job[j].step \in Reserving PROVE Swallowed(j) <=> ~Paid(j, job[j].form)
      BY <3>1, <3>2, Apart DEF Placed, MaySend, Paid, Swallowed, Reserving, Answering, Jobs,
                               Postbacks, LinkForms
    <3> QED
      BY <3>2 DEF Holding, Held, Reserving
  <2>2. {j \in Jobs : Holding(j)} = Holders(Reserving)
    BY <2>1 DEF Holders
  <2>3. {p \in (Postbacks \union Messages) \X Campaigns : Charged(p[1], p[2])} = Answered
    BY DEF Answered, Answering
  <2> QED
    BY <2>2, <2>3 DEF ChargedExactly, Exact, Reliable
<1>2. IInv /\ Reserved => usage \in Nat
  BY DEF Reserved
<1>3. IInv /\ Reserved /\ Once /\ Exact /\ [Next]_vars => Exact'
  BY <1>2, ExactStep
<1> QED
  BY <1>1, <1>3, ExactInit, Invariance, NeverNegative, AtMostOnce, PTL DEF Spec

=============================================================================
