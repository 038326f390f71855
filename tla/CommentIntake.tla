---------------------------- MODULE CommentIntake ----------------------------
(***************************************************************************)
(* How a comment becomes a job: processInstagramWebhook, which queues the  *)
(* events of a delivered payload under deterministic job ids, and the      *)
(* sweep of lib/polling/comment-reconciler.ts, which lists a campaign's    *)
(* recent comments and queues those nobody answered.                       *)
(*                                                                         *)
(* One campaign that sends a DM and a public reply is modelled, on a post  *)
(* and on an ad made from the post.  Comments are numbered in the order    *)
(* they are posted.  The worker is reduced to what its jobs leave behind,  *)
(* a row of DmLog and a reply on Instagram, as module CommentOutcome says  *)
(* (module CommentWorker has the whole of it and implements that one).     *)
(***************************************************************************)
EXTENDS Integers, Sequences, FiniteSets

CONSTANTS
    NComments,    \* comments 1 .. NComments may be posted
    Matching,     \* those that match the campaign and are not the owner's
    Worlds,       \* the settings a behaviour may have, see below
    Sweeps,       \* sweeps that may overlap
    Cap,          \* MAX_NEW_PER_SWEEP
    ListMax,      \* the newest comments of a medium that are fetched
    MaxJobs       \* jobs of one comment that are told apart

Comments == 1 .. NComments
Media == {"post", "ad"}

Kinds == {"comment", "postback", "message", "read"}
Events == [kind : Kinds, about : Comments]

\* A setting: how many comments are posted, which of them under the ad, which the
\* owner may answer by hand, and the webhook payloads, sequences of events, that
\* Instagram may deliver.
ASSUME IntakeAssumption ==
    /\ NComments \in Nat /\ Cap \in Nat \ {0} /\ MaxJobs \in Nat \ {0}
    /\ ListMax \in Nat
    /\ Matching \subseteq Comments
    /\ \A w \in Worlds : /\ w.n \in 0 .. NComments /\ w.ads \subseteq Comments
                         /\ w.byHand \subseteq Comments
                         /\ \A p \in w.payloads : p \in Seq(Events)

Payloads == UNION {w.payloads : w \in Worlds}

VARIABLES
    world,     \* the setting, chosen at the start
    posted,    \* the last comment posted
    horizon,   \* comments up to this one have left the lookback window
    replies,   \* [Comments -> what Instagram shows under the comment]
    log,       \* [Comments -> the campaign's row of DmLog]
    hook,      \* [ids -> the webhook job of that id]
    loose,     \* [Comments -> waiting jobs the sweep added]
    inbox,     \* [Payloads -> the handling of the payload]
    stored,    \* the payloads with a WebhookEvent
    sweep,     \* [Sweeps -> the sweep's position]
    crossed,   \* comments of which two jobs have been in the queue at once
    queued     \* history: ids for which queue.add was called

vars == <<world, posted, horizon, replies, log, hook, loose, inbox, stored, sweep,
          crossed, queued>>

\* The owner's reply, with or without its author in the list of comments.
\* Whether other people replied too makes no difference but for CheckFails.
Replies == {"none", "named", "hidden"}
ByOwner == {"named", "hidden"}

\* What the jobs of a comment leave in the campaign's row, and on Instagram.
Left == INSTANCE CommentOutcome WITH
    Items <- Comments, shown <- {c \in Comments : replies[c] # "none"}

\* The events that queue.add gets a job id for; a read queues the fallback job.
Id(e) == <<e.kind, e.about>>
Ids == Kinds \X Comments

MediumOf(c) == IF c \in world.ads THEN "ad" ELSE "post"

\* "pending" has the position of the next event; "unanswered" is a WebhookEvent
\* that is FAILED, or PENDING with its process gone.
Idle == [st |-> "idle", at |-> 0]
\* `answered` and `handled` are a history: the comments answered or handled when
\* the sweep began.
NoSweep == [pc |-> "idle", media |-> <<>>, list |-> {}, n |-> 0,
            seen |-> [c \in {} |-> "none"], answered |-> {}, handled |-> {}]

Init ==
    /\ world \in Worlds
    /\ posted = 0 /\ horizon = 0
    /\ replies = [c \in Comments |-> "none"]
    /\ log = [c \in Comments |-> [dm |-> "open", reply |-> "open"]]
    /\ hook = [i \in Ids |-> "none"]
    /\ loose = [c \in Comments |-> 0]
    /\ inbox = [p \in Payloads |-> Idle]
    /\ stored = {}
    /\ sweep = [s \in Sweeps |-> NoSweep]
    /\ crossed = {} /\ queued = {}

-----------------------------------------------------------------------------
\* Instagram.

Post ==
    /\ posted < world.n
    /\ posted' = posted + 1
    /\ UNCHANGED <<world, horizon, replies, log, hook, loose, inbox, stored, sweep,
                   crossed, queued>>

\* The oldest comment in the window becomes older than LOOKBACK_HOURS.
Age ==
    /\ horizon < posted
    /\ horizon' = horizon + 1
    /\ UNCHANGED <<world, posted, replies, log, hook, loose, inbox, stored, sweep,
                   crossed, queued>>

\* The owner answers by hand.
AnswerByHand(c) ==
    /\ c <= posted /\ c \in world.byHand
    /\ replies[c] = "none"
    /\ \E r \in ByOwner : replies' = [replies EXCEPT ![c] = r]
    /\ UNCHANGED <<world, posted, horizon, log, hook, loose, inbox, stored, sweep,
                   crossed, queued>>

-----------------------------------------------------------------------------
\* The webhook.

\* queue.add with a job id does nothing while a job of that id waits or is
\* kept, completed or failed.
Added(i) == [hook EXCEPT ![i] = IF @ = "none" THEN "waiting" ELSE @]

\* A job of the comment waits, between two attempts too, or is under way.
HasJob(c) == loose[c] > 0 \/ hook[Id([kind |-> "comment", about |-> c])] = "waiting"

\* Another job is queued next to one that the comment has.
Crossing(c) == crossed' = IF HasJob(c) THEN crossed \union {c} ELSE crossed

\* Instagram delivers a payload whose comments exist, once, again because the
\* last answer was not a 200, or again although it was.
Deliver(p) ==
    /\ p \in world.payloads /\ inbox[p].st # "pending"
    /\ \A k \in DOMAIN p : p[k].kind = "comment" => p[k].about <= posted
    /\ inbox' = [inbox EXCEPT ![p] = [st |-> "pending", at |-> 1]]
    /\ stored' = stored \union {p}
    /\ UNCHANGED <<world, posted, horizon, replies, log, hook, loose, sweep,
                   crossed, queued>>

\* The next event is queued; a read queues a fallback when the opening DM of
\* its sender is SENT.
HandleEvent(p) ==
    LET e == p[inbox[p].at] IN
    /\ inbox[p].st = "pending" /\ inbox[p].at <= Len(p)
    /\ inbox' = [inbox EXCEPT ![p].at = @ + 1]
    /\ IF e.kind = "read" /\ log[e.about].dm # "sent"
       THEN UNCHANGED <<hook, crossed, queued>>
       ELSE /\ hook' = Added(Id(e))
            /\ IF e.kind = "comment" /\ hook[Id(e)] = "none"
               THEN Crossing(e.about) ELSE UNCHANGED crossed
            /\ queued' = queued \union {Id(e)}
    /\ UNCHANGED <<world, posted, horizon, replies, log, loose, stored, sweep>>

\* A bug: an event that cannot be queued is passed over.
HandleEventFailsSkipped(p) ==
    /\ inbox[p].st = "pending" /\ inbox[p].at <= Len(p)
    /\ inbox' = [inbox EXCEPT ![p].at = @ + 1]
    /\ UNCHANGED <<world, posted, horizon, replies, log, hook, loose, stored, sweep,
                   crossed, queued>>

\* queue.add throws: the event is FAILED and the answer is a 500; or the process
\* dies, the event stays PENDING and there is no answer.
HandleEventFails(p) ==
    /\ inbox[p].st = "pending" /\ inbox[p].at <= Len(p)
    /\ inbox' = [inbox EXCEPT ![p] = [st |-> "unanswered", at |-> 0]]
    /\ UNCHANGED <<world, posted, horizon, replies, log, hook, loose, stored, sweep,
                   crossed, queued>>

FinishPayload(p) ==
    /\ inbox[p].st = "pending" /\ inbox[p].at > Len(p)
    /\ inbox' = [inbox EXCEPT ![p] = [st |-> "processed", at |-> 0]]
    /\ UNCHANGED <<world, posted, horizon, replies, log, hook, loose, stored, sweep,
                   crossed, queued>>

Webhook(p) ==
    \/ Deliver(p) \/ HandleEvent(p) \/ HandleEventFails(p) \/ FinishPayload(p)

-----------------------------------------------------------------------------
\* The worker: what a job for the comment may leave.

Handled(c) == Left!Handled(c)

\* The DM may be sent, skipped or failed, the reply made, in doubt or failed; a
\* reply in the row need not be on Instagram, nor one on Instagram in the row.
\* Jobs that overlap write over each other what they read before, and may both send.
Run(c) ==
    /\ \/ Left!Leave(c)
       \/ c \in crossed /\ \E row \in Left!Rows : log' = [log EXCEPT ![c] = row]
    /\ \/ UNCHANGED replies
       \/ (Left!MayPost(c) \/ c \in crossed) /\ replies' = [replies EXCEPT ![c] = "named"]

\* Statements of the job, after which it goes on, is tried again, or ends.
WorkHook(i) ==
    /\ hook[i] = "waiting"
    /\ IF i[1] = "comment" /\ i[2] \in Matching
       THEN Run(i[2]) ELSE UNCHANGED <<log, replies>>
    /\ UNCHANGED hook \/ hook' = [hook EXCEPT ![i] = "kept"]
    /\ UNCHANGED <<world, posted, horizon, loose, inbox, stored, sweep, crossed, queued>>

WorkLoose(c) ==
    /\ loose[c] > 0
    /\ Run(c)
    /\ UNCHANGED loose \/ loose' = [loose EXCEPT ![c] = @ - 1]
    /\ UNCHANGED <<world, posted, horizon, hook, inbox, stored, sweep, crossed, queued>>

\* removeOnComplete keeps the last 1000 jobs, removeOnFail five minutes.
Retire(i) ==
    /\ hook[i] = "kept"
    /\ hook' = [hook EXCEPT ![i] = "none"]
    /\ UNCHANGED <<world, posted, horizon, replies, log, loose, inbox, stored,
                   sweep, crossed, queued>>

-----------------------------------------------------------------------------
\* The sweep of the campaign.

At(s, pc) == sweep[s].pc = pc
Move(s, rec) == sweep' = [sweep EXCEPT ![s] = rec]

Outside == <<world, posted, horizon, replies, log, hook, inbox, stored, queued>>

\* A comment is settled when its owner answered it on Instagram or the
\* campaign's row says it is handled.
Settled(c) == replies[c] \in ByOwner \/ Handled(c)

\* The ad is known from a stored webhook for one of its comments.
AdKnown ==
    \E p \in stored : \E k \in DOMAIN p : p[k].kind = "comment" /\ p[k].about \in world.ads

\* The campaign and its media, when the account's credentials can be read.
BeginSweep(s) ==
    /\ At(s, "idle")
    /\ Move(s, [NoSweep EXCEPT !.pc = "fetch",
                               !.media = IF AdKnown THEN <<"post", "ad">> ELSE <<"post">>,
                               !.answered = {c \in Comments : replies[c] \in ByOwner},
                               !.handled = {c \in Comments : Handled(c)}])
    /\ UNCHANGED <<Outside, loose, crossed>>

\* The process dies.
EndSweep(s) ==
    /\ ~At(s, "idle")
    /\ Move(s, NoSweep)
    /\ UNCHANGED <<Outside, loose, crossed>>

NextMedium(s) ==
    IF Len(sweep[s].media) > 1
    THEN [NoSweep EXCEPT !.pc = "fetch", !.media = Tail(sweep[s].media),
                         !.answered = sweep[s].answered, !.handled = sweep[s].handled]
    ELSE NoSweep

\* getRecentMediaComments: the newest of the medium that are in the window.
Listed(md) ==
    LET all == {c \in 1 .. posted : MediumOf(c) = md}
    IN  {c \in all : /\ c > horizon
                     /\ Cardinality({d \in all : d > c}) < ListMax}

\* The comments that match and show no reply of the owner.
NeedsAction(md) == {c \in Listed(md) \intersect Matching : replies[c] # "named"}

Fetch(s) ==
    LET need == NeedsAction(Head(sweep[s].media)) IN
    /\ At(s, "fetch")
    /\ IF need = {} THEN Move(s, NextMedium(s))
       ELSE Move(s, [sweep[s] EXCEPT !.pc = "handled", !.list = need,
                                     !.seen = [c \in need |-> replies[c]]])
    /\ UNCHANGED <<Outside, loose, crossed>>

FetchFails(s) ==
    /\ At(s, "fetch")
    /\ Move(s, NextMedium(s))
    /\ UNCHANGED <<Outside, loose, crossed>>

\* The DmLog guard.
ReadHandled(s) ==
    /\ At(s, "handled")
    /\ Move(s, [sweep[s] EXCEPT !.pc = "check", !.n = 0,
                                !.list = {c \in @ : ~Handled(c)}])
    /\ UNCHANGED <<Outside, loose, crossed>>

\* The end of the list or of the cap.
DoneMedium(s) ==
    /\ At(s, "check")
    /\ sweep[s].list = {} \/ sweep[s].n >= Cap
    /\ Move(s, NextMedium(s))
    /\ UNCHANGED <<Outside, loose, crossed>>

\* A bug: a reply without an author is not taken for the owner's.
OwnerRepliedByName(s, c) == sweep[s].seen[c] = "named"

\* hasOwnerReply: the author of a reply that names none is asked for.
OwnerReplied(s, c) == sweep[s].seen[c] \in ByOwner

\* The list is sorted: the oldest comment left comes next, within the cap.
Turn(s, c) ==
    /\ At(s, "check") /\ sweep[s].n < Cap
    /\ c \in sweep[s].list /\ \A d \in sweep[s].list : c <= d

\* A bug: the sweep queues the comment under the webhook's job id.
CheckWithJobId(s, c) ==
    /\ Turn(s, c)
    /\ IF OwnerReplied(s, c)
       THEN /\ Move(s, [sweep[s] EXCEPT !.list = @ \ {c}])
            /\ UNCHANGED hook
       ELSE /\ Move(s, [sweep[s] EXCEPT !.list = @ \ {c}, !.n = @ + 1])
            /\ hook' = Added(Id([kind |-> "comment", about |-> c]))
    /\ UNCHANGED <<world, posted, horizon, replies, log, loose, inbox, stored,
                   crossed, queued>>

\* Answered already, or queued without a job id.
Check(s, c) ==
    /\ Turn(s, c)
    /\ IF OwnerReplied(s, c)
       THEN /\ Move(s, [sweep[s] EXCEPT !.list = @ \ {c}])
            /\ UNCHANGED <<loose, crossed>>
       ELSE /\ Move(s, [sweep[s] EXCEPT !.list = @ \ {c}, !.n = @ + 1])
            /\ IF loose[c] < MaxJobs
               THEN loose' = [loose EXCEPT ![c] = @ + 1] /\ Crossing(c)
               ELSE UNCHANGED <<loose, crossed>>
    /\ UNCHANGED <<Outside>>

\* A reply without its author, the owner's or not, and the author cannot be
\* read: the comment waits for a later sweep.
CheckFails(s, c) ==
    /\ Turn(s, c)
    /\ Move(s, [sweep[s] EXCEPT !.list = @ \ {c}])
    /\ UNCHANGED <<Outside, loose, crossed>>

Sweep(s) ==
    \/ BeginSweep(s) \/ Fetch(s) \/ FetchFails(s) \/ ReadHandled(s)
    \/ DoneMedium(s) \/ EndSweep(s)
    \/ \E c \in Comments : Check(s, c) \/ CheckFails(s, c)

Next ==
    \/ Post \/ Age
    \/ \E c \in Comments : AnswerByHand(c) \/ WorkLoose(c)
    \/ \E i \in Ids : WorkHook(i) \/ Retire(i)
    \/ \E p \in Payloads : Webhook(p)
    \/ \E s \in Sweeps : Sweep(s)

\* The poll comes round again, and neither the calls to Instagram nor the
\* process fail every time.
FetchOf(s, md) == Fetch(s) /\ Head(sweep[s].media) = md
DoneWith(s, md) == DoneMedium(s) /\ Head(sweep[s].media) = md

Fairness ==
    \A s \in Sweeps :
        /\ WF_vars(BeginSweep(s)) /\ SF_vars(ReadHandled(s))
        /\ \A md \in Media : SF_vars(FetchOf(s, md)) /\ SF_vars(DoneWith(s, md))
        /\ \A c \in Comments : SF_vars(Check(s, c))

Spec == Init /\ [][Next]_vars /\ Fairness

-----------------------------------------------------------------------------
Readings == UNION {[C -> Replies] : C \in SUBSET Comments}

SweepRecords == [pc : {"idle", "fetch", "handled", "check"}, media : Seq(Media),
                 list : SUBSET Comments, n : 0 .. Cap, seen : Readings,
                 answered : SUBSET Comments, handled : SUBSET Comments]

\* Every variable has its type.
TypeOK ==
    /\ world \in Worlds /\ posted \in 0 .. world.n /\ horizon \in 0 .. posted
    /\ replies \in [Comments -> Replies]
    /\ log \in [Comments -> Left!Rows]
    /\ hook \in [Ids -> {"none", "waiting", "kept"}]
    /\ loose \in [Comments -> 0 .. MaxJobs]
    /\ inbox \in [Payloads -> [st : {"idle", "pending", "unanswered", "processed"}, at : Nat]]
    /\ sweep \in [Sweeps -> SweepRecords]
    /\ stored \subseteq Payloads /\ crossed \subseteq Comments /\ queued \subseteq Ids

\* PROCESSED is only said of a payload all of whose comments, button taps and
\* messages were queued, whatever failed while it was handled before
\* (process-webhook.ts, the loops and the update to PROCESSED).
ProcessedIsQueued ==
    \A p \in Payloads :
        inbox[p].st = "processed" =>
            \A k \in DOMAIN p : p[k].kind # "read" => Id(p[k]) \in queued

\* "the poll never re-touches handled comments" (comment-reconciler.ts): a sweep
\* queues no comment that its owner had answered, by name or not, nor one that the
\* campaign had handled, when the sweep began.  Jobs that overlapped may have left in
\* the row less than was done.
SettledIsLeftAlone ==
    [][\A c \in Comments : loose'[c] > loose[c] =>
          \E s \in Sweeps : /\ sweep'[s] # sweep[s]
                            /\ c \notin sweep[s].answered
                            /\ c \in sweep[s].handled => c \in crossed]_vars

Waits(c) ==
    /\ c \in Matching /\ c \in Listed(MediumOf(c))
    /\ c \in world.ads => AdKnown
    /\ ~Settled(c)

\* As many comments as the cap are ahead of it in the sweep of its medium.
Crowded(c) ==
    Cardinality({d \in Comments : d < c /\ MediumOf(d) = MediumOf(c) /\ Waits(d)}) >= Cap

\* A comment in the window whose webhook was lost, or whose DM or public reply
\* did not come about, keeps coming back to the worker, unless a whole cap of
\* older comments keeps it out of the sweep.
PollReaches ==
    \A c \in Comments : []<>(~Waits(c) \/ Crowded(c) \/ HasJob(c))

\* "so a viral post drains gradually" (comment-reconciler.ts:46): the cap delays
\* a comment and never keeps it out.
ViralPostDrains ==
    \A c \in Comments : []<>(~Waits(c) \/ HasJob(c))

=============================================================================
