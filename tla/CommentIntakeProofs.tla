------------------------ MODULE CommentIntakeProofs ------------------------
(***************************************************************************)
(* Machine-checked proofs about how comments come into the queue: about    *)
(* CommentIntake, for any number of comments, any settings and any         *)
(* overlapping sweeps (what a payload said to be processed held is queued, *)
(* and no sweep touches what was settled when it began), and about         *)
(* PollTick, which starts the sweeps, for any ticks and any calls from     *)
(* outside the schedule.                                                   *)
(***************************************************************************)
EXTENDS CommentIntake, TickSchedule, TLAPS

CONSTANT MaxExtra
VARIABLE lock
Tick == INSTANCE PollTick

-----------------------------------------------------------------------------
(* Webhook and sweep.                                                      *)

(* The events of a payload up to the position of its handling are queued.  *)
Covered(p) ==
  /\ inbox[p].st = "pending" => inbox[p].at > 0 /\
       \A k \in DOMAIN p : k < inbox[p].at /\ p[k].kind # "read" => Id(p[k]) \in queued
  /\ inbox[p].st = "processed" =>
       \A k \in DOMAIN p : p[k].kind # "read" => Id(p[k]) \in queued

(* What was answered when a sweep began still is, and what was handled, if *)
(* its jobs have not overlapped; and what the sweep has read says so: the  *)
(* replies, and once the log was read, the log.                            *)
Guarded(s) ==
  /\ \A c \in sweep[s].answered : replies[c] \in ByOwner
  /\ \A c \in sweep[s].handled : Handled(c) \/ c \in crossed
  /\ sweep[s].pc \in {"handled", "check"} =>
       \A c \in sweep[s].list \intersect sweep[s].answered : sweep[s].seen[c] \in ByOwner
  /\ sweep[s].pc = "check" => sweep[s].list \intersect sweep[s].handled \subseteq crossed

IInv ==
  /\ TypeOK
  /\ \A p \in Payloads : Covered(p)
  /\ \A s \in Sweeps : Guarded(s)

-----------------------------------------------------------------------------
(* A payload is a sequence of events.                                      *)
LEMMA PayloadsAre ==
  /\ \A p \in Payloads : p \in Seq(Events) /\ DOMAIN p = 1 .. Len(p) /\ Len(p) \in Nat
  /\ \A p \in Payloads : \A k \in DOMAIN p : Id(p[k]) \in Ids /\ p[k].about \in Comments
<1>1. \A p \in Payloads : p \in Seq(Events)
  BY IntakeAssumption DEF Payloads
<1>2. \A e \in Events : Id(e) \in Ids /\ e.about \in Comments
  BY DEF Events, Id, Ids
<1> HIDE DEF Payloads, Events
<1> QED
  BY <1>1, <1>2

(* A sweep that has not begun.                                             *)
LEMMA NoSweepTyped == NoSweep \in SweepRecords
<1>1. [c \in {} |-> "none"] \in Readings
  <2>1. [c \in {} |-> "none"] \in [{} -> Replies]
    OBVIOUS
  <2>2. {} \in SUBSET Comments
    OBVIOUS
  <2> QED
    BY <2>1, <2>2, Zenon DEF Readings
<1> QED
  BY <1>1, IntakeAssumption DEF NoSweep, SweepRecords

(* Nothing has been delivered and no sweep has begun.                      *)
LEMMA InitInv == Init => IInv
<1> SUFFICES ASSUME Init PROVE IInv
  OBVIOUS
<1>1. sweep \in [Sweeps -> SweepRecords]
  BY NoSweepTyped DEF Init
<1>2. TypeOK
  BY <1>1, IntakeAssumption DEF Init, TypeOK, Replies, Left!Rows, Idle, SweepRecords
<1> QED
  BY <1>2 DEF Init, IInv, Covered, Guarded, Idle, NoSweep

(* The owner's answers and what the campaign handled stay.                 *)
SettledStay ==
  /\ \A c \in Comments : replies[c] \in ByOwner => replies'[c] \in ByOwner
  /\ \A c \in Comments : Handled(c) \/ c \in crossed => Handled(c)' \/ c \in crossed'
  /\ crossed \subseteq crossed'

(* A job leaves what was settled settled: what is handled stays so unless  *)
(* jobs overlap, and a public reply is the owner's.                        *)
LEMMA RunStep ==
  ASSUME TypeOK, NEW c \in Comments, Run(c), UNCHANGED crossed
  PROVE  /\ replies' \in [Comments -> Replies] /\ log' \in [Comments -> Left!Rows]
         /\ SettledStay
<1>1. PICK row \in Left!Rows :
        /\ log' = [log EXCEPT ![c] = row] /\ (row \in Left!Outcomes(c) \/ c \in crossed)
        /\ replies' = replies \/ replies' = [replies EXCEPT ![c] = "named"]
  BY DEF Run, Left!Leave, Left!Outcomes
<1>2. Handled(c) => (row.dm = "sent" /\ row.reply = "sent") \/ c \in crossed
  BY <1>1 DEF Left!Outcomes, Left!Handled, Handled
<1>3. replies' \in [Comments -> Replies] /\ log' \in [Comments -> Left!Rows]
  BY <1>1 DEF TypeOK, Replies
<1>4. \A d \in Comments : Handled(d) => Handled(d)' \/ d \in crossed
  BY <1>1, <1>2 DEF Handled, Left!Handled, TypeOK
<1>5. \A d \in Comments : replies[d] \in ByOwner => replies'[d] \in ByOwner
  BY <1>1 DEF ByOwner, TypeOK
<1> QED
  BY <1>3, <1>4, <1>5 DEF SettledStay

(* So do the worker, the owner and the retiring of jobs.                   *)
LEMMA WorkStep ==
  ASSUME IInv,
         (\E c \in Comments : AnswerByHand(c) \/ WorkLoose(c))
           \/ \E i \in Ids : WorkHook(i) \/ Retire(i)
  PROVE  TypeOK' /\ SettledStay /\ UNCHANGED <<inbox, sweep, queued>>
<1> USE DEF TypeOK
<1>1. ASSUME NEW c \in Comments, AnswerByHand(c)
      PROVE  TypeOK' /\ SettledStay /\ UNCHANGED <<inbox, sweep, queued>>
  <2>1. PICK r \in ByOwner : replies' = [replies EXCEPT ![c] = r]
    BY <1>1 DEF AnswerByHand
  <2>2. TypeOK'
    BY <1>1, <2>1 DEF AnswerByHand, IInv, Replies, ByOwner
  <2>3. SettledStay
    BY <1>1, <2>1 DEF AnswerByHand, IInv, SettledStay, Handled, Left!Handled
  <2> QED
    BY <1>1, <2>2, <2>3 DEF AnswerByHand
<1>2. ASSUME NEW c \in Comments, WorkLoose(c)
      PROVE  TypeOK' /\ SettledStay /\ UNCHANGED <<inbox, sweep, queued>>
  <2>1. /\ loose' \in [Comments -> 0 .. MaxJobs]
        /\ UNCHANGED <<world, posted, horizon, hook, inbox, stored, sweep, crossed, queued>>
    <3>1. loose \in [Comments -> 0 .. MaxJobs] /\ loose[c] \in 0 .. MaxJobs /\ MaxJobs \in Nat
      BY IntakeAssumption DEF IInv
    <3>2. loose[c] > 0
      BY <1>2 DEF WorkLoose
    <3>3. loose[c] - 1 \in 0 .. MaxJobs
      BY <3>1, <3>2
    <3> QED
      BY <1>2, <3>1, <3>3 DEF WorkLoose
  <2>2. replies' \in [Comments -> Replies] /\ log' \in [Comments -> Left!Rows] /\ SettledStay
    BY <1>2, <2>1, RunStep DEF WorkLoose, IInv
  <2> QED
    BY <2>1, <2>2 DEF IInv
<1>3. ASSUME NEW i \in Ids, WorkHook(i)
      PROVE  TypeOK' /\ SettledStay /\ UNCHANGED <<inbox, sweep, queued>>
  <2>1. i[2] \in Comments
    BY DEF Ids
  <2>2. replies' \in [Comments -> Replies] /\ log' \in [Comments -> Left!Rows] /\ SettledStay
    <3>1. CASE Run(i[2])
      BY <1>3, <2>1, <3>1, RunStep DEF IInv, WorkHook
    <3>2. CASE UNCHANGED <<log, replies>>
      BY <1>3, <3>2 DEF WorkHook, IInv, SettledStay, Handled, Left!Handled
    <3> QED
      BY <1>3, <3>1, <3>2 DEF WorkHook
  <2> QED
    BY <1>3, <2>2 DEF WorkHook, IInv
<1>4. ASSUME NEW i \in Ids, Retire(i)
      PROVE  TypeOK' /\ SettledStay /\ UNCHANGED <<inbox, sweep, queued>>
  BY <1>4 DEF Retire, IInv, SettledStay, Handled, Left!Handled
<1> QED
  BY <1>1, <1>2, <1>3, <1>4

-----------------------------------------------------------------------------
(* A payload's handling goes on by one event that was queued, or starts    *)
(* again from the first.                                                   *)
LEMMA WebhookStep ==
  ASSUME IInv, NEW p \in Payloads, Webhook(p)
  PROVE  /\ TypeOK' /\ (\A q \in Payloads : Covered(q)')
         /\ UNCHANGED <<replies, log, sweep, loose>> /\ crossed \subseteq crossed'
<1>1. /\ p \in Seq(Events) /\ DOMAIN p = 1 .. Len(p) /\ Len(p) \in Nat
      /\ \A k \in DOMAIN p : Id(p[k]) \in Ids /\ p[k].about \in Comments
  BY PayloadsAre
<1>2. inbox \in [Payloads -> [st : {"idle", "pending", "unanswered", "processed"}, at : Nat]]
  BY DEF IInv, TypeOK
<1>3. ASSUME queued \subseteq queued', NEW q \in Payloads, inbox'[q] = inbox[q]
      PROVE  Covered(q)'
  BY <1>3 DEF IInv, Covered
<1>4. CASE Deliver(p)
  <2>1. TypeOK'
    BY <1>4 DEF Deliver, IInv, TypeOK
  <2>2. inbox'[p].st = "pending" /\ inbox'[p].at = 1
    BY <1>2, <1>4 DEF Deliver
  <2>3. Covered(p)'
    BY <1>1, <2>2 DEF Covered
  <2>4. \A q \in Payloads \ {p} : inbox'[q] = inbox[q]
    BY <1>2, <1>4 DEF Deliver
  <2> QED
    BY <1>3, <1>4, <2>1, <2>3, <2>4 DEF Deliver
<1>5. CASE HandleEvent(p)
  <2> DEFINE at == inbox[p].at
             e == p[at]
  <2>1. /\ at \in 1 .. Len(p) /\ inbox[p].st = "pending"
        /\ inbox' = [inbox EXCEPT ![p] = [inbox[p] EXCEPT !.at = at + 1]]
        /\ IF e.kind = "read" /\ log[e.about].dm # "sent"
             THEN UNCHANGED <<hook, queued>>
             ELSE hook' = Added(Id(e)) /\ queued' = queued \union {Id(e)}
        /\ UNCHANGED crossed \/ crossed' = crossed \union {e.about}
    BY <1>1, <1>2, <1>5 DEF HandleEvent, Crossing, IInv, Covered
  <2>2. /\ inbox'[p].st = "pending" /\ inbox'[p].at = at + 1
        /\ \A q \in Payloads \ {p} : inbox'[q] = inbox[q]
        /\ inbox' \in [Payloads -> [st : {"idle", "pending", "unanswered", "processed"}, at : Nat]]
    BY <1>2, <2>1
  <2> HIDE DEF at
  <2>3. queued \subseteq queued' /\ (at \in DOMAIN p /\ e.kind # "read" => Id(e) \in queued')
    BY <2>1
  <2>4. Covered(p)'
    <3>1. \A k \in DOMAIN p : k < at /\ p[k].kind # "read" => Id(p[k]) \in queued
      BY <2>1 DEF IInv, Covered, at
    <3> QED
      BY <1>1, <2>1, <2>2, <2>3, <3>1 DEF Covered
  <2>5. TypeOK'
    <3>1. Id(e) \in Ids
      BY <1>1, <2>1
    <3>2. hook' \in [Ids -> {"none", "waiting", "kept"}] /\ queued' \subseteq Ids
      <4>1. CASE UNCHANGED <<hook, queued>>
        BY <4>1 DEF IInv, TypeOK
      <4>2. CASE hook' = Added(Id(e)) /\ queued' = queued \union {Id(e)}
        BY <3>1, <4>2 DEF IInv, TypeOK, Added
      <4> QED
        BY <2>1, <4>1, <4>2
    <3>3. crossed' \subseteq Comments
      BY <1>1, <2>1 DEF IInv, TypeOK
    <3> QED
      BY <1>5, <2>2, <3>2, <3>3 DEF HandleEvent, IInv, TypeOK
  <2> QED
    BY <1>3, <1>5, <2>1, <2>2, <2>3, <2>4, <2>5 DEF HandleEvent
<1>6. CASE HandleEventFails(p)
  <2>1. /\ inbox' = [inbox EXCEPT ![p] = [st |-> "unanswered", at |-> 0]]
        /\ UNCHANGED <<world, posted, horizon, replies, log, hook, loose, stored, sweep,
                       crossed, queued>>
    BY <1>6 DEF HandleEventFails
  <2>2. TypeOK'
    BY <2>1 DEF IInv, TypeOK
  <2>3. /\ inbox'[p].st = "unanswered" /\ \A q \in Payloads \ {p} : inbox'[q] = inbox[q]
    BY <1>2, <2>1
  <2>4. Covered(p)'
    BY <2>3 DEF Covered
  <2> QED
    BY <1>3, <2>1, <2>2, <2>3, <2>4
<1>7. CASE FinishPayload(p)
  <2>1. /\ inbox[p].st = "pending" /\ inbox[p].at > Len(p)
        /\ inbox' = [inbox EXCEPT ![p] = [st |-> "processed", at |-> 0]]
        /\ UNCHANGED <<world, posted, horizon, replies, log, hook, loose, stored, sweep,
                       crossed, queued>>
    BY <1>7 DEF FinishPayload
  <2>2. TypeOK'
    BY <2>1 DEF IInv, TypeOK
  <2>3. /\ inbox'[p].st = "processed" /\ \A q \in Payloads \ {p} : inbox'[q] = inbox[q]
    BY <1>2, <2>1
  <2>4. Covered(p)'
    <3>1. inbox[p].at \in Nat
      BY <1>2
    <3>2. \A k \in DOMAIN p : k < inbox[p].at
      BY <1>1, <2>1, <3>1
    <3>3. \A k \in DOMAIN p : p[k].kind # "read" => Id(p[k]) \in queued
      BY <2>1, <3>2 DEF IInv, Covered
    <3> QED
      BY <2>1, <2>3, <3>3 DEF Covered
  <2> QED
    BY <1>3, <2>1, <2>2, <2>3, <2>4
<1> QED
  BY <1>4, <1>5, <1>6, <1>7 DEF Webhook

-----------------------------------------------------------------------------
(* A step of one sweep leaves the others where they are.                   *)
LEMMA MoveStep ==
  ASSUME IInv, NEW s \in Sweeps, NEW rec \in SweepRecords, Move(s, rec), UNCHANGED Outside,
         loose' = loose \/ \E c \in Comments :
           loose[c] < MaxJobs /\ loose' = [loose EXCEPT ![c] = @ + 1],
         crossed \subseteq crossed', crossed' \subseteq Comments,
         sweep'[s] = rec => Guarded(s)'
  PROVE  /\ TypeOK' /\ \A q \in Sweeps : Guarded(q)'
<1>1. sweep' = [sweep EXCEPT ![s] = rec] /\ sweep \in [Sweeps -> SweepRecords]
  BY DEF Move, IInv, TypeOK, SweepRecords
<1>2. /\ sweep' \in [Sweeps -> SweepRecords] /\ sweep'[s] = rec
      /\ \A q \in Sweeps \ {s} : sweep'[q] = sweep[q]
  BY <1>1
<1>3. loose' \in [Comments -> 0 .. MaxJobs]
  <2>1. loose \in [Comments -> 0 .. MaxJobs] /\ MaxJobs \in Nat
    BY IntakeAssumption DEF IInv, TypeOK
  <2>2. ASSUME NEW c \in Comments, loose[c] < MaxJobs, loose' = [loose EXCEPT ![c] = @ + 1]
        PROVE  loose' \in [Comments -> 0 .. MaxJobs]
    <3>1. loose[c] + 1 \in 0 .. MaxJobs
      BY <2>1, <2>2
    <3> QED
      BY <2>1, <2>2, <3>1
  <2> QED
    BY <2>1, <2>2
<1>4. TypeOK'
  BY <1>2, <1>3 DEF Outside, IInv, TypeOK, SweepRecords
<1>5. \A q \in Sweeps \ {s} : Guarded(q)'
  BY <1>2 DEF IInv, Guarded, Outside, Handled, Left!Handled
<1> QED
  BY <1>2, <1>4, <1>5

(* The next medium keeps what was settled when the sweep began.            *)
LEMMA NextMediumIs ==
  ASSUME IInv, NEW s \in Sweeps
  PROVE  /\ NextMedium(s) \in SweepRecords
         /\ NextMedium(s).pc \in {"idle", "fetch"}
         /\ NextMedium(s).answered \subseteq sweep[s].answered
         /\ NextMedium(s).handled \subseteq sweep[s].handled
<1>1. sweep[s] \in SweepRecords
  BY DEF IInv, TypeOK, SweepRecords
<1>2. CASE Len(sweep[s].media) > 1
  <2>1. /\ sweep[s].media \in Seq(Media)
        /\ sweep[s].answered \subseteq Comments /\ sweep[s].handled \subseteq Comments
    BY <1>1 DEF SweepRecords
  <2>2. Tail(sweep[s].media) \in Seq(Media)
    BY <1>2, <2>1
  <2> DEFINE rec(m, a, h) == [NoSweep EXCEPT !.pc = "fetch", !.media = m,
                                             !.answered = a, !.handled = h]
  <2>3. ASSUME NEW m \in Seq(Media), NEW a \in SUBSET Comments, NEW h \in SUBSET Comments
        PROVE  /\ rec(m, a, h) \in SweepRecords /\ rec(m, a, h).pc = "fetch"
               /\ rec(m, a, h).answered = a /\ rec(m, a, h).handled = h
    BY NoSweepTyped DEF SweepRecords
  <2>4. NextMedium(s) = rec(Tail(sweep[s].media), sweep[s].answered, sweep[s].handled)
    BY <1>2 DEF NextMedium
  <2> HIDE DEF rec
  <2> DEFINE m == Tail(sweep[s].media)
             a == sweep[s].answered
             h == sweep[s].handled
  <2>5. m \in Seq(Media) /\ a \in SUBSET Comments /\ h \in SUBSET Comments
    BY <2>1, <2>2
  <2>6. NextMedium(s) = rec(m, a, h) /\ sweep[s].answered = a /\ sweep[s].handled = h
    BY <2>4
  <2> HIDE DEF m, a, h
  <2>7. /\ rec(m, a, h) \in SweepRecords /\ rec(m, a, h).pc = "fetch"
        /\ rec(m, a, h).answered = a /\ rec(m, a, h).handled = h
    BY <2>3, <2>5
  <2> QED
    BY <2>6, <2>7
<1>3. CASE ~(Len(sweep[s].media) > 1)
  <2>1. NoSweep.pc = "idle" /\ NoSweep.answered = {} /\ NoSweep.handled = {}
    BY DEF NoSweep
  <2> QED
    BY <1>3, <2>1, NoSweepTyped DEF NextMedium
<1> QED
  BY <1>2, <1>3

(* Nothing is guarded while the next medium is to be fetched.              *)
LEMMA NextMediumStep ==
  ASSUME IInv, NEW s \in Sweeps, Move(s, NextMedium(s)), UNCHANGED <<Outside, loose, crossed>>
  PROVE  TypeOK' /\ \A q \in Sweeps : Guarded(q)'
<1> DEFINE rec == NextMedium(s)
<1>1. /\ rec \in SweepRecords /\ rec.pc \in {"idle", "fetch"}
      /\ rec.answered \subseteq sweep[s].answered /\ rec.handled \subseteq sweep[s].handled
  BY NextMediumIs
<1>0. crossed \subseteq Comments
  BY DEF IInv, TypeOK
<1> HIDE DEF rec
<1>2. sweep'[s] = rec => Guarded(s)'
  BY <1>1 DEF IInv, Guarded, Outside, Handled, Left!Handled
<1> QED
  BY <1>0, <1>1, <1>2, MoveStep DEF rec

(* Every step of a sweep keeps its guard: the replies are read with the    *)
(* list, and the log takes out what only the campaign had handled.         *)
LEMMA SweepStep ==
  ASSUME IInv, NEW s \in Sweeps, Sweep(s)
  PROVE  /\ TypeOK' /\ \A q \in Sweeps : Guarded(q)'
         /\ UNCHANGED <<replies, log, inbox, queued>>
<1> DEFINE Goal == TypeOK' /\ \A q \in Sweeps : Guarded(q)'
<1>0. /\ sweep[s] \in SweepRecords /\ sweep[s].list \subseteq Comments
      /\ sweep[s].answered \subseteq Comments /\ sweep[s].handled \subseteq Comments
      /\ crossed \subseteq Comments
  BY DEF IInv, TypeOK, SweepRecords
<1>1. ASSUME BeginSweep(s) PROVE Goal
  <2> DEFINE media == IF AdKnown THEN <<"post", "ad">> ELSE <<"post">>
             answered == {c \in Comments : replies[c] \in ByOwner}
             handled == {c \in Comments : Handled(c)}
             rec == [NoSweep EXCEPT !.pc = "fetch", !.media = media,
                                    !.answered = answered, !.handled = handled]
  <2>1. Move(s, rec) /\ UNCHANGED <<Outside, loose, crossed>>
    BY <1>1 DEF BeginSweep
  <2>2. media \in Seq(Media) /\ answered \in SUBSET Comments /\ handled \in SUBSET Comments
    <3>1. "post" \in Media /\ "ad" \in Media
      BY DEF Media
    <3>2. <<"post", "ad">> \in Seq(Media) /\ <<"post">> \in Seq(Media)
      BY <3>1
    <3> QED
      BY <3>2
  <2> HIDE DEF media, answered, handled
  <2>3. /\ rec \in SweepRecords /\ rec.pc = "fetch"
        /\ rec.answered = answered /\ rec.handled = handled
    BY <2>2, NoSweepTyped DEF SweepRecords
  <2>4. (\A c \in answered : replies[c] \in ByOwner) /\ (\A c \in handled : Handled(c))
    BY DEF answered, handled
  <2> HIDE DEF rec
  <2>5. sweep'[s] = rec => Guarded(s)'
    BY <2>1, <2>3, <2>4 DEF Guarded, Outside, Handled, Left!Handled
  <2> QED
    BY <1>0, <2>1, <2>3, <2>5, MoveStep
<1>2. ASSUME Fetch(s) PROVE Goal
  <2> DEFINE need == NeedsAction(Head(sweep[s].media))
             rec == [sweep[s] EXCEPT !.pc = "handled", !.list = need,
                                     !.seen = [c \in need |-> replies[c]]]
  <2>1. CASE need = {}
    BY <1>2, <2>1, NextMediumStep DEF Fetch
  <2>2. CASE need # {}
    <3>1. Move(s, rec) /\ UNCHANGED <<Outside, loose, crossed>>
      BY <1>2, <2>2 DEF Fetch
    <3>2. need \in SUBSET Comments
      BY IntakeAssumption DEF NeedsAction
    <3> HIDE DEF need
    <3>3. [c \in need |-> replies[c]] \in Readings
      <4>1. [c \in need |-> replies[c]] \in [need -> Replies]
        BY <3>2 DEF IInv, TypeOK
      <4> QED
        BY <3>2, <4>1 DEF Readings
    <3>4. /\ rec \in SweepRecords /\ rec.pc = "handled" /\ rec.list = need
          /\ rec.answered = sweep[s].answered /\ rec.handled = sweep[s].handled
          /\ rec.seen = [c \in need |-> replies[c]]
      <4> DEFINE read(f) == [sweep[s] EXCEPT !.pc = "handled", !.list = need, !.seen = f]
      <4>1. ASSUME NEW f \in Readings
            PROVE  /\ read(f) \in SweepRecords /\ read(f).pc = "handled" /\ read(f).list = need
                   /\ read(f).answered = sweep[s].answered
                   /\ read(f).handled = sweep[s].handled /\ read(f).seen = f
        BY <1>0, <3>2 DEF SweepRecords
      <4>2. rec = read([c \in need |-> replies[c]])
        OBVIOUS
      <4> HIDE DEF rec, read
      <4> QED
        BY <3>3, <4>1, <4>2
    <3>5. \A c \in need : rec.seen[c] = replies[c]
      BY <3>4
    <3> HIDE DEF rec
    <3>6. sweep'[s] = rec => Guarded(s)'
      BY <3>1, <3>4, <3>5 DEF IInv, Guarded, Outside, Handled, Left!Handled
    <3> QED
      BY <1>0, <3>1, <3>4, <3>6, MoveStep
  <2> QED
    BY <2>1, <2>2
<1>3. ASSUME FetchFails(s) PROVE Goal
  BY <1>3, NextMediumStep DEF FetchFails
<1>4. ASSUME ReadHandled(s) PROVE Goal
  <2> DEFINE open == {c \in sweep[s].list : ~Handled(c)}
             rec == [sweep[s] EXCEPT !.pc = "check", !.n = 0, !.list = open]
  <2>1. Move(s, rec) /\ UNCHANGED <<Outside, loose, crossed>> /\ sweep[s].pc = "handled"
    BY <1>4 DEF ReadHandled, At
  <2>2. open \in SUBSET sweep[s].list /\ \A c \in open : ~Handled(c)
    OBVIOUS
  <2> HIDE DEF open
  <2>3. /\ rec \in SweepRecords /\ rec.pc = "check" /\ rec.list = open
        /\ rec.answered = sweep[s].answered /\ rec.handled = sweep[s].handled
        /\ rec.seen = sweep[s].seen
    <3>1. 0 \in 0 .. Cap /\ open \in SUBSET Comments
      BY <1>0, <2>2, IntakeAssumption
    <3> QED
      BY <1>0, <3>1 DEF SweepRecords
  <2> HIDE DEF rec
  <2>4. sweep'[s] = rec => Guarded(s)'
    BY <2>1, <2>2, <2>3 DEF IInv, Guarded, Outside, Handled, Left!Handled
  <2> QED
    BY <1>0, <2>1, <2>3, <2>4, MoveStep
<1>5. ASSUME DoneMedium(s) PROVE Goal
  BY <1>5, NextMediumStep DEF DoneMedium
<1>6. ASSUME NEW c \in Comments, Check(s, c) \/ CheckFails(s, c) PROVE Goal
  <2> DEFINE rec(n) == [sweep[s] EXCEPT !.list = @ \ {c}, !.n = n]
  <2>1. /\ sweep[s].n \in 0 .. Cap /\ sweep[s].n < Cap /\ sweep[s].pc = "check"
        /\ UNCHANGED Outside
    BY <1>0, <1>6 DEF Check, CheckFails, Turn, At, SweepRecords
  <2>2. PICK n \in {sweep[s].n, sweep[s].n + 1} : Move(s, rec(n))
    <3>1. [sweep[s] EXCEPT !.list = @ \ {c}] = rec(sweep[s].n)
      BY <1>0 DEF SweepRecords
    <3>2. [sweep[s] EXCEPT !.list = @ \ {c}, !.n = @ + 1] = rec(sweep[s].n + 1)
      BY <1>0 DEF SweepRecords
    <3> HIDE DEF rec
    <3> QED
      BY <1>6, <3>1, <3>2 DEF Check, CheckFails
  <2>3. /\ rec(n) \in SweepRecords /\ rec(n).pc = "check"
        /\ rec(n).list = sweep[s].list \ {c}
        /\ rec(n).answered = sweep[s].answered /\ rec(n).handled = sweep[s].handled
        /\ rec(n).seen = sweep[s].seen
    <3>1. n \in 0 .. Cap
      BY <2>1, IntakeAssumption
    <3>2. sweep[s].list \ {c} \in SUBSET Comments
      BY <1>0
    <3> QED
      BY <1>0, <2>1, <3>1, <3>2 DEF SweepRecords
  <2>4. /\ loose' = loose \/ (loose[c] < MaxJobs /\ loose' = [loose EXCEPT ![c] = @ + 1])
        /\ crossed \subseteq crossed' /\ crossed' \subseteq Comments
    BY <1>0, <1>6 DEF Check, CheckFails, Crossing
  <2> HIDE DEF rec
  <2>5. sweep'[s] = rec(n) => Guarded(s)'
    BY <2>1, <2>3, <2>4 DEF IInv, Guarded, Outside, Handled, Left!Handled
  <2> QED
    BY <2>1, <2>2, <2>3, <2>4, <2>5, MoveStep
<1>7. ASSUME EndSweep(s) PROVE Goal
  <2>1. NoSweep.pc = "idle" /\ NoSweep.answered = {} /\ NoSweep.handled = {}
    BY DEF NoSweep
  <2>2. Move(s, NoSweep) /\ UNCHANGED <<Outside, loose, crossed>>
    BY <1>7 DEF EndSweep
  <2>3. sweep'[s] = NoSweep => Guarded(s)'
    BY <2>1 DEF Guarded
  <2> QED
    BY <1>0, <2>2, <2>3, NoSweepTyped, MoveStep
<1>8. UNCHANGED <<replies, log, inbox, queued>>
  <2>1. UNCHANGED Outside
    <3>1. ASSUME NEW c \in Comments, Check(s, c) \/ CheckFails(s, c) PROVE UNCHANGED Outside
      BY <3>1 DEF Check, CheckFails
    <3>2. CASE Fetch(s)
      BY <3>2 DEF Fetch
    <3> QED
      BY <3>1, <3>2 DEF Sweep, BeginSweep, EndSweep, FetchFails, ReadHandled, DoneMedium
  <2> QED
    BY <2>1 DEF Outside
<1> QED
  BY <1>1, <1>2, <1>3, <1>4, <1>5, <1>6, <1>7, <1>8 DEF Sweep

-----------------------------------------------------------------------------
(* Every step preserves the inductive invariant.                           *)
LEMMA InvStep == IInv /\ [Next]_vars => IInv'
<1> SUFFICES ASSUME IInv, [Next]_vars PROVE IInv'
  OBVIOUS
<1>1. ASSUME TypeOK', UNCHANGED <<inbox, sweep, queued>>, SettledStay PROVE IInv'
  <2>1. \A s \in Sweeps : sweep[s] \in SweepRecords
    BY DEF IInv, TypeOK, SweepRecords
  <2>2. \A s \in Sweeps : /\ sweep[s].answered \subseteq Comments
                          /\ sweep[s].list \subseteq Comments
                          /\ sweep[s].handled \subseteq Comments
    BY <2>1 DEF SweepRecords
  <2> QED
    BY <1>1, <2>2 DEF IInv, Covered, Guarded, SettledStay
<1>2. CASE Post \/ Age
  <2>1. TypeOK'
    BY <1>2, IntakeAssumption DEF Post, Age, IInv, TypeOK
  <2> QED
    BY <1>2, <2>1, <1>1 DEF Post, Age, SettledStay, Handled, Left!Handled
<1>3. ASSUME NEW p \in Payloads, Webhook(p) PROVE IInv'
  <2>1. \A s \in Sweeps : Guarded(s)'
    BY <1>3, WebhookStep DEF IInv, Guarded, Handled, Left!Handled
  <2> QED
    BY <1>3, <2>1, WebhookStep DEF IInv
<1>4. ASSUME NEW s \in Sweeps, Sweep(s) PROVE IInv'
  BY <1>4, SweepStep DEF IInv, Covered
<1>5. CASE UNCHANGED vars
  BY <1>5 DEF vars, IInv, TypeOK, Covered, Guarded, Handled, Left!Handled
<1> QED
  BY <1>1, <1>2, <1>3, <1>4, <1>5, WorkStep DEF Next

(* The inductive invariant holds throughout.                               *)
THEOREM Invariance == Spec => []IInv
BY InitInv, InvStep, PTL DEF Spec

(* Every variable always has its type, for any comments and settings.      *)
THEOREM TypeCorrect == Spec => []TypeOK
<1>1. IInv => TypeOK
  BY DEF IInv
<1> QED
  BY <1>1, Invariance, PTL

(* A payload is PROCESSED only when all of its comments, taps and messages *)
(* were queued, however often its handling failed halfway and began again  *)
(* (process-webhook.ts, the loops and the update to PROCESSED).            *)
THEOREM ProcessedPayloadsAreQueued == Spec => []ProcessedIsQueued
<1>1. IInv => ProcessedIsQueued
  BY DEF IInv, Covered, ProcessedIsQueued
<1> QED
  BY <1>1, Invariance, PTL

-----------------------------------------------------------------------------
(* A comment that a sweep queues was not settled when the sweep began: its *)
(* owner's answer, or the log, would have kept it out.                     *)
LEMMA QueuedUnsettled ==
  ASSUME IInv, [Next]_vars, NEW c \in Comments, loose'[c] > loose[c]
  PROVE  \E s \in Sweeps : /\ sweep'[s] # sweep[s] /\ c \notin sweep[s].answered
                           /\ c \in sweep[s].handled => c \in crossed
<1>0. loose \in [Comments -> 0 .. MaxJobs] /\ loose[c] \in Int /\ MaxJobs \in Nat
  BY IntakeAssumption DEF IInv, TypeOK
<1>1. ASSUME NEW s \in Sweeps, NEW d \in Comments, Check(s, d)
      PROVE  /\ sweep'[s] # sweep[s] /\ c \notin sweep[s].answered
             /\ c \in sweep[s].handled => c \in crossed
  <2>1. ~OwnerReplied(s, d) /\ loose' = [loose EXCEPT ![d] = @ + 1]
    BY <1>0, <1>1 DEF Check
  <2>2. c = d
    BY <1>0, <2>1
  <2>3. c \in sweep[s].list /\ sweep[s].pc = "check"
    BY <1>1, <2>2 DEF Check, Turn, At
  <2>4. sweep[s].seen[c] \notin ByOwner
    BY <2>1, <2>2 DEF OwnerReplied
  <2>5. c \notin sweep[s].answered /\ (c \in sweep[s].handled => c \in crossed)
    BY <2>3, <2>4 DEF IInv, Guarded
  <2>6. sweep'[s] # sweep[s]
    <3> DEFINE rec == [sweep[s] EXCEPT !.list = @ \ {c}, !.n = @ + 1]
    <3>1. sweep' = [sweep EXCEPT ![s] = rec]
      BY <1>1, <2>1, <2>2 DEF Check, Move
    <3>2. rec.list = sweep[s].list \ {c}
      BY DEF IInv, TypeOK
    <3> HIDE DEF rec
    <3>3. sweep'[s] = rec
      BY <3>1 DEF IInv, TypeOK
    <3> QED
      BY <2>3, <3>2, <3>3
  <2> QED
    BY <2>5, <2>6
<1>2. ASSUME NEW d \in Comments, WorkLoose(d) PROVE FALSE
  <2>1. loose' = loose \/ loose' = [loose EXCEPT ![d] = @ - 1]
    BY <1>2 DEF WorkLoose
  <2> QED
    BY <1>0, <2>1
<1>3. loose' # loose
  BY <1>0
<1>4. ASSUME NEW s \in Sweeps, Sweep(s) PROVE \E d \in Comments : Check(s, d)
  BY <1>3, <1>4 DEF Sweep, BeginSweep, EndSweep, Fetch, FetchFails, ReadHandled, DoneMedium,
         CheckFails
<1> QED
  BY <1>1, <1>2, <1>3, <1>4 DEF Next, Post, Age, AnswerByHand, WorkHook, Retire, Webhook,
         Deliver, HandleEvent, HandleEventFails, FinishPayload, vars

(* No sweep queues a comment that its owner had answered or the campaign   *)
(* had handled when the sweep began, whatever is delivered, answered and   *)
(* worked on meanwhile (comment-reconciler.ts:252-275, :281).               *)
THEOREM SettledComments == Spec => SettledIsLeftAlone
<1>1. IInv /\ [Next]_vars =>
        [\A c \in Comments : loose'[c] > loose[c] =>
           \E s \in Sweeps : /\ sweep'[s] # sweep[s]
                             /\ c \notin sweep[s].answered
                             /\ c \in sweep[s].handled => c \in crossed]_vars
  BY QueuedUnsettled
<1> QED
  BY <1>1, Invariance, PTL DEF Spec, SettledIsLeftAlone

-----------------------------------------------------------------------------
(* The poll tick.                                                          *)

(* A tick that is younger than the lock's expiry holds the lock, unless    *)
(* one was taken away between its owner's GET and DEL.                     *)
Held ==
  \A t \in Ticks :
    /\ Running(t) /\ ~raced /\ now < tick[t].start + LockTtl =>
         lock.owner = Tick!Token(t) /\ lock.until = tick[t].start + LockTtl
    /\ tick[t].pc = "del" => tick[t].mine

(* On the schedule alone each call finds the last one's lock expired, and  *)
(* so beats before the heartbeat of the call before it has.                *)
OnSchedule ==
  mode = "cron" =>
    /\ worker.st = "down"
    /\ extra = 0 => lock.until <= due /\ now <= due
    /\ extra = 0 /\ due > 0 /\ ~missed => beat # None /\ due <= beat + Tick!Interval

(* The process beats on its timer.                                         *)
OnTimer ==
  mode = "process" =>
    /\ \A t \in Ticks : tick[t].pc = "idle"
    /\ worker.st = "up" /\ ~missed =>
         beat # None /\ now <= worker.beat /\ worker.beat <= beat + Tick!BeatEvery

TickInv == Tick!TypeOK /\ Held /\ OnSchedule /\ OnTimer

(* Nothing has been called or booted.                                      *)
LEMMA TickInit == Tick!Init => TickInv
<1> SUFFICES ASSUME Tick!Init PROVE TickInv
  OBVIOUS
<1> USE DEF Tick!Init
<1>1. Tick!NoTick \in [pc : {"idle", "sweep", "drain", "close", "get", "del"},
                      start : {0}, empty : {0, 1}, mine : BOOLEAN]
  BY DEF Tick!NoTick
<1>2. /\ Tick!Free \in [owner : {<<>>} \union (Ticks \X {0}), until : Nat]
      /\ Tick!Down \in [st : {"down", "up", "closing"}, beat : Nat, polls : Nat]
  BY DEF Tick!Free, Tick!Down
<1>3. Tick!TypeOK
  <2>1. now = 0 /\ now \in 0 .. Horizon /\ due \in 0 .. Horizon + Tick!PollEvery
    BY TickAssumption DEF Tick!PollEvery
  <2>2. tick \in [Ticks -> [pc : {"idle", "sweep", "drain", "close", "get", "del"},
                           start : 0 .. now, empty : {0, 1}, mine : BOOLEAN]]
    BY <1>1, <2>1
  <2>3. /\ lock \in [owner : {<<>>} \union (Ticks \X (0 .. now)), until : Nat]
        /\ beat \in {Tick!None} \union 0 .. now
    BY <1>2, <2>1
  <2> QED
    BY <1>2, <2>1, <2>2, <2>3 DEF Tick!TypeOK
<1>4. Held /\ OnTimer
  BY DEF Held, OnTimer, Running, Tick!NoTick, Tick!Down
<1>5. OnSchedule
  <2>1. lock.until = 0 /\ due = 0 /\ now = 0 /\ worker.st = "down"
    BY DEF Tick!Down, Tick!Free
  <2> QED
    BY <2>1 DEF OnSchedule
<1> QED
  BY <1>3, <1>4, <1>5 DEF TickInv

(* Every call, timer, failure and passing of time keeps it.                *)
LEMMA EnterStep ==
  ASSUME TickInv, NEW t \in Ticks, Tick!Enter(t), mode = "cron",
         UNCHANGED <<mode, now, worker, raced>>,
         due' \in 0 .. Horizon + Tick!PollEvery, extra' \in Nat,
         \/ now = due /\ due' = now + Tick!Interval /\ extra' = extra
         \/ extra' = extra + 1 /\ due' = due
  PROVE  TickInv'
<1> USE DEF LockTtl, Tick!LockTtl, None, Tick!None, Tick!Interval, Tick!PollEvery
<1>1. /\ now \in Nat /\ now <= Horizon /\ due \in Nat /\ extra \in Nat
      /\ lock \in [owner : {<<>>} \union (Ticks \X (0 .. now)), until : Nat]
      /\ tick \in [Ticks -> [pc : {"idle", "sweep", "drain", "close", "get", "del"},
                             start : 0 .. now, empty : {0, 1}, mine : BOOLEAN]]
      /\ beat \in {-1} \union 0 .. now /\ missed \in BOOLEAN
  BY TickAssumption DEF TickInv, Tick!TypeOK
<1>2. CASE Tick!Locked
  <2>1. UNCHANGED <<lock, tick, beat, missed>>
    BY <1>2 DEF Tick!Enter
  <2>2. Tick!TypeOK'
    BY <2>1 DEF TickInv, Tick!TypeOK
  <2>3. Held' /\ OnTimer'
    BY <2>1 DEF TickInv, Held, OnTimer, Running, Tick!Token
  <2>4. OnSchedule'
    BY <1>1, <1>2, <2>1 DEF TickInv, OnSchedule, Tick!Locked
  <2> QED
    BY <2>2, <2>3, <2>4 DEF TickInv
<1>3. CASE ~Tick!Locked
  <2>1. /\ tick[t].pc = "idle" /\ lock' = [owner |-> <<t, now>>, until |-> now + LockTtl]
        /\ tick' = [tick EXCEPT ![t] =
                     [pc |-> "sweep", start |-> now, empty |-> 0, mine |-> FALSE]]
        /\ (beat' = now /\ missed' = missed) \/ (beat' = beat /\ missed' = TRUE)
    BY <1>3 DEF Tick!Enter, Tick!Beat
  <2>2. PICK k : k = [pc |-> "sweep", start |-> now, empty |-> 0, mine |-> FALSE]
    OBVIOUS
  <2>3. /\ tick' = [tick EXCEPT ![t] = k]
        /\ k \in [pc : {"sweep"}, start : 0 .. now, empty : {0, 1}, mine : BOOLEAN]
        /\ k.pc = "sweep" /\ k.start = now
    <3>1. tick' = [tick EXCEPT ![t] = k]
      BY <2>1, <2>2
    <3>2. /\ k \in [pc : {"sweep"}, start : 0 .. now, empty : {0, 1}, mine : BOOLEAN]
          /\ k.pc = "sweep" /\ k.start = now
      BY <1>1, <2>2
    <3> QED
      BY <3>1, <3>2
  <2>4. Tick!TypeOK'
    <3>1. tick' \in [Ticks -> [pc : {"idle", "sweep", "drain", "close", "get", "del"},
                               start : 0 .. now, empty : {0, 1}, mine : BOOLEAN]]
      BY <1>1, <2>2, <2>3
    <3>2. lock' \in [owner : {<<>>} \union (Ticks \X (0 .. now)), until : Nat]
      BY <1>1, <2>1
    <3>3. missed' \in BOOLEAN
      BY <1>1, <2>1, Zenon
    <3>4. beat' \in {-1} \union 0 .. now
      BY <1>1, <2>1
    <3> QED
      BY <1>1, <3>1, <3>2, <3>3, <3>4 DEF TickInv, Tick!TypeOK
  <2>5. lock.owner # <<>> => now >= lock.until
    BY <1>1, <1>3 DEF Tick!Locked
  <2>6. Held'
    <3> SUFFICES ASSUME NEW u \in Ticks
                 PROVE  /\ (tick'[u].pc \notin {"idle", "del"} /\ ~raced
                              /\ now < tick'[u].start + 5) =>
                             /\ lock'.owner = <<u, tick'[u].start>>
                             /\ lock'.until = tick'[u].start + 5
                        /\ tick'[u].pc = "del" => tick'[u].mine
      BY DEF Held, Running, Tick!Token
    <3>1. CASE u = t
      BY <1>1, <2>1, <2>2, <2>3, <3>1
    <3>2. CASE u # t
      <4>1. tick'[u] = tick[u]
        BY <1>1, <2>3, <3>2
      <4>2. <<u, tick[u].start>> # <<>>
        OBVIOUS
      <4>3. ASSUME Running(u), ~raced, now < tick[u].start + 5 PROVE FALSE
        <5>1. lock.owner = <<u, tick[u].start>> /\ lock.until = tick[u].start + 5
          BY <4>3 DEF TickInv, Held, Tick!Token
        <5> QED
          BY <1>1, <2>5, <4>2, <4>3, <5>1
      <4>4. tick[u].pc = "del" => tick[u].mine
        BY DEF TickInv, Held
      <4> QED
        BY <4>1, <4>3, <4>4 DEF Running
    <3> QED
      BY <3>1, <3>2
  <2>7. OnSchedule' /\ OnTimer'
    BY <1>1, <2>1 DEF TickInv, OnSchedule, OnTimer
  <2> QED
    BY <2>4, <2>6, <2>7 DEF TickInv
<1> QED
  BY <1>2, <1>3

(* A step of a tick.                                                       *)
LEMMA TickSteps ==
  ASSUME TickInv, NEW t \in Ticks, Tick!TickStep(t)
  PROVE  TickInv'
<1> USE DEF LockTtl, Tick!LockTtl, None, Tick!None, Tick!Interval, Tick!PollEvery
<1>1. /\ now \in Nat /\ now <= Horizon /\ due \in Nat /\ extra \in Nat /\ due \in 0 .. Horizon + 10
      /\ lock \in [owner : {<<>>} \union (Ticks \X (0 .. now)), until : Nat]
      /\ tick \in [Ticks -> [pc : {"idle", "sweep", "drain", "close", "get", "del"},
                             start : 0 .. now, empty : {0, 1}, mine : BOOLEAN]]
      /\ beat \in {-1} \union 0 .. now /\ mode \in {"cron", "process"}
  BY TickAssumption DEF TickInv, Tick!TypeOK
<1>2. CASE Tick!Call(t)
  BY <1>1, <1>2, TickAssumption, EnterStep DEF Tick!Call
<1>3. CASE Tick!ExtraCall(t)
  BY <1>1, <1>3, EnterStep DEF Tick!ExtraCall
<1>4. ASSUME tick[t].pc # "idle",
             NEW k \in [pc : {"idle", "drain", "close", "get", "del"}, start : {tick[t].start, 0},
                        empty : {0, 1}, mine : BOOLEAN],
             tick' = [tick EXCEPT ![t] = k],
             k.pc \notin {"idle", "del"} => k.start = tick[t].start /\ tick[t].pc # "del",
             k.pc = "del" => k.mine,
             beat' \in {beat, now}, lock' = lock /\ raced' = raced,
             UNCHANGED <<mode, now, due, worker, extra, missed>>
      PROVE  TickInv'
  <2>1. mode = "cron"
    BY <1>1, <1>4 DEF TickInv, OnTimer
  <2>2. tick[t].start \in 0 .. now /\ \A u \in Ticks \ {t} : tick'[u] = tick[u]
    BY <1>1, <1>4
  <2>3. tick'[t] = k
    BY <1>1, <1>4
  <2>4. tick' \in [Ticks -> [pc : {"idle", "sweep", "drain", "close", "get", "del"},
                            start : 0 .. now, empty : {0, 1}, mine : BOOLEAN]]
    BY <1>1, <1>4, <2>2
  <2>5. Tick!TypeOK'
    BY <1>1, <1>4, <2>4 DEF TickInv, Tick!TypeOK
  <2>6. Held'
    <3> SUFFICES ASSUME NEW u \in Ticks
                 PROVE  /\ (tick'[u].pc \notin {"idle", "del"} /\ ~raced
                              /\ now < tick'[u].start + 5) =>
                             /\ lock.owner = <<u, tick'[u].start>>
                             /\ lock.until = tick'[u].start + 5
                        /\ tick'[u].pc = "del" => tick'[u].mine
      BY <1>4 DEF Held, Running, Tick!Token
    <3>1. CASE u = t
      BY <1>4, <2>3, <3>1 DEF TickInv, Held, Running, Tick!Token
    <3>2. CASE u # t
      BY <2>2, <3>2 DEF TickInv, Held, Running, Tick!Token
    <3> QED
      BY <3>1, <3>2
  <2>7. OnSchedule'
    <3>1. /\ worker.st = "down" /\ (extra = 0 => lock.until <= due /\ now <= due)
          /\ extra = 0 /\ due > 0 /\ ~missed => beat # -1 /\ due <= beat + 6
      BY <2>1 DEF TickInv, OnSchedule
    <3>2. CASE beat' = beat
      BY <1>4, <3>1, <3>2 DEF OnSchedule
    <3>3. CASE beat' = now
      BY <1>1, <1>4, <3>1, <3>3 DEF OnSchedule
    <3> QED
      BY <1>4, <3>2, <3>3
  <2>8. OnTimer'
    BY <1>4, <2>1 DEF OnTimer
  <2> QED
    BY <2>5, <2>6, <2>7, <2>8 DEF TickInv
<1>5. CASE Tick!Del(t)
  <2>1. PICK k : k = Tick!NoTick
    OBVIOUS
  <2>2. /\ k \in [pc : {"idle"}, start : {0}, empty : {0, 1}, mine : BOOLEAN]
        /\ k.pc = "idle"
    BY <2>1 DEF Tick!NoTick
  <2>3. /\ tick[t].pc = "del" /\ lock' = Tick!Free /\ tick' = [tick EXCEPT ![t] = k]
        /\ raced' = (raced \/ (tick[t].mine /\ lock.owner # Tick!Token(t)))
        /\ UNCHANGED <<mode, now, due, beat, worker, extra, missed>>
    BY <1>5, <2>1 DEF Tick!Del
  <2>4. /\ tick' \in [Ticks -> [pc : {"idle", "sweep", "drain", "close", "get", "del"},
                              start : 0 .. now, empty : {0, 1}, mine : BOOLEAN]]
        /\ tick'[t] = k /\ \A u \in Ticks \ {t} : tick'[u] = tick[u]
    BY <1>1, <2>2, <2>3
  <2>5. lock' \in [owner : {<<>>} \union (Ticks \X (0 .. now)), until : Nat] /\ lock'.until = 0
    BY <2>3 DEF Tick!Free
  <2>6. raced' \in BOOLEAN
    BY <2>3 DEF TickInv, Tick!TypeOK
  <2>7. Tick!TypeOK'
    BY <2>3, <2>4, <2>5, <2>6 DEF TickInv, Tick!TypeOK
  <2>8. Held'
    <3> SUFFICES ASSUME NEW u \in Ticks
                 PROVE  /\ ~(/\ tick'[u].pc \notin {"idle", "del"} /\ ~raced'
                             /\ now < tick'[u].start + 5)
                        /\ tick'[u].pc = "del" => tick'[u].mine
      BY <2>3 DEF Held, Running
    <3>1. CASE u = t
      BY <2>2, <2>4, <3>1
    <3>2. CASE u # t
      <4>1. tick'[u] = tick[u] /\ (tick[u].pc = "del" => tick[u].mine) /\ tick[t].mine
        BY <2>3, <2>4, <3>2 DEF TickInv, Held
      <4>2. ASSUME Running(u), ~raced', now < tick[u].start + 5 PROVE FALSE
        <5>1. ~raced /\ lock.owner = Tick!Token(t)
          BY <2>3, <4>1, <4>2
        <5>2. lock.owner = Tick!Token(u)
          BY <4>2, <5>1 DEF TickInv, Held
        <5> QED
          BY <3>2, <5>1, <5>2 DEF Tick!Token
      <4> QED
        BY <4>1, <4>2 DEF Running
    <3> QED
      BY <3>1, <3>2
  <2>9. OnSchedule' /\ OnTimer'
    <3>1. mode = "cron"
      BY <1>1, <2>3 DEF TickInv, OnTimer
    <3> QED
      BY <1>1, <2>3, <2>5, <3>1 DEF TickInv, OnSchedule, OnTimer
  <2> QED
    BY <2>7, <2>8, <2>9 DEF TickInv
<1>6. CASE Tick!StartWorker(t) \/ Tick!CheckQueue(t) \/ Tick!Close(t)
  <2>1. PICK pc \in {"sweep", "drain", "close", "get"}, n \in {0, 1} :
          /\ tick[t].pc \in {"sweep", "drain", "close"}
          /\ \/ tick' = [tick EXCEPT ![t].pc = pc] /\ pc # "sweep"
             \/ tick' = [tick EXCEPT ![t].empty = n] /\ tick[t].pc = "drain"
          /\ beat' \in {beat, now}
          /\ UNCHANGED <<mode, now, due, lock, worker, extra, missed, raced>>
    BY <1>6 DEF Tick!StartWorker, Tick!CheckQueue, Tick!Close, Tick!Goto
  <2>2. PICK k : /\ tick' = [tick EXCEPT ![t] = k]
                 /\ \/ k = [tick[t] EXCEPT !.pc = pc] /\ pc # "sweep"
                    \/ k = [tick[t] EXCEPT !.empty = n] /\ tick[t].pc = "drain"
    BY <1>1, <2>1
  <2>3. /\ k \in [pc : {"idle", "drain", "close", "get", "del"}, start : {tick[t].start, 0},
                  empty : {0, 1}, mine : BOOLEAN]
        /\ k.start = tick[t].start /\ k.pc # "del"
    BY <1>1, <2>1, <2>2
  <2> QED
    BY <1>4, <2>1, <2>2, <2>3
<1>7. CASE Tick!Get(t)
  <2>1. PICK pc \in {"del", "idle"}, mine \in BOOLEAN :
          /\ tick[t].pc = "get" /\ (pc = "del" => mine)
          /\ tick' = [tick EXCEPT ![t].pc = pc, ![t].mine = mine]
          /\ UNCHANGED <<mode, now, due, lock, beat, worker, extra, missed, raced>>
    <3>1. PICK mine \in BOOLEAN : mine = (Tick!Locked /\ lock.owner = Tick!Token(t))
      OBVIOUS
    <3>2. CASE mine
      BY <1>7, <3>1, <3>2 DEF Tick!Get
    <3>3. CASE ~mine
      BY <1>7, <3>1, <3>3 DEF Tick!Get
    <3> QED
      BY <3>2, <3>3
  <2>2. PICK k : /\ tick' = [tick EXCEPT ![t] = k]
                 /\ k = [tick[t] EXCEPT !.pc = pc, !.mine = mine]
    BY <1>1, <2>1
  <2>3. /\ k \in [pc : {"idle", "drain", "close", "get", "del"}, start : {tick[t].start, 0},
                  empty : {0, 1}, mine : BOOLEAN]
        /\ k.pc = pc /\ k.mine = mine
    BY <1>1, <2>2
  <2> QED
    BY <1>4, <2>1, <2>2, <2>3
<1>8. CASE Tick!Kill(t)
  <2>1. /\ Tick!NoTick \in [pc : {"idle", "drain", "close", "get", "del"},
                           start : {tick[t].start, 0},
                            empty : {0, 1}, mine : BOOLEAN]
        /\ Tick!NoTick.pc = "idle"
    BY DEF Tick!NoTick
  <2> QED
    BY <1>4, <1>8, <2>1 DEF Tick!Kill
<1> QED
  BY <1>2, <1>3, <1>5, <1>6, <1>7, <1>8 DEF Tick!TickStep

(* A step of the worker process.                                           *)
LEMMA WorkerSteps == ASSUME TickInv, Tick!WorkerStep PROVE TickInv'
<1> USE DEF None, Tick!None, Tick!PollEvery, Tick!BeatEvery
<1>1. /\ now \in Nat /\ now <= Horizon /\ due \in 0 .. Horizon + 10 /\ beat \in {-1} \union 0 .. now
      /\ worker \in [st : {"down", "up", "closing"}, beat : Nat, polls : Nat]
      /\ mode \in {"cron", "process"} /\ missed \in BOOLEAN
  BY TickAssumption DEF TickInv, Tick!TypeOK
<1>2. UNCHANGED <<mode, now, lock, tick, extra, raced>>
  BY DEF Tick!WorkerStep, Tick!Boot, Tick!TimerBeat, Tick!TimerPoll, Tick!PollEnds, Tick!Shutdown,
         Tick!Exit
<1>3. mode = "process" /\ \A t \in Ticks : tick[t].pc = "idle"
  BY <1>1 DEF TickInv, OnSchedule, OnTimer, Tick!WorkerStep, Tick!Boot, Tick!TimerBeat,
     Tick!TimerPoll,
              Tick!PollEnds, Tick!Shutdown, Tick!Exit
<1>4. Held' /\ OnSchedule'
  BY <1>2, <1>3 DEF TickInv, Held, OnSchedule, Running, Tick!Token
<1>5. ASSUME worker' \in [st : {"down", "up", "closing"}, beat : Nat, polls : Nat],
             due' \in 0 .. Horizon + 10,
             \/ beat' = now /\ missed' = missed /\ worker'.beat = now + 1
             \/ beat' = beat /\ missed' = TRUE
             \/ beat' = beat /\ missed' = missed /\ worker'.st # "up"
             \/ beat' = beat /\ missed' = missed /\ worker'.beat = worker.beat /\ worker.st = "up"
      PROVE  TickInv'
  <2>1. Tick!TypeOK'
    <3>1. missed' = missed \/ missed' = TRUE
      BY <1>5, Zenon
    <3>2. missed' \in BOOLEAN
      BY <1>1, <3>1, Zenon
    <3>3. beat' = beat \/ beat' = now
      BY <1>5, Zenon
    <3>4. beat' \in {-1} \union 0 .. now
      BY <1>1, <3>3
    <3> QED
      BY <1>1, <1>2, <1>5, <3>2, <3>4 DEF TickInv, Tick!TypeOK
  <2>2. OnTimer'
    BY <1>1, <1>2, <1>3, <1>5 DEF TickInv, OnTimer
  <2> QED
    BY <1>4, <2>1, <2>2 DEF TickInv
<1>6. CASE Tick!Boot
  <2>1. /\ worker' = [st |-> "up", beat |-> now + 1, polls |-> 0] /\ due' = now
        /\ (beat' = now /\ missed' = missed) \/ (beat' = beat /\ missed' = TRUE)
    BY <1>6 DEF Tick!Boot, Tick!Beat
  <2>2. /\ worker' \in [st : {"down", "up", "closing"}, beat : Nat, polls : Nat]
        /\ worker'.beat = now + 1 /\ due' \in 0 .. Horizon + 10
    BY <1>1, <2>1, TickAssumption
  <2> QED
    BY <1>5, <2>1, <2>2, Zenon
<1>7. CASE Tick!TimerBeat
  <2>1. /\ worker' = [worker EXCEPT !.beat = now + 1] /\ due' = due
        /\ (beat' = now /\ missed' = missed) \/ (beat' = beat /\ missed' = TRUE)
    BY <1>7 DEF Tick!TimerBeat, Tick!Beat
  <2>2. /\ worker' \in [st : {"down", "up", "closing"}, beat : Nat, polls : Nat]
        /\ worker'.beat = now + 1 /\ due' \in 0 .. Horizon + 10
    BY <1>1, <2>1
  <2> QED
    BY <1>5, <2>1, <2>2, Zenon
<1>8. CASE Tick!TimerPoll
  <2>1. /\ worker' = [worker EXCEPT !.polls = @ + 1] /\ due' = now + 10 /\ worker.st = "up"
        /\ beat' = beat /\ missed' = missed
    BY <1>8 DEF Tick!TimerPoll
  <2>2. /\ worker' \in [st : {"down", "up", "closing"}, beat : Nat, polls : Nat]
        /\ worker'.beat = worker.beat /\ due' \in 0 .. Horizon + 10
    BY <1>1, <2>1, TickAssumption
  <2> QED
    BY <1>5, <2>1, <2>2, Zenon
<1>9. CASE Tick!PollEnds
  BY <1>1, <1>5, <1>9 DEF Tick!PollEnds
<1>10. CASE Tick!Shutdown
  BY <1>1, <1>5, <1>10 DEF Tick!Shutdown
<1>11. CASE Tick!Exit
  BY <1>1, <1>5, <1>11 DEF Tick!Exit, Tick!Down
<1> QED
  BY <1>6, <1>7, <1>8, <1>9, <1>10, <1>11 DEF Tick!WorkerStep

(* Time passes up to what is due.                                          *)
LEMMA PassStep == ASSUME TickInv, Tick!Pass PROVE TickInv'
<1> USE DEF None, Tick!None, LockTtl, Tick!LockTtl
<1>1. /\ now \in Nat /\ now < Horizon /\ now' = now + 1 /\ Horizon \in Nat /\ due \in Nat
      /\ UNCHANGED <<mode, due, lock, tick, beat, worker, extra, missed, raced>>
      /\ (mode = "cron" => now < due) /\ (worker.st = "up" => now < worker.beat)
      /\ worker.beat \in Nat
      /\ lock \in [owner : {<<>>} \union (Ticks \X (0 .. now)), until : Nat]
      /\ tick \in [Ticks -> [pc : {"idle", "sweep", "drain", "close", "get", "del"},
                             start : 0 .. now, empty : {0, 1}, mine : BOOLEAN]]
      /\ beat \in {-1} \union 0 .. now
  BY TickAssumption DEF Tick!Pass, TickInv, Tick!TypeOK
<1>2. 0 .. now \subseteq 0 .. now'
  BY <1>1
<1>3. Tick!TypeOK'
  <2>1. lock' \in [owner : {<<>>} \union (Ticks \X (0 .. now')), until : Nat]
    BY <1>1, <1>2
  <2>2. tick' \in [Ticks -> [pc : {"idle", "sweep", "drain", "close", "get", "del"},
                            start : 0 .. now', empty : {0, 1}, mine : BOOLEAN]]
    BY <1>1, <1>2
  <2>3. now' \in 0 .. Horizon /\ beat' \in {-1} \union 0 .. now'
    BY <1>1
  <2> QED
    BY <1>1, <2>1, <2>2, <2>3 DEF TickInv, Tick!TypeOK
<1>4. Held'
  BY <1>1 DEF TickInv, Held, Running, Tick!Token
<1>5. OnSchedule' /\ OnTimer'
  BY <1>1 DEF TickInv, OnSchedule, OnTimer
<1> QED
  BY <1>3, <1>4, <1>5 DEF TickInv

LEMMA TickInvariance == Tick!Spec => []TickInv
<1>1. Tick!Init => TickInv
  BY TickInit
<1>2. TickInv /\ [Tick!Next]_(Tick!vars) => TickInv'
  <2> SUFFICES ASSUME TickInv, [Tick!Next]_(Tick!vars) PROVE TickInv'
    OBVIOUS
  <2>1. CASE Tick!Next
    BY <2>1, TickSteps, WorkerSteps, PassStep DEF Tick!Next
  <2>2. CASE UNCHANGED Tick!vars
    <3>1. /\ mode' = mode /\ now' = now /\ due' = due /\ lock' = lock /\ tick' = tick
          /\ beat' = beat /\ worker' = worker /\ extra' = extra /\ missed' = missed
          /\ raced' = raced
      BY <2>2 DEF Tick!vars
    <3>2. Tick!TypeOK'
      BY <3>1 DEF TickInv, Tick!TypeOK
    <3> QED
      BY <3>1, <3>2 DEF TickInv, Held, OnSchedule, OnTimer, Running, Tick!Token
  <2> QED
    BY <2>1, <2>2
<1> QED
  BY <1>1, <1>2, PTL DEF Tick!Spec

(* The variables of ticks, lock, heartbeat and worker keep their types.    *)
THEOREM TickTyped == Tick!Spec => []Tick!TypeOK
<1>1. TickInv => Tick!TypeOK
  BY DEF TickInv
<1> QED
  BY <1>1, TickInvariance, PTL

(* Of two ticks at work at once the older has outlived the lock, whatever  *)
(* calls come from outside the schedule and whichever ticks are killed.    *)
THEOREM OneTickRuns == Tick!Spec => []OneTick
<1>1. TickInv => OneTick
  <2> SUFFICES ASSUME TickInv, NEW t \in Ticks, NEW u \in Ticks, t # u, Running(t), Running(u),
                      ~raced, ~(now >= tick[t].start + LockTtl), ~(now >= tick[u].start + LockTtl)
               PROVE  FALSE
    BY DEF OneTick
  <2>1. /\ now \in Nat /\ tick[t].start \in Nat /\ tick[u].start \in Nat
    BY TickAssumption DEF TickInv, Tick!TypeOK
  <2>2. lock.owner = Tick!Token(t) /\ lock.owner = Tick!Token(u)
    BY <2>1 DEF TickInv, Held, LockTtl
  <2> QED
    BY <2>2 DEF Tick!Token
<1> QED
  BY <1>1, TickInvariance, PTL

(* The health check answers well from the first heartbeat on, as long as   *)
(* Redis takes the heartbeats: on the schedule alone with whatever ticks   *)
(* killed, and in the process until it is told to stop.                    *)
THEOREM HealthStays == Tick!Spec => []HealthHolds
<1>1. TickInv => HealthHolds
  <2> SUFFICES ASSUME TickInv, ~missed, ~(mode = "cron" /\ (extra > 0 \/ due = 0)),
                      ~(mode = "process" /\ worker.st # "up")
               PROVE  Healthy
    BY DEF HealthHolds
  <2>1. /\ now \in Nat /\ due \in Nat /\ beat \in {-1} \union Nat /\ mode \in {"cron", "process"}
        /\ worker.beat \in Nat /\ extra \in Nat
    BY TickAssumption DEF TickInv, Tick!TypeOK, Tick!None
  <2>2. CASE mode = "cron"
    BY <2>1, <2>2 DEF TickInv, OnSchedule, Healthy, BeatTtl, Tick!Interval, None
  <2>3. CASE mode = "process"
    BY <2>1, <2>3 DEF TickInv, OnTimer, Healthy, BeatTtl, Tick!BeatEvery, None
  <2> QED
    BY <2>1, <2>2, <2>3
<1> QED
  BY <1>1, TickInvariance, PTL
=============================================================================
