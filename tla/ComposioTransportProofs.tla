----------------------- MODULE ComposioTransportProofs -----------------------
(***************************************************************************)
(* Machine-checked proofs about ComposioTransport, for any set of callers  *)
(* and of requests.                                                        *)
(***************************************************************************)
EXTENDS ComposioTransport, TLAPS

(* The callers between their claim and its end, and those of them whose    *)
(* request is known not to have been, or to have been, delivered.          *)
Holding == {"fetch", "waiting", "accepted", "refused", "record", "release"}
Unsent == {"fetch", "waiting", "refused", "release"}
Sent == {"accepted", "record"}

(* A claim has one holder, and counts the copies that are delivered or on  *)
(* the line: none while it is free, one at most when it is not.            *)
HoldersClaimed ==
  \A c \in Callers : pc[c] \in Holding => receipt[Key(c)] = "claimed"

OneHolder ==
  \A c, d \in Callers :
    pc[c] \in Holding /\ pc[d] \in Holding /\ Key(c) = Key(d) => c = d

HoldersKnow ==
  \A c \in Callers :
    /\ pc[c] \in Unsent => delivered[Msg(c)] = 0 /\ wire[Msg(c)] = 0
    /\ pc[c] \in Sent => delivered[Msg(c)] = 1 /\ wire[Msg(c)] = 0

FreeMeansUnsent ==
  \A r \in Requests : receipt[ReceiptId(r)] = "none" =>
    delivered[Message(r)] = 0 /\ wire[Message(r)] = 0

AnsweredMeansSent ==
  \A r \in Requests : receipt[ReceiptId(r)] = "answered" =>
    delivered[Message(r)] = 1

OneCopy == \A m \in Messages : delivered[m] + wire[m] <= 1

IInv ==
  /\ TypeOK
  /\ HoldersClaimed
  /\ OneHolder
  /\ HoldersKnow
  /\ FreeMeansUnsent
  /\ AnsweredMeansSent
  /\ OneCopy
  /\ OkMeansDelivered

-----------------------------------------------------------------------------
(* The receipt's key tells apart exactly the messages that must be told    *)
(* apart: two requests share a receipt when, and only when, delivering     *)
(* both would give the recipient the same thing twice.                     *)
THEOREM ReceiptPerMessage ==
  \A r, s \in Requests : ReceiptId(r) = ReceiptId(s) <=> Message(r) = Message(s)
<1> SUFFICES ASSUME NEW r \in Requests, NEW s \in Requests
             PROVE ReceiptId(r) = ReceiptId(s) <=> Message(r) = Message(s)
  OBVIOUS
<1>1. r.kind \in Kinds /\ s.kind \in Kinds
  BY RequestsAssumption DEF RequestOK
<1>2. CASE r.kind = "public-reply"
  BY <1>1, <1>2 DEF ReceiptId, Message, Path, Kinds
<1>3. CASE r.kind = "private-reply"
  BY <1>1, <1>3 DEF ReceiptId, Message, Path, Kinds
<1>4. CASE r.kind = "direct"
  BY <1>1, <1>4 DEF ReceiptId, Message, Path, Kinds
<1> QED BY <1>1, <1>2, <1>3, <1>4 DEF Kinds

(* A request's receipt and message are in range.                           *)
LEMMA KeysInRange ==
  ASSUME NEW r \in Requests
  PROVE ReceiptId(r) \in ReceiptIds /\ Message(r) \in Messages
BY DEF ReceiptIds, Messages

(* Every state is well typed: in particular a caller past its first call   *)
(* has a request, so its key and its message are in range.                 *)
LEMMA TypeInit == Init => TypeOK
BY DEF Init, TypeOK, Ended, Running

(* No step leaves the types.                                               *)
LEMMA TypeStep == TypeOK /\ [Next]_vars => TypeOK'
<1> SUFFICES ASSUME TypeOK, [Next]_vars PROVE TypeOK'
  OBVIOUS
<1> USE DEF TypeOK
<1>0. \A c \in Callers : pc[c] # "idle" =>
        req[c] \in Requests /\ Key(c) \in ReceiptIds /\ Msg(c) \in Messages
  BY KeysInRange DEF Key, Msg
<1>1. ASSUME NEW c \in Callers, NEW r \in Requests, Call(c, r) PROVE TypeOK'
  BY <1>1 DEF Call, Running
<1>2. ASSUME NEW c \in Callers, CallerStep(c) PROVE TypeOK'
  <2>1. CASE Claim(c) \/ ClaimConflict(c) \/ ClaimFails(c)
    BY <1>0, <2>1 DEF Claim, ClaimConflict, ClaimFails, Go, Put, Ended, Running
  <2>2. CASE Lookup(c) \/ Fetch(c) \/ Answer(c)
    BY <2>2 DEF Lookup, Fetch, Answer, Go, Ended, Running
  <2>3. CASE DoubtfulAnswer(c)
    BY <1>0, <2>3 DEF DoubtfulAnswer, Abandon, Ended
  <2>4. CASE Record(c) \/ Release(c)
    BY <1>0, <2>4 DEF Record, Release, Go, Put, Ended
  <2> QED BY <1>2, <2>1, <2>2, <2>3, <2>4 DEF CallerStep
<1>3. ASSUME NEW c \in Callers, Crash(c) PROVE TypeOK'
  BY <1>0, <1>3 DEF Crash, Abandon, Ended, Running
<1>4. CASE Proxy
  <2>1. ASSUME NEW c \in Callers, ProxyDelivers(c) \/ ProxyRefuses(c)
        PROVE TypeOK'
    BY <1>0, <2>1 DEF ProxyDelivers, ProxyRefuses, Go, Running
  <2>2. ASSUME NEW m \in Messages, ProxyDeliversLate(m) \/ ProxyDrops(m)
        PROVE TypeOK'
    BY <2>2 DEF ProxyDeliversLate, ProxyDrops
  <2> QED BY <1>4, <2>1, <2>2 DEF Proxy
<1>5. CASE UNCHANGED vars
  BY <1>5 DEF vars
<1> QED BY <1>1, <1>2, <1>3, <1>4, <1>5 DEF Next

(* The type invariant holds for every set of callers and requests.         *)
THEOREM TypeCorrect == Spec => []TypeOK
BY TypeInit, TypeStep, PTL DEF Spec

-----------------------------------------------------------------------------
(* Initially nothing is claimed, on the line or delivered.                 *)
LEMMA InvInit == Init => IInv
<1> SUFFICES ASSUME Init PROVE IInv
  OBVIOUS
<1>1. TypeOK
  BY TypeInit
<1> QED
  BY <1>1 DEF Init, IInv, HoldersClaimed, OneHolder, HoldersKnow, Holding, Unsent,
       Sent, FreeMeansUnsent, AnsweredMeansSent, OneCopy, OkMeansDelivered,
       ReceiptIds, Messages

(* What a step by caller c may assume: its request is in range and nobody  *)
(* else holds c's claim.                                                   *)
LEMMA Ranges ==
  ASSUME TypeOK
  PROVE \A c \in Callers : pc[c] # "idle" =>
          req[c] \in Requests /\ Key(c) \in ReceiptIds /\ Msg(c) \in Messages
BY KeysInRange DEF TypeOK, Key, Msg

(* ReceiptPerMessage, for a caller's request.                              *)
LEMMA SameKeySameMessage ==
  ASSUME TypeOK,
         NEW c \in Callers, pc[c] # "idle"
  PROVE /\ \A r \in Requests : ReceiptId(r) = Key(c) <=> Message(r) = Msg(c)
        /\ \A d \in Callers : pc[d] # "idle" => (Key(d) = Key(c) <=> Msg(d) = Msg(c))
BY ReceiptPerMessage DEF TypeOK, Key, Msg

(* A claim is made: its message was neither delivered nor on the line,     *)
(* because the receipt was free.                                           *)
LEMMA ClaimStep ==
  ASSUME IInv, TypeOK', NEW c \in Callers, Claim(c)
  PROVE IInv'
<1> USE DEF IInv
<1>0. /\ pc[c] = "create" /\ req[c] \in Requests /\ Key(c) \in ReceiptIds
      /\ receipt[Key(c)] = "none"
      /\ delivered[Msg(c)] = 0 /\ wire[Msg(c)] = 0
  BY Ranges DEF Claim, Go, FreeMeansUnsent, Key, Msg
<1>1. /\ \A d \in Callers : Key(d)' = Key(d) /\ Msg(d)' = Msg(d)
      /\ \A d \in Callers : d # c => pc'[d] = pc[d]
      /\ pc'[c] = "fetch"
      /\ receipt'[Key(c)] = "claimed"
      /\ \A k \in ReceiptIds : k # Key(c) => receipt'[k] = receipt[k]
      /\ wire' = wire /\ delivered' = delivered
  BY <1>0 DEF Claim, Go, Put, Key, Msg, TypeOK
<1>2. \A d \in Callers : pc[d] \in Holding => Key(d) \in ReceiptIds /\ Key(d) # Key(c)
  BY <1>0, Ranges DEF HoldersClaimed, Holding
<1>3. HoldersClaimed'
  BY <1>1, <1>2 DEF HoldersClaimed, Holding
<1>4. OneHolder'
  BY <1>0, <1>1, <1>2 DEF OneHolder, Holding
<1>5. HoldersKnow'
  BY <1>0, <1>1 DEF HoldersKnow, Unsent, Sent
<1>6. FreeMeansUnsent' /\ AnsweredMeansSent'
  BY <1>0, <1>1, KeysInRange DEF FreeMeansUnsent, AnsweredMeansSent
<1>7. OneCopy' /\ OkMeansDelivered'
  BY <1>1 DEF OneCopy, OkMeansDelivered
<1> QED BY <1>3, <1>4, <1>5, <1>6, <1>7

(* The steps of a caller that change neither the receipts nor the line.    *)
LEMMA QuietStep ==
  ASSUME IInv, TypeOK', NEW c \in Callers,
         ClaimConflict(c) \/ Lookup(c) \/ Fetch(c) \/ Answer(c) \/ ProxyRefuses(c)
  PROVE IInv'
<1> USE DEF IInv
<1>1. /\ \A d \in Callers : Key(d)' = Key(d) /\ Msg(d)' = Msg(d)
      /\ \A d \in Callers : d # c => pc'[d] = pc[d]
      /\ receipt' = receipt /\ wire' = wire /\ delivered' = delivered
  BY DEF ClaimConflict, Lookup, Fetch, Answer, ProxyRefuses, Go, Key, Msg, TypeOK
<1>2. /\ pc'[c] \in Holding => pc[c] \in Holding
      /\ pc'[c] \in Unsent => pc[c] \in Unsent
      /\ pc'[c] \in Sent => pc[c] \in Sent
  BY DEF ClaimConflict, Lookup, Fetch, Answer, ProxyRefuses, Go, TypeOK, Holding,
         Unsent, Sent
<1>3. pc'[c] = "ok" => delivered[Msg(c)] = 1
  <2>1. CASE Lookup(c)
    <3>1. pc[c] = "lookup" /\ req[c] \in Requests
      BY <2>1, Ranges DEF Lookup, Go
    <3>2. pc'[c] = "ok" => receipt[Key(c)] = "answered"
      BY <2>1 DEF Lookup, Go, TypeOK
    <3> QED BY <3>1, <3>2 DEF AnsweredMeansSent, Key, Msg
  <2>2. CASE ClaimConflict(c) \/ Fetch(c) \/ Answer(c) \/ ProxyRefuses(c)
    BY <2>2 DEF ClaimConflict, Fetch, Answer, ProxyRefuses, Go, TypeOK
  <2> QED BY <2>1, <2>2
<1>4. HoldersClaimed' /\ OneHolder'
  BY <1>1, <1>2 DEF HoldersClaimed, OneHolder
<1>5. HoldersKnow'
  BY <1>1, <1>2 DEF HoldersKnow
<1>6. FreeMeansUnsent' /\ AnsweredMeansSent' /\ OneCopy'
  BY <1>1 DEF FreeMeansUnsent, AnsweredMeansSent, OneCopy
<1>7. OkMeansDelivered'
  BY <1>1, <1>3 DEF OkMeansDelivered
<1> QED BY <1>4, <1>5, <1>6, <1>7

(* A claim whose statement fails: the row may be there, but nobody holds   *)
(* it, so it only blocks.                                                  *)
LEMMA ClaimFailsStep ==
  ASSUME IInv, TypeOK', NEW c \in Callers, ClaimFails(c)
  PROVE IInv'
<1> USE DEF IInv
<1>0. pc[c] = "create" /\ pc'[c] = "error" /\ Key(c) \in ReceiptIds
  BY Ranges DEF ClaimFails, Go, TypeOK
<1>1. /\ \A d \in Callers : Key(d)' = Key(d) /\ Msg(d)' = Msg(d)
      /\ \A d \in Callers : d # c => pc'[d] = pc[d]
      /\ wire' = wire /\ delivered' = delivered
  BY DEF ClaimFails, Go, Key, Msg, TypeOK
<1>2. \A k \in ReceiptIds :
        receipt'[k] = receipt[k] \/ (receipt[k] = "none" /\ receipt'[k] = "claimed")
  BY <1>0 DEF ClaimFails, Put, TypeOK
<1>3. HoldersClaimed'
  BY <1>0, <1>1, <1>2, Ranges DEF HoldersClaimed, Holding
<1>4. OneHolder' /\ HoldersKnow'
  BY <1>0, <1>1 DEF OneHolder, HoldersKnow, Holding, Unsent, Sent
<1>5. FreeMeansUnsent' /\ AnsweredMeansSent'
  BY <1>1, <1>2, KeysInRange DEF FreeMeansUnsent, AnsweredMeansSent
<1>6. OneCopy' /\ OkMeansDelivered'
  BY <1>0, <1>1 DEF OneCopy, OkMeansDelivered
<1> QED BY <1>3, <1>4, <1>5, <1>6

(* A caller gives up, or dies, with its request possibly on the line: the  *)
(* request it leaves behind is then the message's one copy, and the claim  *)
(* stays, without a holder.                                                *)
LEMMA GiveUpStep ==
  ASSUME IInv, TypeOK', NEW c \in Callers, DoubtfulAnswer(c) \/ Crash(c)
  PROVE IInv'
<1> USE DEF IInv
<1>0. /\ pc[c] \in Running
      /\ pc'[c] \in {"unconfirmed", "crashed"}
      /\ Msg(c) \in Messages
  BY Ranges DEF DoubtfulAnswer, Crash, TypeOK, Running
<1>1. /\ \A d \in Callers : Key(d)' = Key(d) /\ Msg(d)' = Msg(d)
      /\ \A d \in Callers : d # c => pc'[d] = pc[d]
      /\ receipt' = receipt /\ delivered' = delivered
  BY DEF DoubtfulAnswer, Crash, Key, Msg, TypeOK
<1>2. /\ \A m \in Messages : m # Msg(c) => wire'[m] = wire[m]
      /\ pc[c] = "waiting" => wire'[Msg(c)] = wire[Msg(c)] + 1
      /\ pc[c] # "waiting" => wire' = wire
  BY <1>0 DEF DoubtfulAnswer, Crash, Abandon, TypeOK
<1>3. CASE pc[c] # "waiting"
  BY <1>0, <1>1, <1>2, <1>3 DEF HoldersClaimed, OneHolder, HoldersKnow, Holding,
     Unsent, Sent, FreeMeansUnsent, AnsweredMeansSent, OneCopy, OkMeansDelivered
<1>4. CASE pc[c] = "waiting"
  <2>1. /\ receipt[Key(c)] = "claimed"
        /\ delivered[Msg(c)] = 0 /\ wire[Msg(c)] = 0 /\ wire'[Msg(c)] = 1
    BY <1>2, <1>4 DEF HoldersClaimed, HoldersKnow, Holding, Unsent
  <2>2. \A d \in Callers : d # c /\ pc[d] \in Holding =>
           Msg(d) \in Messages /\ Msg(d) # Msg(c)
    BY <1>4, Ranges, SameKeySameMessage DEF OneHolder, Holding
  <2>3. HoldersClaimed' /\ OneHolder'
    BY <1>0, <1>1 DEF HoldersClaimed, OneHolder, Holding
  <2>4. HoldersKnow'
    BY <1>0, <1>1, <1>2, <2>2 DEF HoldersKnow, Unsent, Sent, Holding
  <2>5. FreeMeansUnsent'
    <3> SUFFICES ASSUME NEW r \in Requests, receipt[ReceiptId(r)] = "none"
                 PROVE delivered[Message(r)] = 0 /\ wire'[Message(r)] = 0
      BY <1>1 DEF FreeMeansUnsent
    <3>1. Message(r) # Msg(c)
      BY <1>4, <2>1, SameKeySameMessage
    <3> QED BY <1>2, <3>1, KeysInRange DEF FreeMeansUnsent
  <2>6. OneCopy'
    BY <1>1, <1>2, <2>1 DEF OneCopy
  <2>7. AnsweredMeansSent' /\ OkMeansDelivered'
    BY <1>0, <1>1 DEF AnsweredMeansSent, OkMeansDelivered
  <2> QED BY <2>3, <2>4, <2>5, <2>6, <2>7
<1> QED BY <1>3, <1>4

(* The holder of a claim writes the answer on it, or frees it: it knows    *)
(* whether the message was delivered.                                      *)
LEMMA SettleStep ==
  ASSUME IInv, TypeOK', NEW c \in Callers, Record(c) \/ Release(c)
  PROVE IInv'
<1> USE DEF IInv
<1>0. /\ pc[c] \in {"record", "release"} /\ pc'[c] \notin Holding
      /\ req[c] \in Requests /\ Key(c) \in ReceiptIds /\ Msg(c) \in Messages
  BY Ranges DEF Record, Release, Go, TypeOK, Holding
<1>1. /\ \A d \in Callers : Key(d)' = Key(d) /\ Msg(d)' = Msg(d)
      /\ \A d \in Callers : d # c => pc'[d] = pc[d]
      /\ wire' = wire /\ delivered' = delivered
  BY DEF Record, Release, Go, Key, Msg, TypeOK
<1>2. /\ \A k \in ReceiptIds : k # Key(c) => receipt'[k] = receipt[k]
      /\ pc[c] = "record" => receipt'[Key(c)] \in {"answered", receipt[Key(c)]}
      /\ pc[c] = "release" => receipt'[Key(c)] \in {"none", receipt[Key(c)]}
      /\ pc'[c] = "ok" => pc[c] = "record"
  BY <1>0 DEF Record, Release, Put, Go, TypeOK
<1>3. /\ pc[c] = "record" => delivered[Msg(c)] = 1
      /\ pc[c] = "release" => delivered[Msg(c)] = 0 /\ wire[Msg(c)] = 0
  BY DEF HoldersKnow, Unsent, Sent
<1>4. \A d \in Callers : d # c /\ pc[d] \in Holding =>
         Key(d) \in ReceiptIds /\ Key(d) # Key(c)
  BY <1>0, Ranges DEF OneHolder, Holding
<1>5. HoldersClaimed' /\ OneHolder'
  BY <1>0, <1>1, <1>2, <1>4 DEF HoldersClaimed, OneHolder
<1>6. HoldersKnow'
  BY <1>0, <1>1 DEF HoldersKnow, Holding, Unsent, Sent
<1>7. \A r \in Requests : ReceiptId(r) = Key(c) => Message(r) = Msg(c)
  BY <1>0, SameKeySameMessage
<1>8. FreeMeansUnsent' /\ AnsweredMeansSent'
  BY <1>0, <1>1, <1>2, <1>3, <1>7, KeysInRange DEF FreeMeansUnsent, AnsweredMeansSent
<1>9. OneCopy' /\ OkMeansDelivered'
  BY <1>1, <1>2, <1>3 DEF OneCopy, OkMeansDelivered
<1> QED BY <1>5, <1>6, <1>8, <1>9

(* The proxy delivers the request of a waiting caller, which was its       *)
(* message's only copy.                                                    *)
LEMMA DeliverStep ==
  ASSUME IInv, TypeOK', NEW c \in Callers, ProxyDelivers(c)
  PROVE IInv'
<1> USE DEF IInv
<1>0. /\ pc[c] = "waiting" /\ pc'[c] = "accepted"
      /\ req[c] \in Requests /\ Msg(c) \in Messages
      /\ receipt[Key(c)] = "claimed"
      /\ delivered[Msg(c)] = 0 /\ wire[Msg(c)] = 0
  BY Ranges DEF ProxyDelivers, Go, TypeOK, HoldersClaimed, HoldersKnow, Holding, Unsent
<1>1. /\ \A d \in Callers : Key(d)' = Key(d) /\ Msg(d)' = Msg(d)
      /\ \A d \in Callers : d # c => pc'[d] = pc[d]
      /\ receipt' = receipt /\ wire' = wire
      /\ delivered'[Msg(c)] = 1
      /\ \A m \in Messages : m # Msg(c) => delivered'[m] = delivered[m]
  BY <1>0 DEF ProxyDelivers, Go, Key, Msg, TypeOK
<1>2. \A d \in Callers : d # c /\ pc[d] \in Holding =>
         Msg(d) \in Messages /\ Msg(d) # Msg(c)
  BY <1>0, Ranges, SameKeySameMessage DEF OneHolder, Holding
<1>3. HoldersClaimed' /\ OneHolder'
  BY <1>0, <1>1 DEF HoldersClaimed, OneHolder, Holding
<1>4. HoldersKnow'
  BY <1>0, <1>1, <1>2 DEF HoldersKnow, Holding, Unsent, Sent
<1>5. \A r \in Requests : receipt[ReceiptId(r)] # "claimed" => Message(r) # Msg(c)
  BY <1>0, SameKeySameMessage
<1>6. FreeMeansUnsent' /\ AnsweredMeansSent'
  BY <1>1, <1>5, KeysInRange DEF FreeMeansUnsent, AnsweredMeansSent
<1>7. OneCopy'
  BY <1>0, <1>1 DEF OneCopy
<1>8. OkMeansDelivered'
  BY <1>0, <1>1, Ranges DEF OkMeansDelivered
<1> QED BY <1>3, <1>4, <1>6, <1>7, <1>8

(* A request without a caller is carried out, or lost: no holder and no    *)
(* free receipt counts on its message.                                     *)
LEMMA LateStep ==
  ASSUME IInv, TypeOK', NEW m \in Messages, ProxyDeliversLate(m) \/ ProxyDrops(m)
  PROVE IInv'
<1> USE DEF IInv
<1>0. wire[m] = 1 /\ delivered[m] = 0
  <2>1. wire[m] \in Nat /\ delivered[m] \in Nat /\ wire[m] > 0
    BY DEF ProxyDeliversLate, ProxyDrops, TypeOK
  <2>2. delivered[m] + wire[m] <= 1
    BY DEF OneCopy
  <2> QED BY <2>1, <2>2
<1>1. /\ wire'[m] = 0 /\ delivered'[m] \in {0, 1}
      /\ \A n \in Messages : n # m => wire'[n] = wire[n] /\ delivered'[n] = delivered[n]
      /\ pc' = pc /\ receipt' = receipt
      /\ \A d \in Callers : Key(d)' = Key(d) /\ Msg(d)' = Msg(d)
  BY <1>0 DEF ProxyDeliversLate, ProxyDrops, TypeOK, Key, Msg
<1>2. HoldersClaimed' /\ OneHolder'
  BY <1>1 DEF HoldersClaimed, OneHolder
<1>3. HoldersKnow'
  BY <1>0, <1>1, Ranges DEF HoldersKnow, Unsent, Sent
<1>4. FreeMeansUnsent' /\ AnsweredMeansSent'
  BY <1>0, <1>1, KeysInRange DEF FreeMeansUnsent, AnsweredMeansSent
<1>5. OneCopy' /\ OkMeansDelivered'
  BY <1>0, <1>1, Ranges DEF OneCopy, OkMeansDelivered
<1> QED BY <1>2, <1>3, <1>4, <1>5

(* A caller that is not holding a claim takes up another request.          *)
LEMMA CallStep ==
  ASSUME IInv, TypeOK', NEW c \in Callers, NEW r \in Requests, Call(c, r)
  PROVE IInv'
<1> USE DEF IInv
<1>1. /\ \A d \in Callers : d # c =>
           pc'[d] = pc[d] /\ Key(d)' = Key(d) /\ Msg(d)' = Msg(d)
      /\ pc'[c] = "create"
      /\ receipt' = receipt /\ wire' = wire /\ delivered' = delivered
  BY DEF Call, Key, Msg, TypeOK
<1>2. HoldersClaimed' /\ OneHolder' /\ HoldersKnow'
  BY <1>1 DEF HoldersClaimed, OneHolder, HoldersKnow, Holding, Unsent, Sent
<1>3. FreeMeansUnsent' /\ AnsweredMeansSent' /\ OneCopy' /\ OkMeansDelivered'
  BY <1>1 DEF FreeMeansUnsent, AnsweredMeansSent, OneCopy, OkMeansDelivered
<1> QED BY <1>2, <1>3

(* Every step preserves the inductive invariant.                           *)
LEMMA InvStep == IInv /\ [Next]_vars => IInv'
<1> SUFFICES ASSUME IInv, [Next]_vars PROVE IInv'
  OBVIOUS
<1>0. TypeOK'
  BY TypeStep DEF IInv
<1>1. ASSUME NEW c \in Callers, CallerStep(c) PROVE IInv'
  BY <1>0, <1>1, ClaimStep, QuietStep, ClaimFailsStep, GiveUpStep, SettleStep
  DEF CallerStep
<1>2. ASSUME NEW c \in Callers, Crash(c) PROVE IInv'
  BY <1>0, <1>2, GiveUpStep
<1>3. ASSUME NEW c \in Callers, NEW r \in Requests, Call(c, r) PROVE IInv'
  BY <1>0, <1>3, CallStep
<1>4. CASE Proxy
  BY <1>0, <1>4, DeliverStep, QuietStep, LateStep DEF Proxy
<1>5. CASE UNCHANGED vars
  BY <1>5 DEF vars, IInv, TypeOK, HoldersClaimed, OneHolder, HoldersKnow,
     FreeMeansUnsent, AnsweredMeansSent, OneCopy, OkMeansDelivered, Key, Msg
<1> QED BY <1>1, <1>2, <1>3, <1>4, <1>5 DEF Next

(* The inductive invariant holds in every reachable state.                 *)
THEOREM InvCorrect == Spec => []IInv
BY InvInit, InvStep, PTL DEF Spec

(* No message is delivered twice, for any number of concurrent callers,    *)
(* crashes, timeouts and lost answers.                                     *)
THEOREM AtMostOnce == Spec => []DeliveredAtMostOnce
<1>1. IInv => DeliveredAtMostOnce
  <2> SUFFICES ASSUME IInv, NEW m \in Messages PROVE delivered[m] <= 1
    BY DEF DeliveredAtMostOnce
  <2>1. delivered[m] \in Nat /\ wire[m] \in Nat /\ delivered[m] + wire[m] <= 1
    BY DEF IInv, OneCopy, TypeOK
  <2> QED BY <2>1
<1> QED BY <1>1, InvCorrect, PTL

(* Whoever is told its send succeeded has its message delivered, also when *)
(* the answer comes from another caller's receipt.                         *)
THEOREM OkIsTrue == Spec => []OkMeansDelivered
<1>1. IInv => OkMeansDelivered
  BY DEF IInv
<1> QED BY <1>1, InvCorrect, PTL

(* A claim is only ever freed for a message that is neither delivered nor  *)
(* on the line.                                                            *)
THEOREM ReleaseIsSafe == Spec => ReleasedOnlyWhenUndelivered
<1> DEFINE A == \A r \in Requests :
                  /\ receipt[ReceiptId(r)] # "none"
                  /\ receipt'[ReceiptId(r)] = "none"
                  => delivered[Message(r)] = 0 /\ wire[Message(r)] = 0
<1>1. ASSUME IInv, [Next]_vars PROVE [A]_vars
  <2> SUFFICES ASSUME NEW r \in Requests,
                      receipt[ReceiptId(r)] # "none",
                      receipt'[ReceiptId(r)] = "none"
               PROVE delivered[Message(r)] = 0 /\ wire[Message(r)] = 0
    OBVIOUS
  <2>0. ReceiptId(r) \in ReceiptIds /\ receipt \in [ReceiptIds -> {"none", "claimed", "answered"}]
    BY <1>1, KeysInRange DEF IInv, TypeOK
  <2>1. PICK c \in Callers : CallerStep(c) /\ receipt' # receipt
    BY <1>1, <2>0 DEF Next, vars, Proxy, Call, Crash, ProxyDelivers, ProxyRefuses,
       ProxyDeliversLate, ProxyDrops
  <2>2. ~(Claim(c) \/ ClaimFails(c) \/ Record(c))
    BY <2>0, <2>1 DEF Claim, ClaimFails, Record, Put
  <2>3. Release(c) /\ Put(c, "none")
    BY <2>1, <2>2 DEF CallerStep, ClaimConflict, Lookup, Fetch, DoubtfulAnswer, Answer,
       Release
  <2>4. pc[c] = "release" /\ ReceiptId(r) = Key(c)
    BY <2>0, <2>3 DEF Release, Go, Put
  <2>5. Message(r) = Msg(c)
    BY <1>1, <2>4, SameKeySameMessage DEF IInv
  <2> QED BY <1>1, <2>4, <2>5 DEF IInv, HoldersKnow, Unsent
<1> QED BY <1>1, InvCorrect, PTL DEF Spec, ReleasedOnlyWhenUndelivered

(* A request leaves only for a message that was not delivered yet.         *)
THEOREM NoResend == Spec => NoRequestAfterDelivery
<1> DEFINE A == \A c \in Callers :
                  pc[c] # "waiting" /\ pc'[c] = "waiting" => delivered[Msg(c)] = 0
<1>1. ASSUME IInv, [Next]_vars PROVE [A]_vars
  <2> SUFFICES ASSUME NEW c \in Callers, pc[c] # "waiting", pc'[c] = "waiting"
               PROVE delivered[Msg(c)] = 0
    OBVIOUS
  <2>1. Fetch(c)
    BY <1>1 DEF Next, vars, CallerStep, Proxy, Call, Claim, ClaimConflict, ClaimFails,
       Lookup, Fetch, DoubtfulAnswer, Answer, Record, Release, Crash, Go, IInv, TypeOK,
       ProxyDelivers, ProxyRefuses, ProxyDeliversLate, ProxyDrops
  <2> QED BY <1>1, <2>1 DEF IInv, HoldersKnow, Unsent, Fetch, Go
<1> QED BY <1>1, InvCorrect, PTL DEF Spec, NoRequestAfterDelivery

-----------------------------------------------------------------------------
(* Refinement: what a step does to the set of recorded messages.           *)
LEMMA SameReceiptsSameRecords ==
  ASSUME \A r \in Requests :
           receipt'[ReceiptId(r)] = "answered" <=> receipt[ReceiptId(r)] = "answered"
  PROVE Recorded' = Recorded
BY DEF Recorded

(* The initial states are initial states of the promise.                   *)
LEMMA RefinesInit == Init => Promise!Init
BY KeysInRange DEF Init, Promise!Init, Recorded

(* Every step delivers, records, or changes nothing the promise speaks of. *)
LEMMA RefinesStep ==
  ASSUME IInv, [Next]_vars
  PROVE [Promise!Next]_(Promise!vars)
<1> USE DEF Promise!vars, IInv
<1>0. \A r \in Requests : ReceiptId(r) \in ReceiptIds /\ Message(r) \in Messages
  BY KeysInRange
<1>1. ASSUME NEW c \in Callers, ProxyDelivers(c) PROVE Promise!Next
  <2>1. Msg(c) \in Messages /\ delivered[Msg(c)] = 0
    BY <1>1, Ranges DEF ProxyDelivers, Go, HoldersKnow, Unsent
  <2>2. Promise!Deliver(Msg(c))
    BY <1>1, <2>1, SameReceiptsSameRecords DEF ProxyDelivers, Promise!Deliver, TypeOK
  <2> QED BY <2>1, <2>2 DEF Promise!Next
<1>2. ASSUME NEW m \in Messages, ProxyDeliversLate(m) PROVE Promise!Next
  <2>1. wire[m] > 0 /\ wire[m] \in Nat /\ delivered[m] \in Nat
        /\ delivered[m] + wire[m] <= 1
    BY <1>2 DEF ProxyDeliversLate, OneCopy, TypeOK
  <2>2. delivered[m] = 0
    BY <2>1
  <2>3. Promise!Deliver(m)
    BY <1>2, <2>2, SameReceiptsSameRecords DEF ProxyDeliversLate, Promise!Deliver, TypeOK
  <2> QED BY <2>3 DEF Promise!Next
<1>3. ASSUME NEW c \in Callers, Record(c), Put(c, "answered") PROVE Promise!Next
  <2>1. /\ Msg(c) \in Messages /\ Key(c) \in ReceiptIds /\ req[c] \in Requests
        /\ delivered[Msg(c)] = 1
    BY <1>3, Ranges DEF Record, Go, HoldersKnow, Sent
  <2>2. /\ receipt'[Key(c)] = "answered"
        /\ \A k \in ReceiptIds : k # Key(c) => receipt'[k] = receipt[k]
    BY <1>3, <2>1 DEF Put, TypeOK
  <2>3. \A r \in Requests : ReceiptId(r) = Key(c) <=> Message(r) = Msg(c)
    BY <1>3, SameKeySameMessage DEF Record, Go
  <2>4. ASSUME NEW m \in Messages
        PROVE m \in Recorded' <=> m \in Recorded \/ m = Msg(c)
    <3>1. CASE m = Msg(c)
      BY <2>1, <2>2, <3>1 DEF Recorded, Msg, Key
    <3>2. CASE m # Msg(c)
      BY <1>0, <2>2, <2>3, <3>2 DEF Recorded
    <3> QED BY <3>1, <3>2
  <2>5. Recorded' = Recorded \union {Msg(c)}
    BY <2>1, <2>4 DEF Recorded
  <2>6. Promise!Record(Msg(c))
    BY <1>3, <2>1, <2>5 DEF Promise!Record, Record
  <2> QED BY <2>1, <2>6 DEF Promise!Next
<1>4. ASSUME NEW c \in Callers, CallerStep(c), ~(Record(c) /\ Put(c, "answered"))
      PROVE UNCHANGED <<delivered, Recorded>>
  <2>1. delivered' = delivered
    BY <1>4 DEF CallerStep, Claim, ClaimConflict, ClaimFails, Lookup, Fetch,
       DoubtfulAnswer, Answer, Record, Release
  <2>2. CASE receipt' = receipt
    BY <2>1, <2>2, SameReceiptsSameRecords
  <2>3. CASE Claim(c) \/ ClaimFails(c)
    <3>1. \A k \in ReceiptIds : receipt'[k] = receipt[k]
             \/ (receipt[k] = "none" /\ receipt'[k] = "claimed")
      BY <2>3, Ranges DEF Claim, ClaimFails, Go, Put, TypeOK
    <3> QED BY <1>0, <2>1, <3>1, SameReceiptsSameRecords
  <2>4. CASE Release(c)
    <3>1. \A k \in ReceiptIds : receipt'[k] = receipt[k]
             \/ (receipt[k] = "claimed" /\ receipt'[k] = "none")
      BY <2>4, Ranges DEF Release, Go, Put, TypeOK, HoldersClaimed, Holding
    <3> QED BY <1>0, <2>1, <3>1, SameReceiptsSameRecords
  <2> QED
    BY <1>4, <2>2, <2>3, <2>4 DEF CallerStep, ClaimConflict, Lookup, Fetch,
       DoubtfulAnswer, Answer, Record
<1>5. ASSUME \/ \E c \in Callers : Crash(c) \/ ProxyRefuses(c)
             \/ \E c \in Callers, r \in Requests : Call(c, r)
             \/ \E m \in Messages : ProxyDrops(m)
             \/ UNCHANGED vars
      PROVE UNCHANGED <<delivered, Recorded>>
  BY <1>5, SameReceiptsSameRecords DEF Crash, ProxyRefuses, Call, ProxyDrops, vars
<1> QED
  BY <1>1, <1>2, <1>3, <1>4, <1>5 DEF Next, Proxy

(* The claims and receipts of graphFetch implement the at-most-once        *)
(* promise: every step delivers an undelivered message, records a          *)
(* delivered one, or changes nothing the promise speaks of.                *)
THEOREM Refinement == Spec => ImplementsPromise
BY RefinesInit, RefinesStep, InvCorrect, PTL DEF Spec, Promise!Spec, ImplementsPromise
=============================================================================
