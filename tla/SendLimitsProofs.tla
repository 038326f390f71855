--------------------------- MODULE SendLimitsProofs ---------------------------
(***************************************************************************)
(* Machine-checked proofs about the two limits on sends, for any number of *)
(* concurrent sends: WorkspaceUsage, a workspace's in a month, for any     *)
(* limit and any number of months, and DmRateLimiter, an account's in an   *)
(* hour, for any cap and sends that outlast the key.                       *)
(***************************************************************************)
EXTENDS UsageCounter, DmRateLimiter, FiniteSetTheorems, TLAPS

VARIABLES month, period, turn, start, found, charged

Usage == INSTANCE WorkspaceUsage WITH pc <- turn

-----------------------------------------------------------------------------
(* The monthly limit.                                                      *)

(* The period a sender found is never ahead of the one it was charged to,  *)
(* nor that of the current one: if the first is still current, so is the   *)
(* second, and the release takes back what the sender itself added.        *)
FoundBehind ==
  \A s \in Senders :
    /\ turn[s] = "increment" => found[s] <= period
    /\ turn[s] = "reserved" => found[s] <= charged[s] /\ charged[s] <= period

UsageInv ==
  /\ Usage!TypeOK
  /\ WithinLimit
  /\ NeverUndercounts
  /\ FoundBehind

-----------------------------------------------------------------------------
(* The counter starts empty, with nobody charged.                          *)
LEMMA UsageInit == Usage!Init => UsageInv
BY UsageAssumption
   DEF Usage!Init, UsageInv, Usage!TypeOK, Usage!Months, WithinLimit, NeverUndercounts, FoundBehind

(* A reset by any process, however late its clock was read, moves the      *)
(* period forward and starts the count again, or changes nothing.          *)
LEMMA ResetStep ==
  ASSUME UsageInv, NEW m \in Usage!Months, Usage!ResetTo(m)
  PROVE /\ period' \in Usage!Months /\ period' >= period
        /\ count' \in Nat /\ owed' \in Int
        /\ count' <= Limit /\ count' >= owed'
BY UsageAssumption DEF UsageInv, Usage!TypeOK, Usage!Months, WithinLimit, NeverUndercounts,
                       Usage!ResetTo

(* Every step preserves the inductive invariant and moves the period, if   *)
(* at all, forward.                                                        *)
LEMMA UsageStep == UsageInv /\ [Usage!Next]_(Usage!vars) => UsageInv' /\ period' >= period
<1> SUFFICES ASSUME UsageInv, [Usage!Next]_(Usage!vars) PROVE UsageInv' /\ period' >= period
  OBVIOUS
<1> USE UsageAssumption DEF Usage!Months
<1>1. CASE Usage!NextMonth
  BY <1>1 DEF Usage!NextMonth, UsageInv, Usage!TypeOK, WithinLimit, NeverUndercounts, FoundBehind
<1>2. CASE Usage!Reset
  <2>1. PICK m \in Usage!Months : Usage!ResetTo(m)
    BY <1>2 DEF Usage!Reset
  <2>2. /\ period' \in Usage!Months /\ period' >= period
        /\ count' \in Nat /\ owed' \in Int /\ count' <= Limit /\ count' >= owed'
    BY <2>1, ResetStep
  <2> QED
    BY <1>2, <2>2 DEF Usage!Reset, UsageInv, Usage!TypeOK, WithinLimit, NeverUndercounts,
                      FoundBehind
<1>3. ASSUME NEW s \in Senders, Usage!Begin(s) PROVE UsageInv' /\ period' >= period
  <2>1. PICK m \in Usage!Months : Usage!ResetTo(m) /\ start' = [start EXCEPT ![s] = m]
    BY <1>3 DEF Usage!Begin
  <2>2. /\ period' \in Usage!Months /\ period' >= period
        /\ count' \in Nat /\ owed' \in Int /\ count' <= Limit /\ count' >= owed'
    BY <2>1, ResetStep
  <2>3. Usage!TypeOK' /\ WithinLimit' /\ NeverUndercounts'
    BY <1>3, <2>1, <2>2 DEF Usage!Begin, Usage!Go, UsageInv, Usage!TypeOK, WithinLimit,
                            NeverUndercounts
  <2>4. FoundBehind'
    BY <1>3, <2>2 DEF Usage!Begin, Usage!Go, UsageInv, Usage!TypeOK, FoundBehind
  <2> QED BY <2>2, <2>3, <2>4 DEF UsageInv
<1>4. ASSUME NEW s \in Senders, Usage!Find(s) PROVE UsageInv' /\ period' >= period
  <2>1. Usage!TypeOK'
    BY <1>4 DEF Usage!Find, Usage!Go, UsageInv, Usage!TypeOK
  <2>2. FoundBehind'
    BY <1>4 DEF Usage!Find, Usage!Go, UsageInv, Usage!TypeOK, FoundBehind
  <2> QED
    BY <1>4, <2>1, <2>2 DEF Usage!Find, UsageInv, Usage!TypeOK, WithinLimit, NeverUndercounts
<1>5. ASSUME NEW s \in Senders, Usage!Increment(s) PROVE UsageInv' /\ period' >= period
  <2>1. Usage!TypeOK' /\ WithinLimit' /\ NeverUndercounts'
    BY <1>5 DEF Usage!Increment, Usage!Go, UsageInv, Usage!TypeOK, WithinLimit, NeverUndercounts
  <2>2. FoundBehind'
    BY <1>5 DEF Usage!Increment, Usage!Go, UsageInv, Usage!TypeOK, FoundBehind
  <2> QED BY <1>5, <2>1, <2>2 DEF Usage!Increment, UsageInv, Usage!TypeOK
<1>6. ASSUME NEW s \in Senders, Usage!Release(s) PROVE UsageInv' /\ period' >= period
  <2>1. found[s] <= charged[s] /\ charged[s] <= period
    BY <1>6 DEF Usage!Release, Usage!Settle, Usage!Go, UsageInv, FoundBehind
  <2>2. Usage!TypeOK' /\ WithinLimit'
    BY <1>6 DEF Usage!Release, Usage!Settle, Usage!Go, UsageInv, Usage!TypeOK, WithinLimit
  <2>3. NeverUndercounts'
    <3>1. CASE period = found[s]
      BY <1>6, <2>1, <3>1 DEF Usage!Release, Usage!Settle, UsageInv, Usage!TypeOK, NeverUndercounts
    <3>2. CASE period # found[s]
      BY <1>6, <3>2 DEF Usage!Release, Usage!Settle, UsageInv, Usage!TypeOK, NeverUndercounts
    <3> QED BY <3>1, <3>2
  <2>4. FoundBehind'
    BY <1>6 DEF Usage!Release, Usage!Settle, Usage!Go, UsageInv, Usage!TypeOK, FoundBehind
  <2> QED BY <1>6, <2>2, <2>3, <2>4 DEF Usage!Release, Usage!Settle, UsageInv, Usage!TypeOK
<1>7. ASSUME NEW s \in Senders, Usage!Keep(s) PROVE UsageInv' /\ period' >= period
  BY <1>7 DEF Usage!Keep, Usage!Go, UsageInv, Usage!TypeOK, WithinLimit, NeverUndercounts,
              FoundBehind
<1>8. CASE UNCHANGED Usage!vars
  BY <1>8 DEF Usage!vars, UsageInv, Usage!TypeOK, WithinLimit, NeverUndercounts, FoundBehind
<1> QED BY <1>1, <1>2, <1>3, <1>4, <1>5, <1>6, <1>7, <1>8 DEF Usage!Next

(* The inductive invariant holds in every reachable state.                 *)
LEMMA UsageInvariance == Usage!Spec => []UsageInv
BY UsageInit, UsageStep, PTL DEF Usage!Spec

(* The counter and the period stay in range: in particular the counter     *)
(* never goes below zero.                                                  *)
THEOREM UsageTyped == Usage!Spec => []Usage!TypeOK
BY UsageInvariance, PTL DEF UsageInv

(* However many jobs reserve together, at whatever turn of the month, the  *)
(* limit is kept, for every limit.                                         *)
THEOREM LimitKept == Usage!Spec => []WithinLimit
BY UsageInvariance, PTL DEF UsageInv

(* A release never takes another month's or another send's reservation     *)
(* off the counter: what stands is counted.                                *)
THEOREM CountCoversReservations == Usage!Spec => []NeverUndercounts
BY UsageInvariance, PTL DEF UsageInv

(* The month's counter lies between what stands and what is allowed.       *)
THEOREM UsageCounted == Usage!Spec => []CountedWithinLimit
BY LimitKept, CountCoversReservations, PTL DEF CountedWithinLimit

(* Late resets, of any process, never move the period back.                *)
THEOREM PeriodMonotonic == Usage!Spec => Usage!PeriodAdvances
<1>1. UsageInv /\ [Usage!Next]_(Usage!vars) => [period' >= period]_(Usage!vars)
  BY UsageStep
<1> QED BY <1>1, UsageInvariance, PTL DEF Usage!Spec, Usage!PeriodAdvances

-----------------------------------------------------------------------------
(* The hourly limit: the types, and an expiry where something is counted.  *)
IInv ==
  /\ TypeOK
  /\ CountedKeyExpires

-----------------------------------------------------------------------------
(* The key is not there at first.                                          *)
LEMMA InvInit == Init => IInv
<1> SUFFICES ASSUME Init PROVE IInv
  OBVIOUS
<1>1. exists \in BOOLEAN /\ ttl \in BOOLEAN /\ value = 0 /\ mine \in SUBSET Senders
           /\ straddled \in BOOLEAN
  BY Zenon DEF Init
<1>2. TypeOK
  BY <1>1, LimiterAssumption DEF Init, TypeOK
<1> QED BY <1>1, <1>2 DEF IInv, CountedKeyExpires

(* Every step keeps the types and leaves a positive counter with an        *)
(* expiry: only the script makes it positive, by making it 1, and setting  *)
(* the expiry there; a DECR keeps the expiry a positive counter had.       *)
LEMMA InvStep == IInv /\ [Next]_vars => IInv'
<1> SUFFICES ASSUME IInv, [Next]_vars PROVE IInv'
  OBVIOUS
<1> USE LimiterAssumption
<1>1. ASSUME NEW s \in Senders, Reserve(s) PROVE IInv'
  <2>1. TypeOK'
    BY <1>1 DEF Reserve, Go, IInv, TypeOK
  <2>2. ASSUME value' > 0 PROVE ttl'
    <3>1. CASE value' = 1
      BY <1>1, <3>1, Zenon DEF Reserve
    <3>2. CASE value' # 1
      <4>1. value > 0
        BY <1>1, <2>2, <3>2 DEF Reserve, IInv, TypeOK
      <4> QED BY <1>1, <4>1, Zenon DEF Reserve, IInv, CountedKeyExpires
    <3> QED BY <3>1, <3>2
  <2>3. CountedKeyExpires'
    BY <2>2 DEF CountedKeyExpires
  <2> QED BY <2>1, <2>3 DEF IInv
<1>2. ASSUME NEW s \in Senders, Keep(s) PROVE IInv'
  <2>1. TypeOK'
    BY <1>2 DEF Keep, Count, Go, IInv, TypeOK
  <2>2. CountedKeyExpires'
    BY <1>2 DEF Keep, IInv, TypeOK, CountedKeyExpires
  <2> QED BY <2>1, <2>2 DEF IInv
<1>3. ASSUME NEW s \in Senders, Die(s) PROVE IInv'
  <2>1. TypeOK'
    BY <1>3 DEF Die, Count, IInv, TypeOK
  <2>2. CountedKeyExpires'
    BY <1>3 DEF Die, IInv, TypeOK, CountedKeyExpires
  <2> QED BY <2>1, <2>2 DEF IInv
<1>4. ASSUME NEW s \in Senders, Release(s) PROVE IInv'
  <2>1. TypeOK'
    BY <1>4 DEF Release, Go, IInv, TypeOK
  <2>2. CountedKeyExpires'
    BY <1>4 DEF Release, IInv, TypeOK, CountedKeyExpires
  <2> QED BY <2>1, <2>2 DEF IInv
<1>5. ASSUME NEW s \in Senders, Clamp(s) PROVE IInv'
  <2>0. exists' \in BOOLEAN /\ ttl' \in BOOLEAN /\ value' = 0
    BY <1>5, Zenon DEF Clamp
  <2>1. TypeOK'
    BY <1>5, <2>0 DEF Clamp, Go, IInv, TypeOK
  <2>2. CountedKeyExpires'
    BY <1>5 DEF Clamp, IInv, TypeOK, CountedKeyExpires
  <2> QED BY <2>1, <2>2 DEF IInv
<1>6. CASE Expire
  <2>0. exists' \in BOOLEAN /\ ttl' \in BOOLEAN /\ value' = 0 /\ straddled' \in BOOLEAN
    BY <1>6, Zenon DEF Expire
  <2>1. TypeOK'
    BY <1>6, <2>0 DEF Expire, IInv, TypeOK
  <2>2. CountedKeyExpires'
    BY <1>6 DEF Expire, IInv, TypeOK, CountedKeyExpires
  <2> QED BY <2>1, <2>2 DEF IInv
<1>7. CASE UNCHANGED vars
  BY <1>7 DEF vars, IInv, TypeOK, CountedKeyExpires
<1> QED BY <1>1, <1>2, <1>3, <1>4, <1>5, <1>6, <1>7 DEF Next

(* The counter never exceeds the cap, and the types are kept.              *)
THEOREM TypeCorrect == Spec => []TypeOK
BY InvInit, InvStep, PTL DEF Spec, IInv

(* No counter of reservations is left without an expiry, whatever releases *)
(* and crashes come after the key expired.                                 *)
THEOREM CountedKeysExpire == Spec => []CountedKeyExpires
BY InvInit, InvStep, PTL DEF Spec, IInv
-----------------------------------------------------------------------------
(* What holds until a send outlasts the key: every sender under way has    *)
(* its slot from the current key, none is between DECR and DEL, and the    *)
(* counter tells their number and that of the sends made.                  *)
Slots == Sending \intersect mine

Exact ==
  ~straddled =>
    /\ \A s \in Senders : pc[s] # "idle" => s \in Slots
    /\ value = sent + Cardinality(Slots)

(* One slot more, or one less.                                             *)
LEMMA SlotsCounted ==
  ASSUME TypeOK
  PROVE  /\ Cardinality(Slots) \in Nat
         /\ \A s : s \notin Slots =>
                Cardinality(Slots \union {s}) = Cardinality(Slots) + 1
         /\ \A s \in Slots :
                /\ Cardinality(Slots) > 0
                /\ Cardinality(Slots \ {s}) = Cardinality(Slots) - 1
<1>1. IsFiniteSet(Slots)
  BY LimiterAssumption, FS_Subset DEF Slots, Sending
<1>2. Cardinality(Slots) \in Nat
  BY <1>1, FS_CardinalityType
<1>3. ASSUME NEW s \in Slots
      PROVE  Cardinality(Slots) > 0 /\ Cardinality(Slots \ {s}) = Cardinality(Slots) - 1
  <2>1. IsFiniteSet(Slots \ {s})
    BY <1>1, FS_RemoveElement
  <2>2. Cardinality(Slots \ {s}) \in Nat
    BY <2>1, FS_CardinalityType
  <2>3. Cardinality(Slots \ {s}) = Cardinality(Slots) - 1
    BY <1>1, <1>3, FS_RemoveElement
  <2> QED BY <1>2, <2>2, <2>3
<1> QED BY <1>1, <1>2, <1>3, FS_AddElement

(* Initially nobody sends.                                                 *)
LEMMA ExactInit == Init => Exact
<1> SUFFICES ASSUME Init PROVE Exact
  OBVIOUS
<1>1. Slots = {} /\ Cardinality({}) = 0
  BY FS_EmptySet DEF Init, Slots
<1> QED BY <1>1 DEF Exact, Init

(* Every step keeps the count: a reservation adds a slot, a kept or a lost *)
(* send turns one into a send, a release takes back the sender's own.      *)
LEMMA ExactStep == IInv /\ Exact /\ [Next]_vars => Exact'
<1> SUFFICES ASSUME IInv, Exact, [Next]_vars, ~straddled' PROVE Exact'
  BY DEF Exact
<1> USE LimiterAssumption DEF IInv
<1>0. TypeOK /\ value <= Max
  BY DEF TypeOK
<1>1. ASSUME NEW s \in Senders, Reserve(s) PROVE Exact'
  <2>1. ~straddled /\ s \notin Slots
    BY <1>1 DEF Reserve, Go, Slots, Sending
  <2>2. Slots' = Slots \union {s}
    BY <1>0, <1>1 DEF Reserve, Go, Slots, Sending, TypeOK
  <2>3. \A t \in Senders : pc'[t] # "idle" => t \in Slots'
    BY <1>0, <1>1, <2>1, <2>2 DEF Reserve, Go, Exact, TypeOK
  <2>4. value' = sent' + Cardinality(Slots')
    BY <1>0, <1>1, <2>1, <2>2, SlotsCounted DEF Reserve, Exact, TypeOK
  <2> QED BY <2>3, <2>4 DEF Exact
<1>2. ASSUME NEW s \in Senders, Keep(s) \/ (Die(s) /\ pc[s] = "sending") PROVE Exact'
  <2>1. /\ ~straddled /\ pc[s] = "sending" /\ s \in Slots /\ s \in mine
        /\ pc' = [pc EXCEPT ![s] = "idle"] /\ mine' = mine /\ value' = value
        /\ Count(s)
    BY <1>2 DEF Keep, Die, Go, Exact, Slots
  <2>2. Slots' = Slots \ {s}
    BY <1>0, <2>1 DEF Slots, Sending, TypeOK
  <2>3. \A t \in Senders : pc'[t] # "idle" => t \in Slots'
    BY <1>0, <2>1, <2>2 DEF Exact, TypeOK
  <2>4. Cardinality(Slots) > 0
    BY <1>0, <2>1, SlotsCounted
  <2>5. sent <= Max /\ sent' = sent + 1
    BY <1>0, <2>1, <2>4, SlotsCounted DEF Exact, Count, TypeOK
  <2>6. value' = sent' + Cardinality(Slots')
    BY <1>0, <2>1, <2>2, <2>5, SlotsCounted DEF Exact, TypeOK
  <2> QED BY <2>3, <2>6 DEF Exact
<1>3. ASSUME NEW s \in Senders, pc[s] = "clamp", Die(s) \/ Clamp(s) PROVE FALSE
  BY <1>3 DEF Die, Clamp, Exact, Slots, Sending
<1>4. ASSUME NEW s \in Senders, Release(s) PROVE Exact'
  <2>1. ~straddled /\ pc[s] = "sending" /\ s \in Slots
    BY <1>4 DEF Release, Go, Exact, Slots
  <2>2. Cardinality(Slots) > 0 /\ value >= 1
    <3>1. Cardinality(Slots) \in Nat /\ Cardinality(Slots) > 0
      BY <1>0, <2>1, SlotsCounted
    <3>2. value = sent + Cardinality(Slots)
      BY <2>1 DEF Exact
    <3>3. sent \in Nat
      BY DEF TypeOK
    <3> QED BY <3>1, <3>2, <3>3
  <2>3. pc' = [pc EXCEPT ![s] = "idle"] /\ mine' = mine /\ value' = value - 1
    <3>1. ~(value < 1)
      BY <2>2 DEF TypeOK
    <3> QED BY <1>4, <3>1, Zenon DEF Release, Go
  <2>4. Slots' = Slots \ {s}
    BY <1>0, <2>1, <2>3 DEF Slots, Sending, TypeOK
  <2>5. \A t \in Senders : pc'[t] # "idle" => t \in Slots'
    BY <1>0, <2>1, <2>3, <2>4 DEF Exact, TypeOK
  <2>6. value' = sent' + Cardinality(Slots')
    BY <1>0, <1>4, <2>1, <2>3, <2>4, SlotsCounted
       DEF Release, Exact, TypeOK
  <2> QED BY <2>5, <2>6 DEF Exact
<1>5. CASE Expire
  <2>1. \A t \in Senders : pc'[t] = "idle"
    BY <1>5 DEF Expire
  <2>2. Slots' = {} /\ Cardinality({}) = 0
    BY <2>1, FS_EmptySet DEF Slots, Sending
  <2> QED BY <1>5, <2>1, <2>2 DEF Expire, Exact
<1>6. CASE UNCHANGED vars
  BY <1>6 DEF vars, Exact, Slots, Sending
<1>7. ASSUME NEW s \in Senders, Die(s) PROVE Exact'
  BY <1>2, <1>3, <1>7 DEF Die
<1>8. ASSUME NEW s \in Senders, Clamp(s) PROVE Exact'
  BY <1>3, <1>8 DEF Clamp, Go
<1> QED BY <1>1, <1>2, <1>4, <1>5, <1>6, <1>7, <1>8 DEF Next

(* The counter tells exactly the sends made and under way.                 *)
THEOREM CountExact == Spec => []CountsSends
<1>1. Exact => CountsSends
  BY DEF Exact, CountsSends, Granted, Slots
<1> QED BY InvInit, InvStep, ExactInit, ExactStep, <1>1, PTL DEF Spec

(* The hourly cap is kept until a send outlasts the key, for any cap and   *)
(* any number of senders.                                                  *)
THEOREM CapKept == Spec => []WithinCap
<1>1. IInv /\ Exact => WithinCap
  BY DEF IInv, TypeOK, Exact, WithinCap, Granted, Slots
<1> QED BY InvInit, InvStep, ExactInit, ExactStep, <1>1, PTL DEF Spec
=============================================================================
