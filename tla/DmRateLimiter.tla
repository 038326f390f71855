---------------------------- MODULE DmRateLimiter ----------------------------
(***************************************************************************)
(* The hourly counter of an Instagram account                              *)
(* (src/lib/utils/rate-limiter.ts): a Redis key that expires, incremented  *)
(* by a script before a send and decremented when the send fails.  Each    *)
(* Redis command and the script are atomic; the key's expiry and the       *)
(* commands of other jobs come between any two of them.                    *)
(***************************************************************************)
EXTENDS SendLimits

VARIABLES
  exists,      \* the key is there
  value,       \* its value, 0 when it is not
  ttl,         \* it will expire
  pc,          \* where each sender is
  mine,        \* history: who reserved its slot since the key last expired
  sent,        \* history: sends of such slots that were kept, up to Max + 1
  straddled    \* history: a send was under way when the key last expired

vars == <<exists, value, ttl, pc, mine, sent, straddled>>

TypeOK ==
  /\ exists \in BOOLEAN /\ ttl \in BOOLEAN
  /\ value \in Int /\ value <= Max
  /\ pc \in [Senders -> {"idle", "sending", "clamp"}]
  /\ mine \in SUBSET Senders
  /\ sent \in 0..(Max + 1)
  /\ straddled \in BOOLEAN

Init ==
  /\ exists = FALSE /\ value = 0 /\ ttl = FALSE
  /\ pc = [s \in Senders |-> "idle"]
  /\ mine = {}
  /\ sent = 0
  /\ straddled = FALSE
-----------------------------------------------------------------------------
Go(s, from, to) ==
  /\ pc[s] = from
  /\ pc' = [pc EXCEPT ![s] = to]

Sending == {s \in Senders : pc[s] = "sending"}

(* The history of a kept send; it stops counting where the cap is broken.  *)
Count(s) == sent' = IF s \in mine /\ sent <= Max THEN sent + 1 ELSE sent

(* A script that sets the expiry only when it creates the key.             *)
ReserveExpiringNewKey(s) ==
  /\ value < Max
  /\ Go(s, "idle", "sending")
  /\ exists' = TRUE /\ value' = value + 1
  /\ ttl' = (ttl \/ ~exists)
  /\ mine' = mine \union {s}
  /\ UNCHANGED <<sent, straddled>>

(* GET and INCR in two commands, as checkRateLimit would have it.          *)
ReserveAnyCount(s) ==
  /\ value <= Max
  /\ Go(s, "idle", "sending")
  /\ exists' = TRUE /\ value' = value + 1
  /\ ttl' = (ttl \/ value' = 1)
  /\ mine' = mine \union {s}
  /\ UNCHANGED <<sent, straddled>>

(* reserveDMSlot, the script: refuse at the cap, else INCR, and EXPIRE     *)
(* when that made it 1.                                                    *)
Reserve(s) ==
  /\ value < Max
  /\ Go(s, "idle", "sending")
  /\ exists' = TRUE /\ value' = value + 1
  /\ ttl' = (ttl \/ value' = 1)
  /\ mine' = mine \union {s}
  /\ UNCHANGED <<sent, straddled>>

Keep(s) ==
  /\ Go(s, "sending", "idle")
  /\ Count(s)
  /\ UNCHANGED <<exists, value, ttl, mine, straddled>>

(* The job dies: what it reserved, and may have sent, stays counted.       *)
Die(s) ==
  /\ pc[s] \in {"sending", "clamp"}
  /\ pc' = [pc EXCEPT ![s] = "idle"]
  /\ IF pc[s] = "sending" THEN Count(s) ELSE UNCHANGED sent
  /\ UNCHANGED <<exists, value, ttl, mine, straddled>>

(* releaseDMSlot: DECR, which makes a missing key -1 without an expiry.    *)
Release(s) ==
  /\ Go(s, "sending", IF value < 1 THEN "clamp" ELSE "idle")
  /\ exists' = TRUE /\ value' = value - 1
  /\ UNCHANGED <<ttl, mine, sent, straddled>>

(* Its second command: DEL, after a DECR below zero.                       *)
Clamp(s) ==
  /\ Go(s, "clamp", "idle")
  /\ exists' = FALSE /\ value' = 0 /\ ttl' = FALSE
  /\ UNCHANGED <<mine, sent, straddled>>

(* External: Redis drops the key when its hour is over.                    *)
Expire ==
  /\ exists /\ ttl
  /\ exists' = FALSE /\ value' = 0 /\ ttl' = FALSE
  /\ mine' = {} /\ sent' = 0
  /\ straddled' = (\E s \in Senders : pc[s] # "idle")
  /\ UNCHANGED pc

Next ==
  \/ \E s \in Senders : Reserve(s) \/ Keep(s) \/ Die(s) \/ Release(s) \/ Clamp(s)
  \/ Expire

Spec == Init /\ [][Next]_vars

(* Redis expires keys, and a send ends: the provider's requests time out.  *)
Fairness ==
  /\ WF_vars(Expire)
  /\ \A s \in Senders : WF_vars(Keep(s) \/ Die(s) \/ Release(s) \/ Clamp(s))

FairSpec == Spec /\ Fairness
-----------------------------------------------------------------------------
(* The sends made and under way since the key last expired.                *)
Granted == sent + Cardinality(Sending \intersect mine)

(* The slots granted since the key last expired stay within the cap, as    *)
(* long as no send was under way when it did.                              *)
WithinCap == ~straddled => Granted <= Max

(* The counter then tells exactly the sends made and under way: failures   *)
(* hand their slots back, once, and nobody else's.                         *)
CountsSends == ~straddled => value = Granted

(* A key that counts a reservation will expire: a counter that stays after *)
(* a DECR below zero or a crash cannot block the account for good.         *)
CountedKeyExpires == value > 0 => ttl

(* An account at its cap gets to send again.                               *)
BlockedThenFree == value >= Max ~> value < Max
=============================================================================
