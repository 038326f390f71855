--------------------------- MODULE AtMostOnceSend ---------------------------
(***************************************************************************)
(* What a durable delivery receipt promises, whatever the storage and the  *)
(* network do: each message reaches its recipient at most once, and only a *)
(* message that was delivered is ever recorded as sent.  It says nothing   *)
(* of how often a send is attempted.                                       *)
(***************************************************************************)
EXTENDS Naturals

CONSTANT Messages

VARIABLES
  delivered,   \* copies of each message its recipient got
  recorded     \* messages the sender has on record as sent

vars == <<delivered, recorded>>

Init ==
  /\ delivered = [m \in Messages |-> 0]
  /\ recorded = {}

(* Delivered, and recorded at once or later, if ever.                      *)
Deliver(m) ==
  /\ delivered[m] = 0
  /\ delivered' = [delivered EXCEPT ![m] = 1]
  /\ recorded' \in {recorded, recorded \union {m}}

(* Recorded later.                                                         *)
Record(m) ==
  /\ delivered[m] = 1
  /\ recorded' = recorded \union {m}
  /\ UNCHANGED delivered

Next == \E m \in Messages : Deliver(m) \/ Record(m)

Spec == Init /\ [][Next]_vars
=============================================================================
