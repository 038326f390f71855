---------------------------- MODULE CommentOutcome ----------------------------
(***************************************************************************)
(* What the jobs of a comment leave behind, run one after the other, as    *)
(* far as whoever looks only at the delivery log and at Instagram can      *)
(* tell: the private and the public reply are open or done, and the public *)
(* one shows or does not.  An item is a comment for one campaign that      *)
(* sends both.                                                             *)
(*                                                                         *)
(* A step is what any number of statements of the jobs, or a whole job,    *)
(* may bring about: steps one after the other make a step.                 *)
(***************************************************************************)
CONSTANT Items

VARIABLES
  log,     \* [Items -> what the row says of the item's two replies]
  shown    \* the items whose public reply is on Instagram

vars == <<log, shown>>

(* The DM is done when the row is SENT or its delivery is in doubt, the    *)
(* reply when the row has its time or it is in doubt.                      *)
Rows == [dm : {"open", "sent"}, reply : {"open", "sent"}]

Handled(c) == log[c].dm = "sent" /\ log[c].reply = "sent"

(* A reply that is done stays done, and so does what is handled.  A DM     *)
(* that is done opens again only in a row whose reply is open: the job     *)
(* that comes back for it finds no credentials and marks the row FAILED.   *)
Outcomes(c) ==
  {r \in Rows : /\ log[c].reply = "sent" => r.reply = "sent"
                /\ Handled(c) => r.dm = "sent"}

Leave(c) == \E r \in Outcomes(c) : log' = [log EXCEPT ![c] = r]

(* Only an open reply is posted, and it may be posted unrecorded.          *)
MayPost(c) == log[c].reply = "open"

Run(c) ==
  /\ Leave(c)
  /\ UNCHANGED shown \/ (MayPost(c) /\ shown' = shown \union {c})

Init ==
  /\ log = [c \in Items |-> [dm |-> "open", reply |-> "open"]]
  /\ shown = {}

Next == \E c \in Items : Run(c)

Spec == Init /\ [][Next]_vars
=============================================================================
