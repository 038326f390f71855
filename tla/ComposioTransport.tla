------------------------- MODULE ComposioTransport -------------------------
(***************************************************************************)
(* The send path of graphFetch (src/lib/composio/transport.ts): a POST to  *)
(* Instagram through Composio's proxy is claimed in the composioDelivery   *)
(* table before it leaves, its answer is recorded on the claim, a refused  *)
(* send deletes the claim, and an answer that leaves the delivery in doubt *)
(* keeps it, so that nobody sends again.                                   *)
(*                                                                         *)
(* Callers are the concurrent worker jobs (of one or several processes)    *)
(* and every step of a caller is one await of the code, so callers         *)
(* interleave between any two of them, and may crash at any of them.       *)
(* The proxy is external: it may deliver a request whose caller has given  *)
(* up (the 30 s abort, a crash), any time later.                           *)
(***************************************************************************)
EXTENDS Naturals

CONSTANTS
  Callers,      \* concurrent executions of graphFetch
  Requests,     \* the POSTs they make, see RequestOK
  NoRequest     \* a caller that has made none yet

Kinds == {"public-reply", "private-reply", "direct"}

(* A request: a public reply under a comment, a private reply to a comment *)
(* or a direct message.  operation is credentials.operationId, the job and *)
(* campaign that send it.                                                  *)
RequestOK(r) ==
  /\ r.kind \in Kinds
  /\ DOMAIN r = {"kind", "comment", "operation", "text"}

ASSUME RequestsAssumption ==
  /\ \A r \in Requests : RequestOK(r)
  /\ NoRequest \notin Requests

VARIABLES
  receipt,    \* the composioDelivery table: "none", "claimed" or "answered"
  pc,         \* where each caller is, or how its last call ended
  req,        \* the request of each caller's current or last call
  wire,       \* requests without a caller that the proxy may still carry out
  delivered   \* history: copies of each message Instagram delivered

vars == <<receipt, pc, req, wire, delivered>>

-----------------------------------------------------------------------------
(* What a recipient must not get twice: one public reply and one private   *)
(* reply per comment, whichever campaign and wording; a direct message per *)
(* operation and text.                                                     *)
Message(r) ==
  IF r.kind = "direct" THEN <<"direct", r.operation, r.text>>
                       ELSE <<r.kind, r.comment, "any">>

Messages == {Message(r) : r \in Requests}

Path(r) == IF r.kind = "public-reply" THEN <<r.comment, "replies">>
                                      ELSE <<"account", "messages">>

(* A key that knows which campaign sends: operationId before comment_id.   *)
ReceiptIdPerCampaign(r) ==
  << Path(r),
     IF r.kind = "public-reply" THEN "public-reply" ELSE r.operation,
     IF r.kind = "direct" THEN <<"body", r.text>> ELSE <<"no body", "null">> >>

(* The receipt's key: path, operation and body of the request, where a     *)
(* comment's replies have the comment as operation and no body.            *)
ReceiptId(r) ==
  << Path(r),
     CASE r.kind = "public-reply"  -> "public-reply"
       [] r.kind = "private-reply" -> r.comment
       [] r.kind = "direct"        -> r.operation,
     IF r.kind = "direct" THEN <<"body", r.text>> ELSE <<"no body", "null">> >>

ReceiptIds == {ReceiptId(r) : r \in Requests}

Key(c) == ReceiptId(req[c])

Msg(c) == Message(req[c])

(* How a call ends: the answer is returned ("ok" and "rejected", which the *)
(* Graph client turns into an error), ComposioDeliveryUnconfirmedError is  *)
(* thrown, or another error is (a failed statement of the database).       *)
Ended == {"idle", "ok", "rejected", "unconfirmed", "error", "crashed"}

Running == {"create", "lookup", "fetch", "waiting", "accepted", "refused",
            "record", "release"}

TypeOK ==
  /\ receipt \in [ReceiptIds -> {"none", "claimed", "answered"}]
  /\ pc \in [Callers -> Ended \union Running]
  /\ req \in [Callers -> Requests \union {NoRequest}]
  /\ \A c \in Callers : pc[c] # "idle" => req[c] \in Requests
  /\ wire \in [Messages -> Nat]
  /\ delivered \in [Messages -> Nat]

Init ==
  /\ receipt = [k \in ReceiptIds |-> "none"]
  /\ pc = [c \in Callers |-> "idle"]
  /\ req = [c \in Callers |-> NoRequest]
  /\ wire = [m \in Messages |-> 0]
  /\ delivered = [m \in Messages |-> 0]

-----------------------------------------------------------------------------
Go(c, from, to) ==
  /\ pc[c] = from
  /\ pc' = [pc EXCEPT ![c] = to]

Put(c, value) == receipt' = [receipt EXCEPT ![Key(c)] = value]

(* A worker job calls graphFetch with a POST.                              *)
Call(c, r) ==
  /\ pc[c] \in Ended
  /\ pc' = [pc EXCEPT ![c] = "create"]
  /\ req' = [req EXCEPT ![c] = r]
  /\ UNCHANGED <<receipt, wire, delivered>>

(* A claim already recorded as sent.                                       *)
ClaimAsSent(c) ==
  /\ Go(c, "create", "fetch")
  /\ receipt[Key(c)] = "none"
  /\ Put(c, "answered")
  /\ UNCHANGED <<req, wire, delivered>>

(* composioDelivery.create succeeds: the primary key was free.             *)
Claim(c) ==
  /\ Go(c, "create", "fetch")
  /\ receipt[Key(c)] = "none"
  /\ Put(c, "claimed")
  /\ UNCHANGED <<req, wire, delivered>>

(* create fails on the primary key (P2002).                                *)
ClaimConflict(c) ==
  /\ Go(c, "create", "lookup")
  /\ receipt[Key(c)] # "none"
  /\ UNCHANGED <<receipt, req, wire, delivered>>

(* create fails otherwise and is rethrown; the row may be there all the    *)
(* same, if only the database's acknowledgement was lost.                  *)
ClaimFails(c) ==
  /\ Go(c, "create", "error")
  /\ \/ UNCHANGED receipt
     \/ receipt[Key(c)] = "none" /\ Put(c, "claimed")
  /\ UNCHANGED <<req, wire, delivered>>

(* A bug: a claim without an answer is waited for.                        *)
LookupWaits(c) ==
  /\ Go(c, "lookup", "ok")
  /\ receipt[Key(c)] = "answered"
  /\ UNCHANGED <<receipt, req, wire, delivered>>

(* findUnique after a conflict: a recorded answer is returned again, a     *)
(* claim without one (or one deleted meanwhile) is a delivery in doubt.    *)
Lookup(c) ==
  /\ Go(c, "lookup", IF receipt[Key(c)] = "answered" THEN "ok" ELSE "unconfirmed")
  /\ UNCHANGED <<receipt, req, wire, delivered>>

Fetch(c) ==
  /\ Go(c, "fetch", "waiting")
  /\ UNCHANGED <<receipt, req, wire, delivered>>

(* External: the proxy carries out, or refuses, a request on the line.     *)
ProxyDelivers(c) ==
  /\ Go(c, "waiting", "accepted")
  /\ delivered' = [delivered EXCEPT ![Msg(c)] = @ + 1]
  /\ UNCHANGED <<receipt, req, wire>>

ProxyRefuses(c) ==
  /\ Go(c, "waiting", "refused")
  /\ UNCHANGED <<receipt, req, wire, delivered>>

ProxyDeliversLate(m) ==
  /\ wire[m] > 0
  /\ wire' = [wire EXCEPT ![m] = @ - 1]
  /\ delivered' = [delivered EXCEPT ![m] = @ + 1]
  /\ UNCHANGED <<receipt, pc, req>>

ProxyDrops(m) ==
  /\ wire[m] > 0
  /\ wire' = [wire EXCEPT ![m] = @ - 1]
  /\ UNCHANGED <<receipt, pc, req, delivered>>

Abandon(c) ==
  wire' = IF pc[c] = "waiting" THEN [wire EXCEPT ![Msg(c)] = @ + 1] ELSE wire

(* No usable answer: the 30 s abort, a network error, invalid JSON, a 5xx  *)
(* of the proxy or of Instagram, a success without a message id.  The      *)
(* claim stays.                                                            *)
DoubtfulAnswer(c) ==
  /\ pc[c] \in {"waiting", "accepted", "refused"}
  /\ pc' = [pc EXCEPT ![c] = "unconfirmed"]
  /\ Abandon(c)
  /\ UNCHANGED <<receipt, req, delivered>>

(* A definite answer: a message id, or an error below 500.                 *)
Answer(c) ==
  /\ \/ Go(c, "accepted", "record")
     \/ Go(c, "refused", "release")
  /\ UNCHANGED <<receipt, req, wire, delivered>>

(* The answer is written on the claim; when that fails (or only seems to)  *)
(* the caller is told the delivery is in doubt.                            *)
Record(c) ==
  /\ \/ Go(c, "record", "ok") /\ Put(c, "answered")
     \/ /\ Go(c, "record", "unconfirmed")
        /\ Put(c, "answered") \/ UNCHANGED receipt
  /\ UNCHANGED <<req, wire, delivered>>

(* The claim of a refused send is deleted; when that fails the database's  *)
(* error is thrown and the claim stays (or only seems to).                 *)
Release(c) ==
  /\ \/ Go(c, "release", "rejected") /\ Put(c, "none")
     \/ /\ Go(c, "release", "error")
        /\ Put(c, "none") \/ UNCHANGED receipt
  /\ UNCHANGED <<req, wire, delivered>>

(* The process dies in the middle of a call.                               *)
Crash(c) ==
  /\ pc[c] \in Running
  /\ pc' = [pc EXCEPT ![c] = "crashed"]
  /\ Abandon(c)
  /\ UNCHANGED <<receipt, req, delivered>>

CallerStep(c) ==
  \/ Claim(c) \/ ClaimConflict(c) \/ ClaimFails(c) \/ Lookup(c)
  \/ Fetch(c) \/ DoubtfulAnswer(c) \/ Answer(c) \/ Record(c) \/ Release(c)

Proxy ==
  \/ \E c \in Callers : ProxyDelivers(c) \/ ProxyRefuses(c)
  \/ \E m \in Messages : ProxyDeliversLate(m) \/ ProxyDrops(m)

Next ==
  \/ \E c \in Callers : CallerStep(c) \/ Crash(c)
  \/ \E c \in Callers, r \in Requests : Call(c, r)
  \/ Proxy

Spec == Init /\ [][Next]_vars

(* Every await of graphFetch settles: fetch has its own 30 s abort signal  *)
(* and the database client a timeout, so a caller that is not killed moves *)
(* on.  Nothing makes the proxy answer or a job call again.                *)
Fairness == \A c \in Callers : WF_vars(CallerStep(c))

FairSpec == Spec /\ Fairness

-----------------------------------------------------------------------------
(* Safety.                                                                 *)

(* However many jobs, retries and campaigns ask for it, and wherever they  *)
(* crash or time out, a comment gets at most one public and one private    *)
(* reply and an operation's direct message is delivered at most once.      *)
DeliveredAtMostOnce == \A m \in Messages : delivered[m] <= 1

(* A caller that is told "ok" (at first hand, or from the receipt) has its *)
(* message delivered.                                                      *)
OkMeansDelivered ==
  \A c \in Callers : pc[c] = "ok" => delivered[Msg(c)] = 1

(* A claim is given back only when its message was not delivered and no    *)
(* request for it is left on the line: releasing it can cost no duplicate. *)
ReleasedOnlyWhenUndelivered ==
  [][\A r \in Requests :
       /\ receipt[ReceiptId(r)] # "none"
       /\ receipt'[ReceiptId(r)] = "none"
       => delivered[Message(r)] = 0 /\ wire[Message(r)] = 0]_vars

(* A message once delivered is never again asked of the proxy.             *)
NoRequestAfterDelivery ==
  [][\A c \in Callers :
       pc[c] # "waiting" /\ pc'[c] = "waiting" => delivered[Msg(c)] = 0]_vars

(* Every call ends, one way or another, although the proxy may not answer. *)
CallsEnd == \A c \in Callers : pc[c] \in Running ~> pc[c] \in Ended

(* The receipts implement the at-most-once promise: a message is on record *)
(* as sent when its receipt carries an answer.                             *)
Recorded ==
  {m \in Messages : \E r \in Requests :
     Message(r) = m /\ receipt[ReceiptId(r)] = "answered"}

Promise == INSTANCE AtMostOnceSend WITH recorded <- Recorded

ImplementsPromise == Promise!Spec
=============================================================================
