------------------------ MODULE WorkspaceAccessProofs ------------------------
(***************************************************************************)
(* Machine-checked proofs about WorkspaceAccess, for any users, workspaces *)
(* and concurrent requests: owners stay members of their workspaces,       *)
(* nobody gets in ungranted, and nobody's home changes under them.         *)
(*                                                                         *)
(* The inductive invariant says of every request under way what the row it *)
(* read, the invitations it read and the role it was given still mean when *)
(* it acts on them, whatever others did in between.                        *)
(***************************************************************************)
EXTENDS WorkspaceAccess, WellFoundedInduction, TLAPS

(* A member's id is below the next one and names the row, and so do the    *)
(* workspace and the user of it (the unique key of WorkspaceMember).       *)
RowsDiffer ==
  \A m \in members :
    /\ m.id < nextId
    /\ \A n \in members : m.id = n.id \/ (m.ws = n.ws /\ m.user = n.user) => m = n

(* What names a workspace names one that exists.                           *)
Founded ==
  /\ owner[FirstWorkspace] # NoOne
  /\ \A m \in members : owner[m.ws] # NoOne
  /\ \A i \in invitations : owner[i.ws] # NoOne

(* A request that is about to add a member or an invitation has somebody   *)
(* to add, in a role that can be given.                                    *)
Aimed(r) ==
  req[r].pc \in {"addMember", "addInvitation"} =>
    req[r].target \in Users /\ req[r].role \in InviteRoles

(* The row a request is about to change or delete is of its own workspace  *)
(* and, as its owner's was found with the role OWNER, not the owner's.     *)
Spares(r) ==
  req[r].pc \in {"setRole", "delete"} =>
    /\ req[r].row < nextId
    /\ \A m \in members : m.id = req[r].row =>
         m.ws = req[r].ws /\ (m.user = owner[m.ws] => m.ws \in reinvited)

Managing == {"invite", "addMember", "addInvitation", "promote", "setRole",
             "remove", "delete", "revoke"}

(* A request acts on what it saw: it accepts invitations that stood, and   *)
(* manages the workspace it was found to manage.                           *)
Entitled(r) ==
  /\ req[r].pc = "join" =>
       \A i \in req[r].todo : i.user = req[r].user /\ <<i.ws, "invited">> \in seen[r]
  /\ req[r].pc = "role" =>
       Row(req[r].ws, req[r].user) # {} \/ <<req[r].ws, "removed">> \in seen[r]
  /\ req[r].pc \in Managing => MayManage(r, req[r].ws)

(* All of it, and that the workspaces a request names exist.              *)
Sound(r) ==
  /\ Aimed(r) /\ Spares(r) /\ Entitled(r)
  /\ owner[req[r].ws] # NoOne
  /\ \A i \in req[r].todo : owner[i.ws] # NoOne

IInv ==
  /\ TypeOK /\ RowsDiffer /\ Founded /\ OwnerRemains
  /\ \A r \in Requests : Sound(r)

-----------------------------------------------------------------------------
(* A set of natural numbers that is not empty has a least element.         *)
LEMMA LeastExists ==
  ASSUME NEW T \in SUBSET Nat, T # {}
  PROVE  \E x \in T : \A y \in T : x <= y
<1>1. IsWellFoundedOn(OpToRel(<, Nat), Nat)
  BY NatLessThanWellFounded
<1>2. PICK x \in T : \A y \in T : ~ (<<y, x>> \in OpToRel(<, Nat))
  BY <1>1, WFMin
<1>3. \A y \in T : ~ (y < x)
  BY <1>2 DEF OpToRel
<1> QED
  BY <1>3

(* At the start every variable has its type.                              *)
LEMMA InitTyped == Init => TypeOK
BY AccessAssumption
   DEF Init, TypeOK, MemberRows, InvitationRows, RequestRecords, Idle, Roles, Steps, Operations

(* A slot without a request is of the type of requests.                   *)
LEMMA IdleTyped == Idle \in RequestRecords
BY AccessAssumption DEF RequestRecords, Idle, Roles, Steps, Operations

-----------------------------------------------------------------------------
(* The three ways in which most steps move a request keep its type.        *)
LEMMA ReqTyped ==
  ASSUME TypeOK, NEW r \in Requests
  PROVE  /\ \A pc \in Steps : Goto(r, pc) => req' \in [Requests -> RequestRecords]
         /\ Finish(r) => req' \in [Requests -> RequestRecords]
         /\ \A w \in Workspaces, role \in Roles :
              Enter(r, w, role) => req' \in [Requests -> RequestRecords]
<1>1. req[r] \in RequestRecords
  BY DEF TypeOK
<1>2. ASSUME NEW pc \in Steps, Goto(r, pc) PROVE req' \in [Requests -> RequestRecords]
  <2>1. [req[r] EXCEPT !.pc = pc] \in RequestRecords
    BY <1>1 DEF RequestRecords
  <2>2. req' = [req EXCEPT ![r] = [req[r] EXCEPT !.pc = pc]]
    BY <1>2 DEF Goto
  <2> QED
    BY <2>1, <2>2 DEF TypeOK
<1>3. Finish(r) => req' \in [Requests -> RequestRecords]
  BY IdleTyped DEF Finish, TypeOK
<1>4. ASSUME NEW w \in Workspaces, NEW role \in Roles, Enter(r, w, role)
      PROVE  req' \in [Requests -> RequestRecords]
  <2>1. CASE Finish(r)
    BY <2>1, <1>3
  <2>2. CASE ~Finish(r)
    <3> DEFINE rec == [req[r] EXCEPT !.pc = req[r].op, !.op = "visit", !.ws = w, !.role = role]
    <3>1. req[r].op # "visit" /\ req' = [req EXCEPT ![r] = rec]
      BY <1>4, <2>2 DEF Enter
    <3>2. rec \in RequestRecords
      BY <1>1, <3>1 DEF RequestRecords, Operations, Steps
    <3> HIDE DEF rec
    <3> QED
      BY <3>1, <3>2 DEF TypeOK
  <2> QED
    BY <2>1, <2>2
<1> QED
  BY <1>2, <1>3, <1>4

(* A membership that is written has its type, new or not.                  *)
LEMMA UpsertTyped ==
  ASSUME TypeOK, NEW w \in Workspaces, NEW u \in Users, NEW role \in Roles, Upsert(w, u, role)
  PROVE  /\ members' \subseteq MemberRows
         /\ nextId' \in 1..(MaxRows + 1)
         /\ reinvited' \subseteq Workspaces
<1>1. reinvited' \subseteq Workspaces
  BY DEF TypeOK, Upsert
<1>2. CASE Row(w, u) # {}
  <2>1. \A m \in members : [m EXCEPT !.role = role] \in MemberRows
    BY DEF TypeOK, MemberRows
  <2> QED
    BY <1>1, <1>2, <2>1 DEF TypeOK, Upsert, Row
<1>3. CASE Row(w, u) = {}
  <2>1. [id |-> nextId, ws |-> w, user |-> u, role |-> role] \in MemberRows
    BY <1>3, AccessAssumption DEF TypeOK, Upsert, MemberRows
  <2> QED
    BY <1>1, <1>3, <2>1, AccessAssumption DEF TypeOK, Upsert
<1> QED
  BY <1>2, <1>3

(* So has an invitation whose status changes.                              *)
LEMMA MarkTyped ==
  ASSUME TypeOK, NEW w, NEW u, NEW status \in {"PENDING", "ACCEPTED", "EXPIRED", "REVOKED"},
         Mark(w, u, status)
  PROVE  invitations' \subseteq InvitationRows
<1>1. \A i \in invitations : [i EXCEPT !.status = status] \in InvitationRows
  BY DEF TypeOK, InvitationRows
<1> QED
  BY <1>1 DEF Mark, TypeOK

(* Some membership of a user is the oldest.                                *)
LEMMA OldestAmong ==
  ASSUME NEW T \in SUBSET MemberRows, T # {}
  PROVE  \E m \in T : \A n \in T : m.id <= n.id
<1> DEFINE ids == {m.id : m \in T}
<1>1. ids \in SUBSET Nat /\ ids # {}
  BY DEF MemberRows
<1>2. PICK x \in ids : \A y \in ids : x <= y
  BY <1>1, LeastExists
<1> QED
  BY <1>2

(* What findFirst by createdAt returns is a membership of the user.        *)
LEMMA OldestIs ==
  ASSUME TypeOK, NEW u, Of(u) # {}
  PROVE  Oldest(u) \in Of(u) /\ \A n \in Of(u) : Oldest(u).id <= n.id
<1>1. Of(u) \in SUBSET MemberRows
  BY DEF Of, TypeOK
<1> QED
  BY <1>1, OldestAmong DEF Oldest

(* Every step keeps the types: one step of the proof for each action.      *)
LEMMA TypeStep == TypeOK /\ (\A r \in Requests : Aimed(r)) /\ [Next]_vars => TypeOK'
<1> SUFFICES ASSUME TypeOK, \A r \in Requests : Aimed(r), [Next]_vars PROVE TypeOK'
  OBVIOUS
<1>0. \A r \in Requests : /\ req[r] \in RequestRecords /\ req[r].user \in Users
                          /\ req[r].ws \in Workspaces /\ req[r].todo \subseteq InvitationRows
                          /\ req[r].role \in Roles /\ req[r].op \in Operations
                          /\ req[r].target \in Users \cup {NoOne}
  BY DEF RequestRecords, TypeOK
<1>1. ASSUME NEW r \in Requests, NEW u \in Users, SignUp(r, u) PROVE TypeOK'
  <2>1. [Idle EXCEPT !.user = u, !.pc = "pending"] \in RequestRecords
    BY IdleTyped DEF RequestRecords, Steps
  <2> QED
    BY <1>1, <2>1, AccessAssumption DEF SignUp, TypeOK
<1>2. ASSUME NEW r \in Requests, NEW u \in Users, NEW op \in Operations, Start(r, u, op)
      PROVE TypeOK'
  <2>1. \A pc \in Steps : [Idle EXCEPT !.user = u, !.op = op, !.pc = pc] \in RequestRecords
    BY IdleTyped DEF RequestRecords
  <2> DEFINE step == CASE op = "visit" -> "pending" [] op = "accept" -> "accept"
                       [] OTHER -> "context"
  <2>2. step \in Steps
    BY DEF Steps
  <2>3. req' = [req EXCEPT ![r] = [Idle EXCEPT !.user = u, !.op = op, !.pc = step]]
    BY <1>2 DEF Start
  <2> HIDE DEF step
  <2>4. req' \in [Requests -> RequestRecords]
    BY <2>1, <2>2, <2>3 DEF TypeOK
  <2> QED
    BY <1>2, <2>4, AccessAssumption DEF Start, TypeOK
<1>3. ASSUME NEW r \in Requests, RequestStep(r), UNCHANGED made PROVE TypeOK'
  <2>1. CASE FindMembership(r)
    <3>1. req' \in [Requests -> RequestRecords]
      <4>1. CASE Of(req[r].user) # {}
        <5>1. Oldest(req[r].user) \in MemberRows
          BY <4>1, OldestIs DEF Of, TypeOK
        <5> QED
          BY <2>1, <4>1, <5>1, ReqTyped DEF FindMembership, MemberRows
      <4> QED
        BY <2>1, <4>1, ReqTyped DEF FindMembership, Steps
    <3> QED
      BY <1>3, <2>1, <3>1 DEF FindMembership, TypeOK
  <2>2. CASE FindInvitations(r)
    <3> DEFINE todo == {i \in invitations : i.user = req[r].user /\ Standing(i)}
    <3>1. [req[r] EXCEPT !.pc = "join", !.todo = todo] \in RequestRecords
      <4>1. todo \in SUBSET InvitationRows
        BY DEF TypeOK
      <4> HIDE DEF todo
      <4> QED
        BY <1>0, <4>1 DEF RequestRecords, Steps
    <3>2. req' = [req EXCEPT ![r] = [req[r] EXCEPT !.pc = "join", !.todo = todo]]
      BY <2>2 DEF FindInvitations
    <3> HIDE DEF todo
    <3> QED
      BY <1>3, <2>2, <3>1, <3>2 DEF FindInvitations, TypeOK
  <2>3. CASE Join(r)
    <3>1. PICK i \in req[r].todo :
            /\ Upsert(i.ws, req[r].user, i.role)
            /\ Mark(i.ws, i.user, "ACCEPTED")
            /\ Finish(r) \/ req' = [req EXCEPT ![r].todo = @ \ {i}]
      BY <2>3 DEF Join
    <3>2. i \in InvitationRows
      BY <1>0
    <3>3. i.ws \in Workspaces /\ i.role \in Roles
      BY <3>2 DEF InvitationRows, Roles, InviteRoles
    <3>4. [req[r] EXCEPT !.todo = @ \ {i}] \in RequestRecords
      BY <1>0 DEF RequestRecords
    <3>5. req' \in [Requests -> RequestRecords]
      BY <3>1, <3>4, ReqTyped DEF TypeOK
    <3> QED
      BY <1>0, <1>3, <2>3, <3>1, <3>3, <3>5, UpsertTyped, MarkTyped DEF Join, TypeOK
  <2>4. CASE Joined(r)
    BY <1>3, <2>4, ReqTyped DEF Joined, TypeOK, Steps
  <2>5. CASE FindPrimary(r)
    <3> DEFINE u == req[r].user
               pc == IF Of(u) = {} THEN "create" ELSE "role"
               w == IF Of(u) = {} THEN req[r].ws ELSE Oldest(u).ws
    <3>1. w \in Workspaces
      BY <1>0, OldestIs DEF Of, TypeOK, MemberRows
    <3>2. pc \in Steps
      BY DEF Steps
    <3>3. req' = [req EXCEPT ![r] = [req[r] EXCEPT !.pc = pc, !.ws = w]]
      BY <2>5 DEF FindPrimary
    <3> HIDE DEF pc, w
    <3>4. [req[r] EXCEPT !.pc = pc, !.ws = w] \in RequestRecords
      BY <1>0, <3>1, <3>2 DEF RequestRecords
    <3> QED
      BY <1>3, <2>5, <3>3, <3>4 DEF FindPrimary, TypeOK
  <2>6. CASE CreateWorkspace(r)
    <3>1. PICK w \in Workspaces :
            /\ owner' = [owner EXCEPT ![w] = req[r].user]
            /\ members' = members \cup
                 {[id |-> nextId, ws |-> w, user |-> req[r].user, role |-> "OWNER"]}
            /\ nextId' = nextId + 1
            /\ req' = [req EXCEPT ![r].pc = "role", ![r].ws = w]
      BY <2>6 DEF CreateWorkspace
    <3>2. [req[r] EXCEPT !.pc = "role", !.ws = w] \in RequestRecords
      BY <1>0 DEF RequestRecords, Steps
    <3>3. req' = [req EXCEPT ![r] = [req[r] EXCEPT !.pc = "role", !.ws = w]]
      BY <3>1
    <3>4. req' \in [Requests -> RequestRecords]
      BY <3>2, <3>3 DEF TypeOK
    <3>5. members' \subseteq MemberRows /\ nextId' \in 1..(MaxRows + 1)
      BY <1>0, <2>6, <3>1, AccessAssumption DEF CreateWorkspace, TypeOK, MemberRows, Roles
    <3> QED
      BY <1>0, <1>3, <2>6, <3>1, <3>4, <3>5 DEF CreateWorkspace, TypeOK
  <2>7. CASE ReadRole(r)
    <3> DEFINE rows == Row(req[r].ws, req[r].user)
               role == IF rows = {} THEN "OWNER" ELSE (CHOOSE m \in rows : TRUE).role
    <3>1. role \in Roles
      BY DEF Row, TypeOK, MemberRows, Roles
    <3>2. Enter(r, req[r].ws, role)
      BY <2>7 DEF ReadRole
    <3> HIDE DEF role
    <3> QED
      BY <1>0, <1>3, <2>7, <3>1, <3>2, ReqTyped DEF ReadRole, TypeOK
  <2>8. ASSUME NEW u \in Users, NEW role \in InviteRoles, FindUser(r, u, role) PROVE TypeOK'
    <3> DEFINE pc == IF u \in registered THEN "addMember" ELSE "addInvitation"
    <3>1. pc \in Steps
      BY DEF Steps
    <3>2. req' = [req EXCEPT ![r] = [req[r] EXCEPT !.pc = pc, !.target = u, !.role = role]]
      BY <2>8 DEF FindUser
    <3> HIDE DEF pc
    <3>3. [req[r] EXCEPT !.pc = pc, !.target = u, !.role = role] \in RequestRecords
      BY <1>0, <3>1 DEF RequestRecords, Roles, InviteRoles
    <3>4. req' \in [Requests -> RequestRecords]
      BY <3>2, <3>3 DEF TypeOK
    <3> QED
      BY <1>3, <2>8, <3>4 DEF FindUser, TypeOK
  <2>9. CASE AddMember(r)
    BY <1>0, <1>3, <2>9, ReqTyped, UpsertTyped DEF AddMember, TypeOK, Aimed
  <2>10. CASE AddInvitation(r)
    <3>1. [ws |-> req[r].ws, user |-> req[r].target, role |-> req[r].role,
           status |-> "PENDING", late |-> FALSE] \in InvitationRows
      BY <1>0, <2>10 DEF AddInvitation, Aimed, InvitationRows
    <3> QED
      BY <1>3, <2>10, <3>1, ReqTyped DEF AddInvitation, TypeOK
  <2>11. ASSUME NEW m \in members, FindTarget(r, m) PROVE TypeOK'
    <3> DEFINE pc == IF req[r].pc = "promote" THEN "setRole" ELSE "delete"
    <3>1. pc \in Steps
      BY DEF Steps
    <3>2. req' = [req EXCEPT ![r] = [req[r] EXCEPT !.row = m.id, !.pc = pc]]
      BY <2>11 DEF FindTarget
    <3> HIDE DEF pc
    <3>3. m.id \in 0..MaxRows
      BY AccessAssumption DEF TypeOK, MemberRows
    <3>4. [req[r] EXCEPT !.row = m.id, !.pc = pc] \in RequestRecords
      BY <1>0, <3>1, <3>3 DEF RequestRecords
    <3>5. req' \in [Requests -> RequestRecords]
      BY <3>2, <3>4 DEF TypeOK
    <3> QED
      BY <1>3, <2>11, <3>5 DEF FindTarget, TypeOK
  <2>12. ASSUME NEW role \in InviteRoles, SetRole(r, role) PROVE TypeOK'
    <3>1. \A m \in members : [m EXCEPT !.role = role] \in MemberRows
      BY DEF TypeOK, MemberRows, InviteRoles, Roles
    <3>2. members' \subseteq MemberRows
      BY <2>12, <3>1 DEF SetRole, TypeOK
    <3> QED
      BY <1>3, <2>12, <3>2, ReqTyped DEF SetRole, TypeOK
  <2>13. CASE DeleteMember(r)
    BY <1>3, <2>13, ReqTyped DEF DeleteMember, TypeOK, Steps
  <2>14. ASSUME NEW u \in Users, Revoke(r, u) PROVE TypeOK'
    <3>1. \A i \in invitations : [i EXCEPT !.status = "REVOKED"] \in InvitationRows
      BY DEF TypeOK, InvitationRows
    <3>2. invitations' \subseteq InvitationRows
      BY <2>14, <3>1 DEF Revoke, TypeOK
    <3> QED
      BY <1>3, <2>14, <3>2, ReqTyped DEF Revoke, TypeOK
  <2>15. ASSUME NEW i \in invitations, Lookup(r, i) PROVE TypeOK'
    <3> DEFINE pc == IF i.late THEN "expire" ELSE "join"
    <3>1. pc \in Steps
      BY DEF Steps
    <3>2. req' = [req EXCEPT ![r] = [req[r] EXCEPT !.pc = pc, !.todo = {i}]]
      BY <2>15 DEF Lookup
    <3> HIDE DEF pc
    <3>3. [req[r] EXCEPT !.pc = pc, !.todo = {i}] \in RequestRecords
      BY <1>0, <3>1 DEF RequestRecords, TypeOK
    <3>4. req' \in [Requests -> RequestRecords]
      BY <3>2, <3>3 DEF TypeOK
    <3> QED
      BY <1>3, <2>15, <3>4 DEF Lookup, TypeOK
  <2>16. CASE MarkExpired(r)
    BY <1>3, <2>16, ReqTyped, MarkTyped DEF MarkExpired, TypeOK
  <2>17. CASE Refused(r)
    BY <1>3, <2>17, ReqTyped DEF Refused, TypeOK
  <2> QED
    BY <1>3, <2>1, <2>2, <2>3, <2>4, <2>5, <2>6, <2>7, <2>8, <2>9, <2>10, <2>11, <2>12,
       <2>13, <2>14, <2>15, <2>16, <2>17 DEF RequestStep
<1>4. ASSUME NEW i \in invitations, FallDue(i), UNCHANGED made PROVE TypeOK'
  <2>1. [i EXCEPT !.late = TRUE] \in InvitationRows
    BY DEF TypeOK, InvitationRows
  <2> QED
    BY <1>4, <2>1 DEF FallDue, TypeOK
<1>5. CASE Done
  BY <1>5 DEF Done, TypeOK
<1>6. CASE UNCHANGED vars
  BY <1>6 DEF vars, TypeOK
<1> QED
  BY <1>1, <1>2, <1>3, <1>4, <1>5, <1>6 DEF Next, Arrive

-----------------------------------------------------------------------------
(* What entitles somebody to make u a member of w, or give u a role there. *)
Granted(w, u) ==
  \E r \in Requests :
    \/ req[r].user = u /\ <<w, "invited">> \in seen[r]
    \/ req[r].ws = w /\ MayManage(r, w)

(* The founder's workspace and membership satisfy the invariant.           *)
LEMMA InitInv == Init => IInv
<1> SUFFICES ASSUME Init PROVE IInv
  OBVIOUS
<1> USE AccessAssumption
<1>1. \A r \in Requests : Sound(r)
  <2> TAKE r \in Requests
  <2>1. /\ req[r].pc = "idle" /\ req[r].ws = FirstWorkspace /\ req[r].todo = {}
        /\ owner[FirstWorkspace] = Founder
    BY DEF Init, Idle
  <2> QED
    BY <2>1 DEF Sound, Aimed, Spares, Entitled, Managing
<1>2. RowsDiffer /\ Founded
  BY DEF Init, RowsDiffer, Founded
<1>3. OwnerRemains
  <2>1. \A w \in Workspaces : owner[w] # NoOne => w = FirstWorkspace /\ owner[w] = Founder
    BY DEF Init
  <2> DEFINE first == [id |-> 1, ws |-> FirstWorkspace, user |-> Founder, role |-> "OWNER"]
  <2>2. first \in Row(FirstWorkspace, Founder) /\ first.role = "OWNER"
    BY DEF Init, Row
  <2> HIDE DEF first
  <2> QED
    BY <2>1, <2>2 DEF OwnerRemains
<1> QED
  BY <1>1, <1>2, <1>3, InitTyped DEF IInv

(* Every step leaves the members alone, or writes one row by invitation or *)
(* by hand, creates a workspace, changes a role or deletes a row.          *)
LEMMA Effects ==
  ASSUME IInv, [Next]_vars
  PROVE  \/ UNCHANGED <<owner, members, nextId, reinvited>>
         \/ \E w \in Workspaces, u \in Users, role \in InviteRoles :
              /\ Upsert(w, u, role) /\ UNCHANGED owner
              /\ owner[w] # NoOne /\ Granted(w, u)
         \/ \E r \in Requests : CreateWorkspace(r)
         \/ \E r \in Requests, role \in InviteRoles : SetRole(r, role)
         \/ \E r \in Requests : DeleteMember(r)
<1>1. ASSUME NEW r \in Requests, Join(r)
      PROVE  \E w \in Workspaces, u \in Users, role \in InviteRoles :
               /\ Upsert(w, u, role) /\ UNCHANGED owner
               /\ owner[w] # NoOne /\ Granted(w, u)
  <2>1. PICK i \in req[r].todo : Upsert(i.ws, req[r].user, i.role)
    BY <1>1 DEF Join
  <2>2. i \in InvitationRows /\ req[r].user \in Users
    BY DEF IInv, TypeOK, RequestRecords
  <2>3. i.ws \in Workspaces /\ i.role \in InviteRoles
    BY <2>2 DEF InvitationRows
  <2>4. Granted(i.ws, req[r].user) /\ owner[i.ws] # NoOne
    BY <1>1 DEF Join, IInv, Sound, Entitled, Granted
  <2> QED
    BY <1>1, <2>1, <2>2, <2>3, <2>4 DEF Join
<1>2. ASSUME NEW r \in Requests, AddMember(r)
      PROVE  \E w \in Workspaces, u \in Users, role \in InviteRoles :
               /\ Upsert(w, u, role) /\ UNCHANGED owner
               /\ owner[w] # NoOne /\ Granted(w, u)
  <2>1. req[r].ws \in Workspaces
    BY DEF IInv, TypeOK, RequestRecords
  <2>2. req[r].target \in Users /\ req[r].role \in InviteRoles
    BY <1>2 DEF AddMember, IInv, Sound, Aimed
  <2>3. Granted(req[r].ws, req[r].target) /\ owner[req[r].ws] # NoOne
    BY <1>2 DEF AddMember, IInv, Sound, Entitled, Granted, Managing
  <2> QED
    BY <1>2, <2>1, <2>2, <2>3 DEF AddMember
<1>3. CASE UNCHANGED vars
  BY <1>3 DEF vars
<1>4. ASSUME NEW r \in Requests, Arrive(r) PROVE UNCHANGED <<owner, members, nextId, reinvited>>
  BY <1>4 DEF Arrive, SignUp, Start
<1>5. ASSUME NEW r \in Requests, RequestStep(r)
      PROVE  \/ UNCHANGED <<owner, members, nextId, reinvited>>
             \/ Join(r) \/ AddMember(r) \/ CreateWorkspace(r) \/ DeleteMember(r)
             \/ \E role \in InviteRoles : SetRole(r, role)
  BY <1>5 DEF RequestStep, FindMembership, FindInvitations, Joined, FindPrimary, ReadRole,
       FindUser, AddInvitation, FindTarget, Revoke, Lookup, MarkExpired, Refused
<1> QED
  BY <1>1, <1>2, <1>3, <1>4, <1>5 DEF Next, FallDue, Done

(* Rows keep their id, workspace and user; new ones get the next id. What  *)
(* was founded keeps its owner.                                            *)
RowsKept ==
  /\ nextId' >= nextId
  /\ \A m \in members' : m.id >= nextId \/
       \E n \in members : n.id = m.id /\ n.ws = m.ws /\ n.user = m.user
  /\ \A w \in Workspaces : owner[w] # NoOne => owner'[w] = owner[w]
  /\ reinvited \subseteq reinvited'

(* An upsert touches the row of one user in one workspace, and marks an    *)
(* owner's.                                                                *)
LEMMA UpsertStep ==
  ASSUME IInv, NEW w \in Workspaces, NEW u \in Users, NEW role \in InviteRoles,
         Upsert(w, u, role), UNCHANGED owner, owner[w] # NoOne
  PROVE  /\ RowsKept /\ RowsDiffer' /\ OwnerRemains'
         /\ \A m \in members' : owner'[m.ws] # NoOne
         /\ \A v \in Workspaces, x \in Users : ~(v = w /\ x = u) => Row(v, x)' = Row(v, x)
<1> DEFINE new == [id |-> nextId, ws |-> w, user |-> u, role |-> role]
           set(m) == [m EXCEPT !.role = role]
<1>1. \A m \in members : m \in MemberRows
  BY DEF IInv, TypeOK
<1>2. \A m \in members : set(m).id = m.id /\ set(m).ws = m.ws /\ set(m).user = m.user
  BY <1>1 DEF MemberRows
<1>3. nextId \in Nat
  BY AccessAssumption DEF IInv, TypeOK
<1>4. \A m \in members : m.id \in Nat /\ m.ws \in Workspaces /\ m.user \in Users
  BY <1>1 DEF MemberRows
<1>5. CASE Row(w, u) # {}
  <2>1. /\ members' = (members \ Row(w, u)) \cup {set(m) : m \in Row(w, u)}
        /\ nextId' = nextId
    BY <1>5 DEF Upsert
  <2>2. \A m \in members' : \/ m \in members /\ ~(m.ws = w /\ m.user = u)
                            \/ \E n \in members : /\ n.ws = w /\ n.user = u /\ m = set(n)
    BY <2>1 DEF Row
  <2>3. \A m \in members : ~(m.ws = w /\ m.user = u) => m \in members'
    BY <2>1 DEF Row
  <2> HIDE DEF set
  <2>4. RowsKept
    BY <1>2, <1>3, <2>1, <2>2 DEF RowsKept, Upsert
  <2>5. RowsDiffer'
    BY <1>2, <1>3, <1>4, <2>1, <2>2 DEF RowsDiffer, IInv
  <2>6. \A v \in Workspaces, x \in Users : ~(v = w /\ x = u) => Row(v, x)' = Row(v, x)
    BY <1>2, <2>2, <2>3 DEF Row
  <2>7. OwnerRemains'
    BY <2>6 DEF OwnerRemains, IInv, Upsert, TypeOK
  <2> QED
    BY <1>2, <2>2, <2>4, <2>5, <2>6, <2>7 DEF IInv, Founded
<1>6. CASE Row(w, u) = {}
  <2>1. members' = members \cup {new} /\ nextId' = nextId + 1
    BY <1>6 DEF Upsert
  <2>2. \A m \in members' : m \in members \/ m = new
    BY <2>1
  <2>3. new.id = nextId /\ new.ws = w /\ new.user = u
    OBVIOUS
  <2> HIDE DEF new
  <2>4. RowsKept
    BY <1>3, <2>1, <2>2, <2>3 DEF RowsKept, Upsert
  <2>5. RowsDiffer'
    BY <1>3, <1>4, <1>6, <2>1, <2>2, <2>3 DEF RowsDiffer, IInv, Row
  <2>6. \A v \in Workspaces, x \in Users : ~(v = w /\ x = u) => Row(v, x)' = Row(v, x)
    BY <2>1, <2>3 DEF Row
  <2>7. OwnerRemains'
    BY <2>6 DEF OwnerRemains, IInv, Upsert, TypeOK
  <2> QED
    BY <2>2, <2>3, <2>4, <2>5, <2>6, <2>7 DEF IInv, Founded
<1> QED
  BY <1>5, <1>6

(* A new workspace has its creator as a member and as OWNER.               *)
LEMMA CreateStep ==
  ASSUME IInv, NEW r \in Requests, CreateWorkspace(r)
  PROVE  /\ RowsKept /\ RowsDiffer' /\ OwnerRemains'
         /\ \A m \in members' : owner'[m.ws] # NoOne
<1>1. PICK w \in Workspaces :
        /\ owner[w] = NoOne
        /\ owner' = [owner EXCEPT ![w] = req[r].user]
        /\ members' = members \cup
             {[id |-> nextId, ws |-> w, user |-> req[r].user, role |-> "OWNER"]}
        /\ nextId' = nextId + 1
        /\ reinvited' = reinvited
  BY DEF CreateWorkspace
<1> DEFINE u == req[r].user
           new == [id |-> nextId, ws |-> w, user |-> u, role |-> "OWNER"]
<1>2. \A m \in members : m.id \in Nat /\ m.ws \in Workspaces /\ m.user \in Users
  BY DEF IInv, TypeOK, MemberRows
<1>3. nextId \in Nat /\ u \in Users
  BY AccessAssumption DEF IInv, TypeOK, RequestRecords
<1>4. /\ \A m \in members' : m \in members \/ m = new
      /\ members \subseteq members' /\ new \in members'
  BY <1>1
<1>5. new.id = nextId /\ new.ws = w /\ new.user = u /\ new.role = "OWNER"
  OBVIOUS
<1>6. owner'[w] = u /\ \A v \in Workspaces : v # w => owner'[v] = owner[v]
  BY <1>1 DEF IInv, TypeOK
<1> HIDE DEF new, u
<1>7. RowsKept
  BY <1>1, <1>3, <1>4, <1>5, <1>6 DEF RowsKept
<1>8. \A m \in members : m.ws # w
  BY <1>1 DEF IInv, Founded
<1>9. RowsDiffer'
  BY <1>1, <1>2, <1>3, <1>4, <1>5, <1>8 DEF RowsDiffer, IInv
<1>10. \A m \in members' : owner'[m.ws] # NoOne
  BY <1>2, <1>3, <1>4, <1>5, <1>6, AccessAssumption DEF IInv, Founded
<1>11. OwnerRemains'
  BY <1>1, <1>4, <1>5, <1>6 DEF OwnerRemains, IInv, Row
<1> QED
  BY <1>7, <1>9, <1>10, <1>11

(* A promotion by id changes a row of the request's workspace, no owner's. *)
LEMMA SetRoleStep ==
  ASSUME IInv, NEW r \in Requests, NEW role \in InviteRoles, SetRole(r, role)
  PROVE  /\ RowsKept /\ RowsDiffer' /\ OwnerRemains'
         /\ \A m \in members' : owner'[m.ws] # NoOne
         /\ \A m \in members' : m \in members \/ m.ws = req[r].ws
<1> DEFINE set(m) == [m EXCEPT !.role = role]
<1>1. \A m \in members : set(m).id = m.id /\ set(m).ws = m.ws /\ set(m).user = m.user
  BY DEF IInv, TypeOK, MemberRows
<1>2. /\ members' = {IF m.id = req[r].row THEN set(m) ELSE m : m \in members}
      /\ nextId' = nextId /\ owner' = owner /\ reinvited' = reinvited
  BY DEF SetRole
<1>3. nextId \in Nat
  BY AccessAssumption DEF IInv, TypeOK
<1> HIDE DEF set
<1>4. \A m \in members' : m \in members \/ \E n \in members : n.id = req[r].row /\ m = set(n)
  BY <1>2
<1>5. \A m \in members : m.id # req[r].row => m \in members'
  BY <1>2
<1>6. \A m \in members : m.id = req[r].row =>
        m.ws = req[r].ws /\ (m.user = owner[m.ws] => m.ws \in reinvited)
  BY DEF SetRole, IInv, Sound, Spares
<1>7. RowsKept
  BY <1>1, <1>2, <1>3, <1>4 DEF RowsKept
<1>8. RowsDiffer'
  <2>1. \A m \in members' : \E n \in members :
          /\ n.id = m.id /\ n.ws = m.ws /\ n.user = m.user
          /\ m = IF n.id = req[r].row THEN set(n) ELSE n
    BY <1>1, <1>2
  <2> QED
    BY <1>2, <2>1 DEF RowsDiffer, IInv
<1>9. OwnerRemains'
  BY <1>2, <1>5, <1>6 DEF OwnerRemains, IInv, Row
<1> QED
  BY <1>1, <1>2, <1>4, <1>6, <1>7, <1>8, <1>9 DEF IInv, Founded

(* Nor does a removal by id delete an owner's.                             *)
LEMMA DeleteStep ==
  ASSUME IInv, NEW r \in Requests, DeleteMember(r)
  PROVE  /\ RowsKept /\ RowsDiffer' /\ OwnerRemains'
         /\ \A m \in members' : owner'[m.ws] # NoOne
         /\ members' \subseteq members
<1>1. /\ members' = {m \in members : m.id # req[r].row}
      /\ nextId' = nextId /\ owner' = owner /\ reinvited' = reinvited
  BY DEF DeleteMember
<1>2. nextId \in Nat
  BY AccessAssumption DEF IInv, TypeOK
<1>3. RowsKept
  BY <1>1, <1>2 DEF RowsKept
<1>4. RowsDiffer'
  BY <1>1 DEF RowsDiffer, IInv
<1>5. OwnerRemains'
  <2>1. \A m \in members : m.id = req[r].row => (m.user = owner[m.ws] => m.ws \in reinvited)
    BY DEF DeleteMember, IInv, Sound, Spares
  <2> QED
    BY <1>1, <2>1 DEF OwnerRemains, IInv, Row
<1> QED
  BY <1>1, <1>3, <1>4, <1>5 DEF IInv, Founded

(* The members after any step.                                             *)
LEMMA MembersStep ==
  ASSUME IInv, [Next]_vars
  PROVE  /\ RowsKept /\ RowsDiffer' /\ OwnerRemains'
         /\ \A m \in members' : owner'[m.ws] # NoOne
<1>1. CASE UNCHANGED <<owner, members, nextId, reinvited>>
  <2>1. nextId \in Nat
    BY AccessAssumption DEF IInv, TypeOK
  <2> QED
    BY <1>1, <2>1 DEF RowsKept, RowsDiffer, OwnerRemains, Row, IInv, Founded
<1>2. ASSUME NEW w \in Workspaces, NEW u \in Users, NEW role \in InviteRoles,
             Upsert(w, u, role), UNCHANGED owner, owner[w] # NoOne
      PROVE  /\ RowsKept /\ RowsDiffer' /\ OwnerRemains'
             /\ \A m \in members' : owner'[m.ws] # NoOne
  BY <1>2, UpsertStep
<1> QED
  BY <1>1, <1>2, Effects, CreateStep, SetRoleStep, DeleteStep

-----------------------------------------------------------------------------
(* Invitations are always to workspaces that exist.                        *)
LEMMA InvitationsStep ==
  ASSUME IInv, [Next]_vars
  PROVE  \A i \in invitations' : owner[i.ws] # NoOne
<1>0. \A i \in invitations : i \in InvitationRows
  BY DEF IInv, TypeOK
<1>1. ASSUME NEW w, NEW u, NEW status, Mark(w, u, status)
      PROVE  \A i \in invitations' : owner[i.ws] # NoOne
  <2>1. \A i \in invitations : [i EXCEPT !.status = status].ws = i.ws
    BY <1>0 DEF InvitationRows
  <2>2. \A i \in invitations' : \E j \in invitations : i.ws = j.ws
    BY <1>1, <2>1 DEF Mark
  <2> QED
    BY <2>2 DEF IInv, Founded
<1>2. ASSUME NEW r \in Requests, NEW u \in Users, Revoke(r, u)
      PROVE  \A i \in invitations' : owner[i.ws] # NoOne
  <2>1. \A i \in invitations : [i EXCEPT !.status = "REVOKED"].ws = i.ws
    BY <1>0 DEF InvitationRows
  <2>2. \A i \in invitations' : \E j \in invitations : i.ws = j.ws
    BY <1>2, <2>1 DEF Revoke
  <2> QED
    BY <2>2 DEF IInv, Founded
<1>3. ASSUME NEW i \in invitations, FallDue(i)
      PROVE  \A j \in invitations' : owner[j.ws] # NoOne
  <2>1. [i EXCEPT !.late = TRUE].ws = i.ws
    BY <1>0 DEF InvitationRows
  <2> QED
    BY <1>3, <2>1 DEF FallDue, IInv, Founded
<1>4. ASSUME NEW r \in Requests, AddInvitation(r)
      PROVE  \A i \in invitations' : owner[i.ws] # NoOne
  BY <1>4 DEF AddInvitation, IInv, Founded, Sound
<1>5. ASSUME UNCHANGED invitations PROVE \A i \in invitations' : owner[i.ws] # NoOne
  BY <1>5 DEF IInv, Founded
<1>6. ASSUME NEW r \in Requests, RequestStep(r)
      PROVE  \/ UNCHANGED invitations
             \/ \E w, u, status : Mark(w, u, status)
             \/ AddInvitation(r) \/ \E u \in Users : Revoke(r, u)
  BY <1>6 DEF RequestStep, FindMembership, FindInvitations, Join, Joined, FindPrimary,
       CreateWorkspace, ReadRole, FindUser, AddMember, FindTarget, SetRole, DeleteMember,
       Lookup, MarkExpired, Refused
<1>7. ASSUME NEW r \in Requests, Arrive(r) PROVE UNCHANGED invitations
  BY <1>7 DEF Arrive, SignUp, Start
<1> QED
  BY <1>1, <1>2, <1>3, <1>4, <1>5, <1>6, <1>7 DEF Next, Done, vars

(* What a request that goes on has seen: all it had seen, what its user    *)
(* has now, and the memberships that were taken from its user.             *)
LEMMA Witnessed ==
  ASSUME [Next]_vars, NEW q \in Requests, req'[q].pc # "idle"
  PROVE  /\ seen[q] \subseteq seen'[q]
         /\ Next => Now(req[q].user)' \subseteq seen'[q]
         /\ \A w \in Workspaces :
              /\ req[q].pc # "idle" /\ req'[q].user = req[q].user
              /\ Row(w, req[q].user) # {} /\ Row(w, req[q].user)' = {}
              => <<w, "removed">> \in seen'[q]
<1>1. CASE Next
  <2>1. seen'[q] = seen[q] \cup Now(req[q].user)' \cup Lost(q)
    BY <1>1 DEF Next, Watch
  <2>2. \A w \in Workspaces :
          req[q].pc # "idle" /\ Row(w, req[q].user) # {} /\ Row(w, req[q].user)' = {}
          => <<w, "removed">> \in Lost(q)
    BY DEF Lost
  <2> QED
    BY <2>1, <2>2
<1>2. CASE ~Next
  BY <1>2 DEF vars, Row
<1> QED
  BY <1>1, <1>2

(* A request that waits while others step stays sound: rows keep their     *)
(* ids, workspaces and users, and what was seen is not unseen.             *)
LEMMA WaitingStep ==
  ASSUME IInv, [Next]_vars, NEW q \in Requests, req'[q] = req[q]
  PROVE  Sound(q)'
<1>1. RowsKept /\ \A m \in members' : owner'[m.ws] # NoOne
  BY MembersStep
<1>2. /\ req[q].ws \in Workspaces /\ req[q].row \in Nat /\ nextId \in Nat /\ nextId' \in Nat
      /\ \A i \in req[q].todo : i.ws \in Workspaces
  <2>1. TypeOK'
    BY TypeStep DEF IInv, Sound
  <2> QED
    BY <2>1, AccessAssumption DEF IInv, TypeOK, RequestRecords, InvitationRows
<1>3. Sound(q)
  BY DEF IInv
<1>4. Aimed(q)'
  BY <1>3 DEF Sound, Aimed
<1>5. Spares(q)'
  <2>1. \A n \in members : n.ws \in Workspaces /\ owner[n.ws] # NoOne
    BY DEF IInv, Founded, TypeOK, MemberRows
  <2> QED
    BY <1>1, <1>2, <1>3, <2>1 DEF Sound, Spares, RowsKept
<1>6. Entitled(q)'
  <2>1. CASE req[q].pc = "join"
    BY <1>3, <2>1, Witnessed DEF Sound, Entitled, Managing
  <2>2. CASE req[q].pc = "role"
    BY <1>2, <1>3, <2>2, Witnessed DEF Sound, Entitled, Managing, Row
  <2>3. CASE req[q].pc \in Managing
    BY <1>3, <2>3, Witnessed DEF Sound, Entitled, Managing, MayManage
  <2> QED
    BY <2>1, <2>2, <2>3 DEF Entitled
<1>7. owner'[req'[q].ws] # NoOne /\ \A i \in req'[q].todo : owner'[i.ws] # NoOne
  BY <1>1, <1>2, <1>3 DEF Sound, RowsKept
<1> QED
  BY <1>4, <1>5, <1>6, <1>7 DEF Sound

(* A request that neither manages a workspace nor joins one.               *)
LEMMA ElsewhereSound ==
  ASSUME IInv, [Next]_vars, NEW r \in Requests,
         req'[r].pc \in {"idle", "context", "pending", "primary", "create", "accept", "expire"},
         req'[r].ws = FirstWorkspace \/ req'[r].ws = req[r].ws,
         \A i \in req'[r].todo : i \in req[r].todo \/ i \in invitations
  PROVE  Sound(r)'
<1>1. RowsKept
  BY MembersStep
<1>2. /\ req[r].ws \in Workspaces
      /\ \A i \in req[r].todo : i.ws \in Workspaces
      /\ \A i \in invitations : i.ws \in Workspaces
  BY DEF IInv, TypeOK, RequestRecords, InvitationRows
<1>3. owner'[req'[r].ws] # NoOne /\ \A i \in req'[r].todo : owner'[i.ws] # NoOne
  BY <1>1, <1>2, AccessAssumption DEF IInv, Sound, Founded, RowsKept
<1> QED
  BY <1>3 DEF Sound, Aimed, Spares, Entitled, Managing

(* A step of one request: the others wait.                                 *)
LEMMA MoveSound ==
  ASSUME IInv, [Next]_vars, NEW r \in Requests, NEW rec, req' = [req EXCEPT ![r] = rec],
         req'[r] = rec => Sound(r)'
  PROVE  \A q \in Requests : Sound(q)'
<1>1. req'[r] = rec /\ \A q \in Requests \ {r} : req'[q] = req[q]
  BY DEF IInv, TypeOK
<1> QED
  BY <1>1, WaitingStep

(* A request that ends leaves an empty slot.                               *)
LEMMA FinishStep ==
  ASSUME IInv, [Next]_vars, NEW r \in Requests, Finish(r)
  PROVE  \A q \in Requests : Sound(q)'
<1>1. Idle.pc = "idle" /\ Idle.ws = FirstWorkspace /\ Idle.todo = {}
  BY DEF Idle
<1> HIDE DEF Idle
<1> QED
  BY <1>1, MoveSound, ElsewhereSound DEF Finish

(* A request that goes on to a step in which it acts on nothing it read.   *)
LEMMA GotoStep ==
  ASSUME IInv, [Next]_vars, NEW r \in Requests,
         NEW pc \in {"pending", "primary"}, Goto(r, pc)
  PROVE  \A q \in Requests : Sound(q)'
<1> DEFINE rec == [req[r] EXCEPT !.pc = pc]
<1>1. req' = [req EXCEPT ![r] = rec]
  BY DEF Goto
<1>2. rec.pc = pc /\ rec.ws = req[r].ws /\ rec.todo = req[r].todo
  BY DEF IInv, TypeOK, RequestRecords
<1> HIDE DEF rec
<1> QED
  BY <1>1, <1>2, MoveSound, ElsewhereSound

(* A request that arrives has read nothing.                                *)
LEMMA ArriveStep ==
  ASSUME IInv, [Next]_vars, NEW r \in Requests, Arrive(r)
  PROVE  \A q \in Requests : Sound(q)'
<1> DEFINE Begins(rec) == /\ req' = [req EXCEPT ![r] = rec]
                          /\ rec.pc \in {"pending", "accept", "context"}
                          /\ rec.ws = FirstWorkspace /\ rec.todo = {}
<1>1. ASSUME NEW u \in Users, SignUp(r, u) PROVE \E rec : Begins(rec)
  <2>1. Begins([Idle EXCEPT !.user = u, !.pc = "pending"])
    BY <1>1 DEF SignUp, Idle
  <2> QED
    BY <2>1
<1>2. ASSUME NEW u \in Users, NEW op \in Operations, Start(r, u, op) PROVE \E rec : Begins(rec)
  <2>1. Begins([Idle EXCEPT !.user = u, !.op = op,
                  !.pc = CASE op = "visit" -> "pending" [] op = "accept" -> "accept"
                           [] OTHER -> "context"])
    BY <1>2 DEF Start, Idle
  <2> QED
    BY <2>1
<1>3. PICK rec : Begins(rec)
  BY <1>1, <1>2 DEF Arrive
<1> QED
  BY <1>3, MoveSound, ElsewhereSound

(* Whoever is found to manage w goes on in w.                              *)
LEMMA EnterStep ==
  ASSUME IInv, Next, NEW r \in Requests, NEW w \in Workspaces, NEW role \in Roles,
         Enter(r, w, role), owner[w] # NoOne,
         req'[r].pc # "idle" => <<w, role>> \in seen'[r] \/ <<w, "removed">> \in seen'[r]
  PROVE  \A q \in Requests : Sound(q)'
<1>1. CASE Finish(r)
  BY <1>1, FinishStep
<1>2. CASE ~Finish(r)
  <2> DEFINE rec == [req[r] EXCEPT !.pc = req[r].op, !.op = "visit", !.ws = w, !.role = role]
  <2>1. /\ req[r].op # "visit" /\ CanManage(role)
        /\ req' = [req EXCEPT ![r] = rec]
    BY <1>2 DEF Enter
  <2>2. /\ rec.pc = req[r].op /\ rec.ws = w /\ rec.todo = req[r].todo
        /\ req[r].op \in Operations /\ \A i \in req[r].todo : i.ws \in Workspaces
    BY DEF IInv, TypeOK, RequestRecords, InvitationRows
  <2> HIDE DEF rec
  <2>3. ASSUME req'[r] = rec PROVE Sound(r)'
    <3>1. owner'[w] # NoOne /\ \A i \in req[r].todo : owner'[i.ws] # NoOne
      BY <2>2, MembersStep DEF RowsKept, IInv, Sound
    <3>2. MayManage(r, w)'
      BY <2>1, <2>2, <2>3 DEF MayManage, CanManage, Operations
    <3> QED
      BY <2>1, <2>2, <2>3, <3>1, <3>2 DEF Sound, Aimed, Spares, Entitled, Managing, Operations
  <2> QED
    BY <2>1, <2>3, MoveSound
<1> QED
  BY <1>1, <1>2

(* The context: the role read was the user's at that moment.               *)
LEMMA FindMembershipStep ==
  ASSUME IInv, Next, NEW r \in Requests, FindMembership(r)
  PROVE  \A q \in Requests : Sound(q)'
<1>1. CASE Of(req[r].user) = {}
  BY <1>1, GotoStep DEF FindMembership
<1>2. CASE Of(req[r].user) # {}
  <2> DEFINE m == Oldest(req[r].user)
  <2>1. m \in members /\ m.user = req[r].user
    BY <1>2, OldestIs DEF IInv, Of
  <2>2. Enter(r, m.ws, m.role) /\ members' = members
    BY <1>2 DEF FindMembership
  <2> HIDE DEF m
  <2>3. m.ws \in Workspaces /\ m.role \in Roles /\ owner[m.ws] # NoOne
    BY <2>1 DEF IInv, TypeOK, MemberRows, Founded
  <2>4. ASSUME req'[r].pc # "idle" PROVE <<m.ws, m.role>> \in seen'[r]
    <3>1. req'[r].user = req[r].user
      BY <2>2, <2>4 DEF Enter, Finish, Idle, IInv, TypeOK, RequestRecords
    <3>2. <<m.ws, m.role>> \in Now(req[r].user)'
      BY <2>1, <2>2, <3>1 DEF Now
    <3> QED
      BY <2>4, <3>2, Witnessed
  <2> QED
    BY <2>2, <2>3, <2>4, EnterStep
<1> QED
  BY <1>1, <1>2

(* The invitations read stood at that moment.                              *)
LEMMA FindInvitationsStep ==
  ASSUME IInv, Next, NEW r \in Requests, FindInvitations(r)
  PROVE  \A q \in Requests : Sound(q)'
<1> DEFINE todo == {i \in invitations : i.user = req[r].user /\ Standing(i)}
           rec == [req[r] EXCEPT !.pc = "join", !.todo = todo]
<1>1. req' = [req EXCEPT ![r] = rec] /\ invitations' = invitations
  BY DEF FindInvitations
<1>2. /\ rec.pc = "join" /\ rec.ws = req[r].ws /\ rec.user = req[r].user /\ rec.todo = todo
      /\ req[r].ws \in Workspaces /\ \A i \in invitations : i.ws \in Workspaces
  BY DEF IInv, TypeOK, RequestRecords, InvitationRows
<1>3. \A i \in todo : /\ i \in invitations /\ i.user = req[r].user /\ Standing(i)
  OBVIOUS
<1> HIDE DEF rec, todo
<1>4. ASSUME req'[r] = rec PROVE Sound(r)'
  <2>1. owner'[rec.ws] # NoOne /\ \A i \in todo : owner'[i.ws] # NoOne
    BY <1>2, <1>3, MembersStep DEF RowsKept, IInv, Sound, Founded
  <2>2. \A i \in todo : <<i.ws, "invited">> \in Now(req[r].user)'
    BY <1>1, <1>2, <1>3, <1>4 DEF Now, Standing
  <2>3. \A i \in todo : <<i.ws, "invited">> \in seen'[r]
    BY <1>2, <1>4, <2>2, Witnessed
  <2> QED
    BY <1>2, <1>3, <1>4, <2>1, <2>3 DEF Sound, Aimed, Spares, Entitled, Managing
<1> QED
  BY <1>1, <1>4, MoveSound

(* Accepting one leaves the others to accept.                              *)
LEMMA JoinStep ==
  ASSUME IInv, Next, NEW r \in Requests, Join(r)
  PROVE  \A q \in Requests : Sound(q)'
<1>1. CASE Finish(r)
  BY <1>1, FinishStep
<1>2. CASE ~Finish(r)
  <2>1. PICK i \in req[r].todo : req' = [req EXCEPT ![r].todo = @ \ {i}]
    BY <1>2 DEF Join
  <2> DEFINE rec == [req[r] EXCEPT !.todo = @ \ {i}]
  <2>2. req' = [req EXCEPT ![r] = rec]
    BY <2>1
  <2>3. /\ rec.pc = "join" /\ rec.ws = req[r].ws /\ rec.user = req[r].user
        /\ rec.todo \subseteq req[r].todo
        /\ req[r].ws \in Workspaces /\ \A j \in req[r].todo : j.ws \in Workspaces
    BY DEF Join, IInv, TypeOK, RequestRecords, InvitationRows
  <2> HIDE DEF rec
  <2>4. ASSUME req'[r] = rec PROVE Sound(r)'
    <3>1. owner'[rec.ws] # NoOne /\ \A j \in rec.todo : owner'[j.ws] # NoOne
      BY <2>3, MembersStep DEF RowsKept, IInv, Sound
    <3>2. \A j \in rec.todo : j.user = rec.user /\ <<j.ws, "invited">> \in seen'[r]
      BY <2>3, <2>4, Witnessed DEF Join, IInv, Sound, Entitled
    <3> QED
      BY <2>3, <2>4, <3>1, <3>2 DEF Sound, Aimed, Spares, Entitled, Managing
  <2> QED
    BY <2>2, <2>4, MoveSound
<1> QED
  BY <1>1, <1>2

(* The primary workspace is one the user belongs to.                       *)
LEMMA FindPrimaryStep ==
  ASSUME IInv, Next, NEW r \in Requests, FindPrimary(r)
  PROVE  \A q \in Requests : Sound(q)'
<1> DEFINE u == req[r].user
           pc == IF Of(u) = {} THEN "create" ELSE "role"
           w == IF Of(u) = {} THEN req[r].ws ELSE Oldest(u).ws
           rec == [req[r] EXCEPT !.pc = pc, !.ws = w]
<1>1. req' = [req EXCEPT ![r] = rec] /\ UNCHANGED <<members, owner>>
  BY DEF FindPrimary
<1>2. /\ rec.pc = pc /\ rec.ws = w /\ rec.user = u /\ rec.todo = req[r].todo
  BY DEF IInv, TypeOK, RequestRecords
<1>3. owner[w] # NoOne /\ (pc = "role" => Row(w, u) # {})
  <2>1. CASE Of(u) = {}
    BY <2>1 DEF IInv, Sound
  <2>2. CASE Of(u) # {}
    <3>1. Oldest(u) \in members /\ Oldest(u).user = u
      BY <2>2, OldestIs DEF IInv, Of
    <3> QED
      BY <2>2, <3>1 DEF Row, IInv, Founded
  <2> QED
    BY <2>1, <2>2
<1>4. pc \in {"create", "role"}
  OBVIOUS
<1> HIDE DEF rec, pc, w
<1>5. ASSUME req'[r] = rec PROVE Sound(r)'
  <2>1. \A i \in rec.todo : owner'[i.ws] # NoOne
    BY <1>1, <1>2 DEF IInv, Sound
  <2> QED
    BY <1>1, <1>2, <1>3, <1>4, <1>5, <2>1 DEF Sound, Aimed, Spares, Entitled, Managing, Row
<1> QED
  BY <1>1, <1>5, MoveSound

(* So is the workspace created for them.                                   *)
LEMMA CreateSoundStep ==
  ASSUME IInv, Next, NEW r \in Requests, CreateWorkspace(r)
  PROVE  \A q \in Requests : Sound(q)'
<1>1. PICK w \in Workspaces :
        /\ owner' = [owner EXCEPT ![w] = req[r].user]
        /\ members' = members \cup
             {[id |-> nextId, ws |-> w, user |-> req[r].user, role |-> "OWNER"]}
        /\ req' = [req EXCEPT ![r].pc = "role", ![r].ws = w]
  BY DEF CreateWorkspace
<1> DEFINE u == req[r].user
           rec == [req[r] EXCEPT !.pc = "role", !.ws = w]
           new == [id |-> nextId, ws |-> w, user |-> u, role |-> "OWNER"]
<1>2. req' = [req EXCEPT ![r] = rec]
  BY <1>1
<1>3. /\ rec.pc = "role" /\ rec.ws = w /\ rec.user = u /\ rec.todo = req[r].todo
      /\ u \in Users /\ \A i \in req[r].todo : i.ws \in Workspaces
  BY DEF IInv, TypeOK, RequestRecords, InvitationRows
<1>4. new \in members' /\ new.ws = w /\ new.user = u
  BY <1>1
<1> HIDE DEF rec, new
<1>5. ASSUME req'[r] = rec PROVE Sound(r)'
  <2>1. owner'[w] # NoOne
    BY <1>1, <1>3, AccessAssumption DEF IInv, TypeOK
  <2>2. \A i \in rec.todo : owner'[i.ws] # NoOne
    BY <1>3, MembersStep DEF RowsKept, IInv, Sound
  <2>3. (Row(req[r].ws, req[r].user) # {})'
    BY <1>3, <1>4, <1>5 DEF Row
  <2> QED
    BY <1>3, <1>5, <2>1, <2>2, <2>3 DEF Sound, Aimed, Spares, Entitled, Managing
<1> QED
  BY <1>2, <1>5, MoveSound

(* The role is read from the row, or the row was removed in between.       *)
LEMMA ReadRoleStep ==
  ASSUME IInv, Next, NEW r \in Requests, ReadRole(r)
  PROVE  \A q \in Requests : Sound(q)'
<1> DEFINE u == req[r].user
           w == req[r].ws
           rows == Row(w, u)
           role == IF rows = {} THEN "OWNER" ELSE (CHOOSE m \in rows : TRUE).role
<1>1. Enter(r, w, role) /\ members' = members
  BY DEF ReadRole
<1>2. /\ role \in Roles
      /\ rows = {} \/ \E m \in members : m.user = u /\ m.ws = w /\ m.role = role
  BY DEF Row, IInv, TypeOK, MemberRows, Roles
<1>3. /\ w \in Workspaces /\ owner[w] # NoOne /\ req[r].pc = "role"
      /\ rows = {} => <<w, "removed">> \in seen[r]
  BY DEF ReadRole, IInv, TypeOK, RequestRecords, Sound, Entitled
<1> HIDE DEF role
<1>4. ASSUME req'[r].pc # "idle"
      PROVE  <<w, role>> \in seen'[r] \/ <<w, "removed">> \in seen'[r]
  <2>1. req'[r].user = u
    BY <1>1, <1>4 DEF Enter, Finish, Idle, IInv, TypeOK, RequestRecords
  <2>2. CASE rows = {}
    BY <1>3, <1>4, <2>2, Witnessed
  <2>3. CASE rows # {}
    <3>1. <<w, role>> \in Now(req[r].user)'
      BY <1>1, <1>2, <2>1, <2>3 DEF Now
    <3> QED
      BY <1>4, <3>1, Witnessed
  <2> QED
    BY <2>2, <2>3
<1> QED
  BY <1>1, <1>2, <1>3, <1>4, EnterStep

(* A request that manages a workspace goes on managing it.                 *)
LEMMA ManageStep ==
  ASSUME IInv, [Next]_vars, NEW r \in Requests, req[r].pc \in Managing,
         req'[r].pc \in Managing, req'[r].ws = req[r].ws, req'[r].todo = req[r].todo,
         Aimed(r)', Spares(r)'
  PROVE  Sound(r)'
<1>1. MayManage(r, req[r].ws)
  BY DEF IInv, Sound, Entitled
<1>2. (MayManage(r, req[r].ws))'
  BY <1>1, Witnessed DEF MayManage, Managing
<1>3. req[r].ws \in Workspaces /\ \A i \in req[r].todo : i.ws \in Workspaces
  BY DEF IInv, TypeOK, RequestRecords, InvitationRows
<1>4. owner'[req[r].ws] # NoOne /\ \A i \in req[r].todo : owner'[i.ws] # NoOne
  BY <1>3, MembersStep DEF RowsKept, IInv, Sound
<1> QED
  BY <1>2, <1>4 DEF Sound, Entitled, Managing

(* POST looks the address up.                                              *)
LEMMA FindUserStep ==
  ASSUME IInv, Next, NEW r \in Requests, NEW u \in Users, NEW role \in InviteRoles,
         FindUser(r, u, role)
  PROVE  \A q \in Requests : Sound(q)'
<1> DEFINE pc == IF u \in registered THEN "addMember" ELSE "addInvitation"
           rec == [req[r] EXCEPT !.pc = pc, !.target = u, !.role = role]
<1>1. req' = [req EXCEPT ![r] = rec]
  BY DEF FindUser
<1>2. /\ rec.pc = pc /\ rec.ws = req[r].ws /\ rec.todo = req[r].todo
      /\ rec.target = u /\ rec.role = role
  BY DEF IInv, TypeOK, RequestRecords
<1>3. pc \in {"addMember", "addInvitation"}
  OBVIOUS
<1> HIDE DEF rec, pc
<1>4. ASSUME req'[r] = rec PROVE Sound(r)'
  BY <1>2, <1>3, <1>4, ManageStep DEF FindUser, Aimed, Spares, Managing
<1> QED
  BY <1>1, <1>4, MoveSound

(* PATCH and DELETE read the row: not OWNER, so not the owner's.           *)
LEMMA FindTargetStep ==
  ASSUME IInv, Next, NEW r \in Requests, NEW m \in members, FindTarget(r, m)
  PROVE  \A q \in Requests : Sound(q)'
<1> DEFINE pc == IF req[r].pc = "promote" THEN "setRole" ELSE "delete"
           rec == [req[r] EXCEPT !.row = m.id, !.pc = pc]
<1>1. req' = [req EXCEPT ![r] = rec] /\ UNCHANGED <<members, owner, nextId, reinvited>>
  BY DEF FindTarget
<1>2. /\ rec.pc = pc /\ rec.ws = req[r].ws /\ rec.todo = req[r].todo /\ rec.row = m.id
  BY DEF IInv, TypeOK, RequestRecords
<1>3. pc \in {"setRole", "delete"} /\ req[r].pc \in Managing /\ m.ws = req[r].ws /\ m.role # "OWNER"
  BY DEF FindTarget, Managing
<1>4. m.user = owner[m.ws] => m.ws \in reinvited
  <2>1. m.ws \in Workspaces /\ owner[m.ws] # NoOne
    BY DEF IInv, TypeOK, MemberRows, Founded
  <2>2. m.ws \notin reinvited => \E n \in members : /\ n.ws = m.ws /\ n.user = owner[m.ws]
                                                    /\ n.role = "OWNER"
    BY <2>1 DEF IInv, OwnerRemains, Row
  <2> QED
    BY <1>3, <2>2 DEF IInv, RowsDiffer
<1>5. m.id < nextId /\ \A n \in members : n.id = m.id => n = m
  BY DEF IInv, RowsDiffer
<1> HIDE DEF rec, pc
<1>6. ASSUME req'[r] = rec PROVE Sound(r)'
  <2>1. Spares(r)'
    BY <1>1, <1>2, <1>3, <1>4, <1>5, <1>6 DEF Spares
  <2> QED
    BY <1>2, <1>3, <1>6, <2>1, ManageStep DEF Aimed, Managing
<1> QED
  BY <1>1, <1>6, MoveSound

(* After the removal the same request revokes.                             *)
LEMMA DeleteSoundStep ==
  ASSUME IInv, Next, NEW r \in Requests, DeleteMember(r)
  PROVE  \A q \in Requests : Sound(q)'
<1>1. CASE Finish(r)
  BY <1>1, FinishStep
<1>2. CASE Goto(r, "revoke")
  <2> DEFINE rec == [req[r] EXCEPT !.pc = "revoke"]
  <2>1. req' = [req EXCEPT ![r] = rec]
    BY <1>2 DEF Goto
  <2>2. rec.pc = "revoke" /\ rec.ws = req[r].ws /\ rec.todo = req[r].todo
    BY DEF IInv, TypeOK, RequestRecords
  <2> HIDE DEF rec
  <2>3. ASSUME req'[r] = rec PROVE Sound(r)'
    BY <2>2, <2>3, ManageStep DEF DeleteMember, Aimed, Spares, Managing
  <2> QED
    BY <2>1, <2>3, MoveSound
<1> QED
  BY <1>1, <1>2 DEF DeleteMember

(* The invitation behind the link stood, or is about to expire.            *)
LEMMA LookupStep ==
  ASSUME IInv, Next, NEW r \in Requests, NEW i \in invitations, Lookup(r, i)
  PROVE  \A q \in Requests : Sound(q)'
<1> DEFINE pc == IF i.late THEN "expire" ELSE "join"
           rec == [req[r] EXCEPT !.pc = pc, !.todo = {i}]
<1>1. req' = [req EXCEPT ![r] = rec] /\ UNCHANGED <<invitations, owner>>
  BY DEF Lookup
<1>2. rec.pc = pc /\ rec.ws = req[r].ws /\ rec.user = req[r].user /\ rec.todo = {i}
  BY DEF IInv, TypeOK, RequestRecords
<1>3. CASE i.late
  <2>1. pc = "expire"
    BY <1>3
  <2> HIDE DEF rec, pc
  <2> QED
    BY <1>1, <1>2, <2>1, MoveSound, ElsewhereSound
<1>4. CASE ~i.late
  <2>1. pc = "join" /\ Standing(i) /\ i.user = req[r].user
    BY <1>4 DEF Lookup, Standing
  <2> HIDE DEF rec, pc
  <2>2. ASSUME req'[r] = rec PROVE Sound(r)'
    <3>1. <<i.ws, "invited">> \in Now(req[r].user)'
      BY <1>1, <1>2, <2>1, <2>2 DEF Now, Standing
    <3>2. <<i.ws, "invited">> \in seen'[r]
      BY <1>2, <2>1, <2>2, <3>1, Witnessed
    <3>3. owner'[rec.ws] # NoOne /\ owner'[i.ws] # NoOne
      BY <1>1, <1>2 DEF IInv, Sound, Founded
    <3> QED
      BY <1>2, <2>1, <2>2, <3>2, <3>3 DEF Sound, Aimed, Spares, Entitled, Managing
  <2> QED
    BY <1>1, <2>2, MoveSound
<1> QED
  BY <1>3, <1>4

-----------------------------------------------------------------------------
(* Every step of every request preserves the inductive invariant.          *)
LEMMA InvStep == IInv /\ [Next]_vars => IInv'
<1> SUFFICES ASSUME IInv, [Next]_vars PROVE IInv'
  OBVIOUS
<1>1. TypeOK'
  BY TypeStep DEF IInv, Sound
<1>2. RowsDiffer' /\ OwnerRemains'
  BY MembersStep
<1>3. Founded'
  <2>1. /\ FirstWorkspace \in Workspaces
        /\ \A i \in invitations' : i.ws \in Workspaces
    BY <1>1, AccessAssumption DEF TypeOK, InvitationRows
  <2> QED
    BY <2>1, MembersStep, InvitationsStep DEF Founded, RowsKept, IInv
<1>4. \A q \in Requests : Sound(q)'
  <2>1. CASE UNCHANGED req
    BY <2>1, WaitingStep
  <2>2. ASSUME Next, NEW r \in Requests, RequestStep(r) PROVE \A q \in Requests : Sound(q)'
    <3>1. CASE Finish(r)
      BY <3>1, FinishStep
    <3>2. CASE ~Finish(r)
      <4>1. ~AddMember(r) /\ ~AddInvitation(r) /\ ~MarkExpired(r) /\ ~Refused(r)
        BY <3>2 DEF AddMember, AddInvitation, MarkExpired, Refused
      <4>2. /\ ~ \E role \in InviteRoles : SetRole(r, role)
            /\ ~ \E u \in Users : Revoke(r, u)
        BY <3>2 DEF SetRole, Revoke
      <4>3. CASE Joined(r)
        BY <4>3, GotoStep DEF Joined
      <4> QED
        BY <2>2, <4>1, <4>2, <4>3, FindMembershipStep, FindInvitationsStep, JoinStep,
           FindPrimaryStep, CreateSoundStep, ReadRoleStep, FindUserStep, FindTargetStep,
           DeleteSoundStep, LookupStep
           DEF RequestStep
    <3> QED
      BY <3>1, <3>2
  <2> QED
    BY <2>1, <2>2, ArriveStep DEF Next, FallDue, Done, vars
<1> QED
  BY <1>1, <1>2, <1>3, <1>4 DEF IInv

(* The inductive invariant holds throughout.                               *)
THEOREM Invariance == Spec => []IInv
BY InitInv, InvStep, PTL DEF Spec

(* Every variable always has its type, for any users, workspaces, requests *)
(* and bounds.                                                             *)
THEOREM TypeCorrect == Spec => []TypeOK
<1>1. IInv => TypeOK
  BY DEF IInv
<1> QED
  BY <1>1, Invariance, PTL

(* No order of promotions and removals, each decided from an earlier read, *)
(* demotes or removes the owner of a workspace whose membership was not    *)
(* overwritten by an invitation (members/route.ts:197, :242).              *)
THEOREM OwnerStays == Spec => []OwnerRemains
<1>1. IInv => OwnerRemains
  BY DEF IInv
<1> QED
  BY <1>1, Invariance, PTL

-----------------------------------------------------------------------------
(* A row that is new or changed was granted.                               *)
LEMMA GrantStep ==
  ASSUME IInv, [Next]_vars, NEW w \in Workspaces, NEW u \in Users,
         NEW m \in Row(w, u)' \ Row(w, u)
  PROVE  (owner[w] = NoOne /\ owner'[w] = u) \/ Granted(w, u)
<1>0. m \in members' /\ m \notin members /\ m.ws = w /\ m.user = u
  BY DEF Row
<1>1. ASSUME NEW v \in Workspaces, NEW x \in Users, NEW role \in InviteRoles,
             Upsert(v, x, role), UNCHANGED owner, owner[v] # NoOne, Granted(v, x)
      PROVE  Granted(w, u)
  <2>1. Row(w, u)' # Row(w, u)
    OBVIOUS
  <2>2. w = v /\ u = x
    BY <1>1, <2>1, UpsertStep
  <2> QED
    BY <1>1, <2>2
<1>2. ASSUME NEW r \in Requests, CreateWorkspace(r) PROVE owner[w] = NoOne /\ owner'[w] = u
  BY <1>0, <1>2 DEF CreateWorkspace, IInv, TypeOK
<1>3. ASSUME NEW r \in Requests, NEW role \in InviteRoles, SetRole(r, role) PROVE Granted(w, u)
  <2>1. req[r].ws = w
    BY <1>0, <1>3, SetRoleStep
  <2>2. MayManage(r, req[r].ws)
    BY <1>3 DEF SetRole, IInv, Sound, Entitled, Managing
  <2> QED
    BY <2>1, <2>2 DEF Granted
<1>4. ASSUME NEW r \in Requests, DeleteMember(r) PROVE FALSE
  BY <1>0, <1>4, DeleteStep
<1> QED
  BY <1>0, <1>1, <1>2, <1>3, <1>4, Effects

(* Nobody becomes a member or gets another role but as the creator, by an  *)
(* invitation that stood during their request, or through somebody who     *)
(* managed the workspace during theirs (accept/route.ts:24-53).            *)
THEOREM OnlyGrantedAccess == Spec => AccessIsGranted
<1>1. IInv /\ [Next]_vars =>
        [\A w \in Workspaces, u \in Users :
           \A m \in Row(w, u)' \ Row(w, u) :
             \/ owner[w] = NoOne /\ owner'[w] = u
             \/ \E r \in Requests :
                  \/ req[r].user = u /\ <<w, "invited">> \in seen[r]
                  \/ req[r].ws = w /\ MayManage(r, w)]_vars
  BY GrantStep DEF Granted
<1> QED
  BY <1>1, Invariance, PTL DEF Spec, AccessIsGranted

(* A membership that is still there and was the oldest still is: others    *)
(* are newer, and rows never change their user.                            *)
LEMMA HomeStep ==
  ASSUME IInv, TypeOK', [Next]_vars, NEW u \in Users, Of(u) # {},
         NEW m \in members', m.id = Oldest(u).id
  PROVE  Oldest(u)'.id = Oldest(u).id
<1> DEFINE old == Oldest(u)
           new == Oldest(u)'
<1>1. old \in members /\ old.user = u /\ \A n \in members : n.user = u => old.id <= n.id
  BY OldestIs DEF IInv, Of
<1>2. old.id < nextId /\ nextId \in Nat /\ \A n \in members : n.id = old.id => n = old
  BY <1>1, AccessAssumption DEF IInv, RowsDiffer, TypeOK
<1>3. \A n \in members : n.id \in Nat
  BY DEF IInv, TypeOK, MemberRows
<1>4. \A n \in members' : n.id \in Nat /\ (n.id >= nextId \/
        \E l \in members : l.id = n.id /\ l.user = n.user)
  <2>1. \A n \in members' : n.id \in Nat
    BY DEF TypeOK, MemberRows
  <2> QED
    BY <2>1, MembersStep DEF RowsKept
<1>5. m.user = u
  BY <1>1, <1>2, <1>3, <1>4
<1>6. new \in members' /\ new.user = u /\ new.id <= m.id
  <2>1. Of(u)' \in SUBSET MemberRows /\ m \in Of(u)'
    BY <1>5 DEF Of, TypeOK
  <2>2. new \in Of(u)' /\ \A n \in Of(u)' : new.id <= n.id
    BY <2>1, OldestAmong DEF Oldest
  <2> QED
    BY <2>1, <2>2 DEF Of
<1> HIDE DEF old, new
<1> QED
  BY <1>1, <1>2, <1>3, <1>4, <1>6 DEF old, new

(* The workspace a user's requests act in changes only when that           *)
(* membership is removed (workspace.ts:57-95).                             *)
THEOREM HomesStay == Spec => HomeStable
<1>1. IInv /\ IInv' /\ [Next]_vars =>
        [\A u \in Users : Of(u) # {} =>
           \/ Oldest(u) \notin members' /\ ~ \E m \in members' : m.id = Oldest(u).id
           \/ Oldest(u)'.id = Oldest(u).id]_vars
  BY HomeStep DEF IInv
<1> QED
  BY <1>1, Invariance, PTL DEF Spec, HomeStable
=============================================================================
