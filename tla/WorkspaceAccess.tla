------------------------- MODULE WorkspaceAccess -------------------------
(* Who belongs to which workspace, and in which role: first login           *)
(* (lib/workspace.ts), the context every API route starts from               *)
(* (lib/workspace-access.ts), the routes that invite, promote, remove and    *)
(* revoke (api/workspace/members) and the acceptance of an invitation        *)
(* (api/workspace/invitations/accept). Each action is one database           *)
(* statement or transaction of one request; requests interleave.             *)
EXTENDS Naturals, FiniteSets

CONSTANTS
  Users,         \* people; a user stands for the normalised email address too
  Workspaces,    \* the workspaces that may come to exist
  Founder,       \* the user who has the first workspace at the start
  FirstWorkspace,
  Requests,      \* requests under way at once
  MaxRows,       \* bound: memberships ever created
  MaxRequests,   \* bound: requests ever made
  NoOne          \* no owner, no target

ASSUME AccessAssumption ==
  /\ Founder \in Users /\ FirstWorkspace \in Workspaces
  /\ MaxRows \in Nat \ {0} /\ MaxRequests \in Nat /\ NoOne \notin Users

VARIABLES
  registered,    \* users with a row in User
  owner,         \* Workspace.ownerId, NoOne before the workspace exists
  members,       \* WorkspaceMember rows; ids grow with createdAt
  nextId,
  invitations,   \* WorkspaceInvitation rows, one per workspace and email
  made,          \* requests made so far
  req,           \* the request in each slot
  seen,          \* history: what held at some time during the request
  reinvited      \* history: owners' memberships that an invitation overwrote

vars == <<registered, owner, members, nextId, invitations, made, req, seen, reinvited>>

Roles == {"MEMBER", "ADMIN", "OWNER"}
InviteRoles == {"MEMBER", "ADMIN"}
MemberRows == [id: 1..MaxRows, ws: Workspaces, user: Users, role: Roles]
InvitationRows == [ws: Workspaces, user: Users, role: InviteRoles,
                   status: {"PENDING", "ACCEPTED", "EXPIRED", "REVOKED"}, late: BOOLEAN]
Operations == {"visit", "invite", "promote", "remove", "revoke", "accept"}
Steps == {"idle", "context", "pending", "join", "primary", "create", "role",
          "invite", "addMember", "addInvitation", "promote", "setRole",
          "remove", "delete", "revoke", "accept", "expire"}

Idle == [pc |-> "idle", op |-> "visit", user |-> Founder, ws |-> FirstWorkspace,
         role |-> "MEMBER", row |-> 0, target |-> NoOne, todo |-> {}]

Init ==
  /\ registered = {Founder}
  /\ owner = [w \in Workspaces |-> IF w = FirstWorkspace THEN Founder ELSE NoOne]
  /\ members = {[id |-> 1, ws |-> FirstWorkspace, user |-> Founder, role |-> "OWNER"]}
  /\ nextId = 2
  /\ invitations = {}
  /\ made = 0
  /\ req = [r \in Requests |-> Idle]
  /\ seen = [r \in Requests |-> {}]
  /\ reinvited = {}

CanManage(role) == role \in {"ADMIN", "OWNER"}
Of(u) == {m \in members: m.user = u}
Row(w, u) == {m \in members: m.ws = w /\ m.user = u}
\* A bug: memberships read newest first
NewestOf(u) == CHOOSE m \in Of(u): \A n \in Of(u): m.id >= n.id

\* findFirst with orderBy createdAt asc
Oldest(u) == CHOOSE m \in Of(u): \A n \in Of(u): m.id <= n.id
Standing(i) == i.status = "PENDING" /\ ~i.late
\* What a request may find: the roles its user has and the invitations that stand.
Now(u) == {<<m.ws, m.role>>: m \in {n \in members: n.user = u}}
            \cup {<<i.ws, "invited">>: i \in {j \in invitations: j.user = u /\ Standing(j)}}

Goto(r, step) == req' = [req EXCEPT ![r].pc = step]
Finish(r) == req' = [req EXCEPT ![r] = Idle]
\* The request goes on with role in ws if that may manage it, else it ends with 403.
Enter(r, w, role) ==
  IF req[r].op # "visit" /\ CanManage(role)
    THEN req' = [req EXCEPT ![r].pc = req[r].op, ![r].op = "visit", ![r].ws = w, ![r].role = role]
    ELSE Finish(r)
Upsert(w, u, role) ==
  /\ reinvited' = reinvited \cup (IF owner[w] = u THEN {w} ELSE {})
  /\ IF Row(w, u) # {}
       THEN /\ members' = (members \ Row(w, u)) \cup {[m EXCEPT !.role = role]: m \in Row(w, u)}
            /\ UNCHANGED nextId
       ELSE /\ nextId <= MaxRows
            /\ members' = members \cup {[id |-> nextId, ws |-> w, user |-> u, role |-> role]}
            /\ nextId' = nextId + 1
Mark(w, u, status) ==
  invitations' = {IF i.ws = w /\ i.user = u THEN [i EXCEPT !.status = status] ELSE i:
                    i \in invitations}

-----------------------------------------------------------------------------
\* The createUser event: a first sign-in makes the user and a workspace for them.
SignUp(r, u) ==
  /\ req[r].pc = "idle" /\ u \notin registered
  /\ made < MaxRequests
  /\ made' = made + 1
  /\ registered' = registered \cup {u}
  /\ req' = [req EXCEPT ![r] = [Idle EXCEPT !.user = u, !.pc = "pending"]]
  /\ UNCHANGED <<owner, members, nextId, invitations, reinvited>>

\* A page of the dashboard, a route that needs the context, or the acceptance.
Start(r, u, op) ==
  /\ req[r].pc = "idle" /\ u \in registered
  /\ made < MaxRequests
  /\ made' = made + 1
  /\ req' = [req EXCEPT ![r] = [Idle EXCEPT !.user = u, !.op = op,
               !.pc = CASE op = "visit" -> "pending" [] op = "accept" -> "accept"
                        [] OTHER -> "context"]]
  /\ UNCHANGED <<registered, owner, members, nextId, invitations, reinvited>>

\* getCurrentWorkspaceContext: the oldest membership, with its role of that moment.
FindMembership(r) ==
  /\ req[r].pc = "context"
  /\ IF Of(req[r].user) # {}
       THEN LET m == Oldest(req[r].user) IN Enter(r, m.ws, m.role)
       ELSE Goto(r, "pending")
  /\ UNCHANGED <<registered, owner, members, nextId, invitations, reinvited>>

\* acceptPendingInvitationsForUser: the invitations are read once ...
FindInvitations(r) ==
  /\ req[r].pc = "pending"
  /\ req' = [req EXCEPT ![r].pc = "join",
               ![r].todo = {i \in invitations: i.user = req[r].user /\ Standing(i)}]
  /\ UNCHANGED <<registered, owner, members, nextId, invitations, reinvited>>

\* ... and accepted one transaction after the other, as they were read. The route
\* that accepts ends in the same transaction.
Join(r) ==
  /\ req[r].pc = "join"
  /\ \E i \in req[r].todo:
       /\ Upsert(i.ws, req[r].user, i.role)
       /\ Mark(i.ws, i.user, "ACCEPTED")
       /\ IF req[r].op = "accept" THEN Finish(r)
            ELSE req' = [req EXCEPT ![r].todo = @ \ {i}]
  /\ UNCHANGED <<registered, owner>>

Joined(r) ==
  /\ req[r].pc = "join" /\ req[r].todo = {}
  /\ Goto(r, "primary")
  /\ UNCHANGED <<registered, owner, members, nextId, invitations, reinvited>>

\* getWorkspaceMembership inside ensureWorkspaceForUser
FindPrimary(r) ==
  /\ req[r].pc = "primary"
  /\ req' = [req EXCEPT ![r].pc = IF Of(req[r].user) = {} THEN "create" ELSE "role",
               ![r].ws = IF Of(req[r].user) = {} THEN @ ELSE Oldest(req[r].user).ws]
  /\ UNCHANGED <<registered, owner, members, nextId, invitations, reinvited>>

CreateWorkspace(r) ==
  /\ req[r].pc = "create" /\ nextId <= MaxRows
  /\ \E w \in Workspaces:
       /\ owner[w] = NoOne
       /\ owner' = [owner EXCEPT ![w] = req[r].user]
       /\ members' = members \cup {[id |-> nextId, ws |-> w, user |-> req[r].user, role |-> "OWNER"]}
       /\ nextId' = nextId + 1
       /\ req' = [req EXCEPT ![r].pc = "role", ![r].ws = w]
  /\ UNCHANGED <<registered, invitations, reinvited>>

\* createdMembership?.role ?? "OWNER"
ReadRole(r) ==
  /\ req[r].pc = "role"
  /\ LET rows == Row(req[r].ws, req[r].user)
     IN Enter(r, req[r].ws, IF rows = {} THEN "OWNER" ELSE (CHOOSE m \in rows: TRUE).role)
  /\ UNCHANGED <<registered, owner, members, nextId, invitations, reinvited>>

\* POST: whoever has an account becomes a member at once, others get an invitation.
FindUser(r, u, role) ==
  /\ req[r].pc = "invite"
  /\ req' = [req EXCEPT ![r].pc = IF u \in registered THEN "addMember" ELSE "addInvitation",
               ![r].target = u, ![r].role = role]
  /\ UNCHANGED <<registered, owner, members, nextId, invitations, reinvited>>

AddMember(r) ==
  /\ req[r].pc = "addMember"
  /\ Upsert(req[r].ws, req[r].target, req[r].role)
  /\ Finish(r)
  /\ UNCHANGED <<registered, owner, invitations>>

AddInvitation(r) ==
  /\ req[r].pc = "addInvitation"
  /\ invitations' = {i \in invitations: i.ws # req[r].ws \/ i.user # req[r].target}
       \cup {[ws |-> req[r].ws, user |-> req[r].target, role |-> req[r].role,
              status |-> "PENDING", late |-> FALSE]}
  /\ Finish(r)
  /\ UNCHANGED <<registered, owner, members, nextId, reinvited>>

\* A bug: the PATCH without its check of the row's role
FindTargetAny(r, m) ==
  /\ \/ req[r].pc = "promote"
     \/ req[r].pc = "remove" /\ m.user # req[r].user
  /\ m.ws = req[r].ws
  /\ req' = [req EXCEPT ![r].row = m.id,
               ![r].pc = IF req[r].pc = "promote" THEN "setRole" ELSE "delete"]
  /\ UNCHANGED <<registered, owner, members, nextId, invitations, reinvited>>

\* PATCH and DELETE first read the row, and leave an owner's alone.
FindTarget(r, m) ==
  /\ \/ req[r].pc = "promote"
     \/ req[r].pc = "remove" /\ m.user # req[r].user
  /\ m.ws = req[r].ws /\ m.role # "OWNER"
  /\ req' = [req EXCEPT ![r].row = m.id,
               ![r].pc = IF req[r].pc = "promote" THEN "setRole" ELSE "delete"]
  /\ UNCHANGED <<registered, owner, members, nextId, invitations, reinvited>>

\* update by id: a row that is gone makes it throw.
SetRole(r, role) ==
  /\ req[r].pc = "setRole"
  /\ members' = {IF m.id = req[r].row THEN [m EXCEPT !.role = role] ELSE m: m \in members}
  /\ Finish(r)
  /\ UNCHANGED <<registered, owner, nextId, invitations, reinvited>>

DeleteMember(r) ==
  /\ req[r].pc = "delete"
  /\ members' = {m \in members: m.id # req[r].row}
  /\ \/ Finish(r)
     \/ members' # members /\ Goto(r, "revoke")
  /\ UNCHANGED <<registered, owner, nextId, invitations, reinvited>>

Revoke(r, u) ==
  /\ req[r].pc = "revoke"
  /\ invitations' = {IF i.ws = req[r].ws /\ i.user = u /\ i.status = "PENDING"
                       THEN [i EXCEPT !.status = "REVOKED"] ELSE i: i \in invitations}
  /\ Finish(r)
  /\ UNCHANGED <<registered, owner, members, nextId, reinvited>>

\* A bug: acceptance without the check of the status
LookupAnyStatus(r, i) ==
  /\ req[r].pc = "accept"
  /\ i.late \/ i.user = req[r].user
  /\ req' = [req EXCEPT ![r].pc = IF i.late THEN "expire" ELSE "join", ![r].todo = {i}]
  /\ UNCHANGED <<registered, owner, members, nextId, invitations, reinvited>>

\* POST accept: the invitation behind the link, its status, its date, its address.
Lookup(r, i) ==
  /\ req[r].pc = "accept"
  /\ i.status = "PENDING" /\ (i.late \/ i.user = req[r].user)
  /\ req' = [req EXCEPT ![r].pc = IF i.late THEN "expire" ELSE "join", ![r].todo = {i}]
  /\ UNCHANGED <<registered, owner, members, nextId, invitations, reinvited>>

\* The update to EXPIRED does not look at the status again.
MarkExpired(r) ==
  /\ req[r].pc = "expire"
  /\ \E i \in req[r].todo: Mark(i.ws, i.user, "EXPIRED")
  /\ Finish(r)
  /\ UNCHANGED <<registered, owner, members, nextId, reinvited>>

\* The request is refused (400, 404, 409), fails at a statement, or its process dies.
Refused(r) ==
  /\ req[r].pc # "idle"
  /\ Finish(r)
  /\ UNCHANGED <<registered, owner, members, nextId, invitations, reinvited>>

\* Fourteen days have passed since the invitation was last written.
FallDue(i) ==
  /\ Standing(i)
  /\ invitations' = (invitations \ {i}) \cup {[i EXCEPT !.late = TRUE]}
  /\ UNCHANGED <<registered, owner, members, nextId, req, reinvited>>

Arrive(r) ==
  \/ \E u \in Users: SignUp(r, u)
  \/ \E u \in Users, op \in Operations: Start(r, u, op)

RequestStep(r) ==
  \/ FindMembership(r) \/ FindInvitations(r) \/ Join(r) \/ Joined(r)
  \/ FindPrimary(r) \/ CreateWorkspace(r) \/ ReadRole(r)
  \/ \E u \in Users, role \in InviteRoles: FindUser(r, u, role)
  \/ AddMember(r) \/ AddInvitation(r)
  \/ \E m \in members: FindTarget(r, m)
  \/ \E role \in InviteRoles: SetRole(r, role)
  \/ DeleteMember(r)
  \/ \E u \in Users: Revoke(r, u)
  \/ \E i \in invitations: Lookup(r, i)
  \/ MarkExpired(r) \/ Refused(r)

Done ==
  /\ made = MaxRequests /\ \A r \in Requests: req[r].pc = "idle"
  /\ UNCHANGED <<registered, owner, members, nextId, invitations, made, req, reinvited>>

\* The history follows every request from its start to its end.
Lost(r) ==
  IF req[r].pc = "idle" THEN {}
  ELSE {<<w, "removed">>: w \in {v \in Workspaces:
          Row(v, req[r].user) # {} /\ Row(v, req[r].user)' = {}}}
Watch ==
  seen' = [r \in Requests |->
             IF req'[r].pc = "idle" THEN {}
             ELSE seen[r] \cup Now(req[r].user)' \cup Lost(r)]

Next ==
  /\ \/ \E r \in Requests: Arrive(r)
     \/ (\E r \in Requests: RequestStep(r)) /\ UNCHANGED made
     \/ (\E i \in invitations: FallDue(i)) /\ UNCHANGED made
     \/ Done
  /\ Watch

Spec == Init /\ [][Next]_vars
-----------------------------------------------------------------------------
RequestRecords ==
  [pc: Steps, op: Operations, user: Users, ws: Workspaces, role: Roles,
   row: 0..MaxRows, target: Users \cup {NoOne}, todo: SUBSET InvitationRows]

\* Every variable has its type.
TypeOK ==
  /\ registered \subseteq Users
  /\ owner \in [Workspaces -> Users \cup {NoOne}]
  /\ members \subseteq MemberRows
  /\ nextId \in 1..(MaxRows + 1)
  /\ invitations \subseteq InvitationRows
  /\ made \in 0..MaxRequests
  /\ req \in [Requests -> RequestRecords]
  /\ reinvited \subseteq Workspaces

\* A workspace whose owner's membership was never overwritten by an invitation
\* has its owner as a member, as OWNER: no order of promotions and removals by
\* admins, each decided from an earlier read, gets at that row (members/route.ts:197, :242).
OwnerRemains ==
  \A w \in Workspaces:
    owner[w] # NoOne /\ w \notin reinvited => \E m \in Row(w, owner[w]): m.role = "OWNER"

\* The roles a request's user had in w at some time during it; somebody who is removed
\* while their first context is made goes on as its OWNER (workspace-access.ts:71).
MayManage(r, w) == \E role \in {"ADMIN", "OWNER", "removed"}: <<w, role>> \in seen[r]

\* Nobody becomes a member, or gets another role, except as the creator of the
\* workspace, by an invitation that stood at some time during their request, or by
\* a request of somebody who managed that workspace during it: what was revoked or
\* expired before a request began admits nobody (accept/route.ts:24-53).
AccessIsGranted ==
  [][\A w \in Workspaces, u \in Users:
       \A m \in Row(w, u)' \ Row(w, u):
         \/ owner[w] = NoOne /\ owner'[w] = u
         \/ \E r \in Requests:
              \/ req[r].user = u /\ <<w, "invited">> \in seen[r]
              \/ req[r].ws = w /\ MayManage(r, w)]_vars

\* Whoever belongs to a workspace stays in it: the workspace a user's requests act
\* in changes only when that membership is removed, whatever invitations are accepted
\* and however many workspaces concurrent first requests create (workspace.ts:57-95).
HomeStable ==
  [][\A u \in Users: Of(u) # {} =>
       \/ Oldest(u) \notin members'
            /\ ~ \E m \in members': m.id = Oldest(u).id
       \/ Oldest(u)'.id = Oldest(u).id]_vars
=============================================================================
