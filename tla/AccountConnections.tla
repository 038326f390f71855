------------------------ MODULE AccountConnections ------------------------
(* The Instagram accounts of the workspaces and the three ways to connect    *)
(* one: Meta's OAuth callback (api/instagram/callback), a Composio           *)
(* credential (lib/composio/link-account.ts) and an import from the          *)
(* workspace's Zernio connection (api/zernio, lib/zernio), with the           *)
(* disconnection and the nightly refresh of Meta's tokens. One action is one *)
(* statement or remote call of one request. The requests are those that      *)
(* WorkspaceAccess lets through.                                             *)
EXTENDS ConnectedAccounts

CONSTANTS
  Workspaces,
  Keys,         \* Zernio API keys
  Profiles,     \* Zernio profiles, accessible with every key
  Requests,     \* requests under way at once
  MaxIds,       \* bound: rows, connections and remote webhooks ever made
  MaxRequests,  \* bound: requests ever made
  None

VARIABLES
  lock,         \* the requests that hold the row lock of each workspace
  nextId,
  made,         \* requests made so far
  req

vars == <<account, connection, remote, lock, nextId, made, req, collided>>

Providers == {"META", "COMPOSIO", "ZERNIO"}
\* cred tells what accessToken holds: who connected it, and how; profile is where
\* an import's zernioAccountId came from.
AccountRow(id, w, p, cred, profile) ==
  [id |-> id, ws |-> w, provider |-> p, cred |-> cred, profile |-> profile]
Idle == [pc |-> "idle", ws |-> None, ig |-> None, arg |-> None,
         row |-> NoRow, conn |-> NoConnection, hook |-> 0]

Init ==
  /\ account = [i \in Instagram |-> NoRow]
  /\ connection = [w \in Workspaces |-> NoConnection]
  /\ remote = {}
  /\ lock = [w \in Workspaces |-> {}]
  /\ nextId = 1
  /\ made = 0
  /\ req = [r \in Requests |-> Idle]
  /\ collided = {}

At(r, pc) == req[r].pc = pc
Goto(r, pc) == req' = [req EXCEPT ![r].pc = pc]
\* The end of a request, and of its transaction.
Finish(r) ==
  /\ req' = [req EXCEPT ![r] = Idle]
  /\ lock' = [w \in Workspaces |-> lock[w] \ {r}]
Fresh == nextId <= MaxIds /\ nextId' = nextId + 1
Imports(w) == {i \in Instagram: Exists(i) /\ account[i].ws = w /\ account[i].provider = "ZERNIO"}
Foreign(i, w, p) == Exists(i) /\ (account[i].ws # w \/ account[i].provider # p)

Data == <<account, connection, remote, nextId, made, collided>>
-----------------------------------------------------------------------------
\* A request of a manager of w begins.
Begin(r, w, pc, i, arg) ==
  /\ At(r, "idle") /\ made < MaxRequests
  /\ made' = made + 1
  /\ req' = [req EXCEPT ![r] = [Idle EXCEPT !.pc = pc, !.ws = w, !.ig = i, !.arg = arg]]
  /\ UNCHANGED <<account, connection, remote, lock, nextId, collided>>

\* callback: the exchange of the code for a token, then canConnectInstagramAccount.
CanConnect(r) ==
  /\ At(r, "callback")
  /\ IF Foreign(req[r].ig, req[r].ws, "META") THEN Finish(r)
       ELSE Goto(r, "existing") /\ UNCHANGED lock
  /\ UNCHANGED Data

FindExisting(r) ==
  /\ At(r, "existing")
  /\ req' = [req EXCEPT ![r].pc = "connect", ![r].row = account[req[r].ig]]
  /\ UNCHANGED <<Data, lock>>

\* A bug: the update looks for the id only.
SaveMetaById(r) ==
  /\ At(r, "connect")
  /\ LET i == req[r].ig  cred == Cred(req[r].ws, "META") IN
       IF req[r].row # NoRow
         THEN /\ account' = IF account[i].id = req[r].row.id
                              THEN [account EXCEPT ![i].cred = cred] ELSE account
              /\ UNCHANGED nextId
         ELSE /\ ~Exists(i) /\ Fresh
              /\ account' = [account EXCEPT ![i] = AccountRow(nextId, req[r].ws, "META", cred, None)]
  /\ Finish(r)
  /\ UNCHANGED <<connection, remote, made, collided>>

\* updateMany on the row that was found, if it is still this workspace's and
\* Meta's; else create, which the unique instagramId may refuse.
SaveMeta(r) ==
  /\ At(r, "connect")
  /\ LET i == req[r].ig  w == req[r].ws  cred == Cred(w, "META") IN
       IF req[r].row # NoRow
         THEN /\ account' = IF account[i].id = req[r].row.id /\ ~Foreign(i, w, "META")
                              THEN [account EXCEPT ![i].cred = cred] ELSE account
              /\ UNCHANGED nextId
         ELSE IF Exists(i) THEN UNCHANGED <<account, nextId>>
         ELSE Fresh /\ account' = [account EXCEPT ![i] = AccountRow(nextId, w, "META", cred, None)]
  /\ Finish(r)
  /\ UNCHANGED <<connection, remote, made, collided>>

\* saveComposioAccount: a check, and an upsert that does not check again.
FindComposio(r) ==
  /\ At(r, "composio")
  /\ IF Foreign(req[r].ig, req[r].ws, "COMPOSIO") THEN Finish(r)
       ELSE Goto(r, "upsert") /\ UNCHANGED lock
  /\ UNCHANGED Data

SaveComposio(r) ==
  /\ At(r, "upsert")
  /\ LET i == req[r].ig  w == req[r].ws  cred == Cred(w, "COMPOSIO") IN
       IF Exists(i)
         THEN /\ account' = [account EXCEPT ![i].cred = cred]
              /\ collided' = IF Foreign(i, w, "COMPOSIO") THEN collided \cup {i} ELSE collided
              /\ UNCHANGED nextId
         ELSE /\ Fresh
              /\ account' = [account EXCEPT ![i] = AccountRow(nextId, w, "COMPOSIO", cred, None)]
              /\ UNCHANGED collided
  /\ Finish(r)
  /\ UNCHANGED <<connection, remote, made>>

\* disconnect: one statement for one account, or for all of the workspace.
Disconnect(r, chosen) ==
  /\ At(r, "disconnect")
  /\ account' = [i \in Instagram |->
       IF i \in chosen /\ Exists(i) /\ account[i].ws = req[r].ws THEN NoRow ELSE account[i]]
  /\ collided' = {i \in collided: account'[i] # NoRow}
  /\ Finish(r)
  /\ UNCHANGED <<connection, remote, nextId, made>>

\* refresh-tokens: the account as listed, the remote refresh, the update by id.
ListToRefresh(r, i) ==
  /\ At(r, "refresh")
  /\ Exists(i) /\ account[i].provider = "META"
  /\ req' = [req EXCEPT ![r].pc = "refreshed", ![r].ig = i, ![r].row = account[i]]
  /\ UNCHANGED <<Data, lock>>

SaveRefreshed(r) ==
  /\ At(r, "refreshed")
  /\ LET i == req[r].ig IN
       account' = IF Exists(i) /\ account[i].id = req[r].row.id
                    THEN [account EXCEPT ![i].cred = req[r].row.cred] ELSE account
  /\ Finish(r)
  /\ UNCHANGED <<connection, remote, nextId, made, collided>>
-----------------------------------------------------------------------------
\* The Zernio connection. Its transactions hold the lock of the workspace's row
\* from their first statement to their end, remote calls included.
Own(r) == connection[req[r].ws]
Take(r) ==
  /\ lock[req[r].ws] = {}
  /\ lock' = [lock EXCEPT ![req[r].ws] = {r}]

\* POST settings: a new connection has a fresh webhook secret.
SaveKey(r) ==
  /\ At(r, "key") /\ lock[req[r].ws] = {}
  /\ IF Own(r) # NoConnection THEN UNCHANGED <<connection, nextId>>
       ELSE /\ Fresh
            /\ connection' = [connection EXCEPT ![req[r].ws] =
                 [born |-> nextId, key |-> req[r].arg, profile |-> None, hook |-> 0]]
  /\ Finish(r)
  /\ UNCHANGED <<account, remote, made, collided>>

\* PUT settings: not while accounts of another profile are connected.
LockForProfile(r) ==
  /\ At(r, "profile") /\ Take(r)
  /\ Own(r) # NoConnection
  /\ ~(Own(r).profile \notin {None, req[r].arg} /\ Imports(req[r].ws) # {})
  /\ req' = [req EXCEPT ![r].pc = "ensure", ![r].conn = Own(r)]
  /\ UNCHANGED Data

Ours(r) == {h \in remote: h.key = req[r].conn.key /\ h.ws = req[r].ws}
\* A bug: the webhook is looked up by its id only.
EnsureWebhookById(r) ==
  /\ At(r, "ensure")
  /\ LET found == {h \in Ours(r): h.id = req[r].conn.hook} IN
       \/ /\ found # {}
          /\ req' = [req EXCEPT ![r].pc = "settle", ![r].hook = req[r].conn.hook]
          /\ UNCHANGED <<lock, nextId, remote>>
       \/ /\ found = {} /\ Fresh
          /\ remote' = remote \cup {[id |-> nextId, key |-> req[r].conn.key,
                                     ws |-> req[r].ws, secret |-> req[r].conn.born]}
          /\ \/ req' = [req EXCEPT ![r].pc = "settle", ![r].hook = nextId] /\ UNCHANGED lock
             \/ Finish(r)
  /\ UNCHANGED <<account, connection, made, collided>>

\* ensureWebhook: found by its id, else by its URL, and updated; else created. The
\* answer may be lost, which ends the transaction and leaves the webhook.
EnsureWebhook(r) ==
  /\ At(r, "ensure")
  /\ LET found == IF \E h \in Ours(r): h.id = req[r].conn.hook
                    THEN {h \in Ours(r): h.id = req[r].conn.hook} ELSE Ours(r)
     IN \/ \E h \in found:
             /\ remote' = (remote \ {h}) \cup {[h EXCEPT !.secret = req[r].conn.born]}
             /\ \/ req' = [req EXCEPT ![r].pc = "settle", ![r].hook = h.id] /\ UNCHANGED lock
                \/ Finish(r)
             /\ UNCHANGED nextId
        \/ /\ found = {} /\ Fresh
           /\ remote' = remote \cup {[id |-> nextId, key |-> req[r].conn.key,
                                      ws |-> req[r].ws, secret |-> req[r].conn.born]}
           /\ \/ req' = [req EXCEPT ![r].pc = "settle", ![r].hook = nextId] /\ UNCHANGED lock
              \/ Finish(r)
  /\ UNCHANGED <<account, connection, made, collided>>

SettleProfile(r) ==
  /\ At(r, "settle")
  /\ connection' = [connection EXCEPT ![req[r].ws].profile = req[r].arg,
                                      ![req[r].ws].hook = req[r].hook]
  /\ Finish(r)
  /\ UNCHANGED <<account, remote, nextId, made, collided>>

\* DELETE settings: not while accounts are connected.
LockForRemoval(r) ==
  /\ At(r, "remove") /\ Take(r)
  /\ Own(r) # NoConnection /\ Imports(req[r].ws) = {}
  /\ req' = [req EXCEPT ![r].pc = "unhook", ![r].conn = Own(r)]
  /\ UNCHANGED Data

\* Only the webhook with the stored id is removed; the answer may be lost.
Unhook(r) ==
  /\ At(r, "unhook")
  /\ remote' = {h \in remote: h \notin Ours(r) \/ h.id # req[r].conn.hook}
  /\ \/ Goto(r, "drop") /\ UNCHANGED lock
     \/ remote' # remote /\ Finish(r)
  /\ UNCHANGED <<account, connection, nextId, made, collided>>

DropConnection(r) ==
  /\ At(r, "drop")
  /\ connection' = [connection EXCEPT ![req[r].ws] = NoConnection]
  /\ Finish(r)
  /\ UNCHANGED <<account, remote, nextId, made, collided>>

\* POST accounts: the connection is read, Zernio lists the profile's accounts, ...
LoadConnection(r) ==
  /\ At(r, "import")
  /\ Own(r) # NoConnection /\ Own(r).profile # None /\ Own(r).hook # 0
  /\ req' = [req EXCEPT ![r].pc = "listed", ![r].conn = Own(r)]
  /\ UNCHANGED <<Data, lock>>

\* A bug: the connection that was read before the lock is trusted.
LockForImportTrusting(r) ==
  /\ At(r, "listed") /\ Take(r)
  /\ ~Foreign(req[r].ig, req[r].ws, "ZERNIO")
  /\ req' = [req EXCEPT ![r].pc = "imported", ![r].row = account[req[r].ig]]
  /\ UNCHANGED Data

\* ... and under the lock the connection has to be the same, and the account free.
LockForImport(r) ==
  /\ At(r, "listed") /\ Take(r)
  /\ Own(r) # NoConnection
  /\ Own(r).profile = req[r].conn.profile /\ Own(r).hook = req[r].conn.hook
  /\ Own(r).key = req[r].conn.key
  /\ ~Foreign(req[r].ig, req[r].ws, "ZERNIO")
  /\ req' = [req EXCEPT ![r].pc = "imported", ![r].row = account[req[r].ig]]
  /\ UNCHANGED Data

SaveImport(r) ==
  /\ At(r, "imported")
  /\ LET i == req[r].ig  w == req[r].ws  profile == req[r].conn.profile IN
       IF req[r].row # NoRow
         THEN /\ account' = IF account[i].id = req[r].row.id /\ ~Foreign(i, w, "ZERNIO")
                              THEN [account EXCEPT ![i].profile = profile] ELSE account
              /\ UNCHANGED nextId
         ELSE IF Exists(i) THEN UNCHANGED <<account, nextId>>
         ELSE Fresh /\ account' = [account EXCEPT ![i] =
                         AccountRow(nextId, w, "ZERNIO", None, profile)]
  /\ Finish(r)
  /\ UNCHANGED <<connection, remote, made, collided>>

\* A check refuses, a statement or remote call fails, or the process dies: the
\* transaction is rolled back and its lock is free.
Refused(r) ==
  /\ ~At(r, "idle")
  /\ Finish(r)
  /\ UNCHANGED Data
-----------------------------------------------------------------------------
Arrive(r) ==
  \E w \in Workspaces:
    \/ \E i \in Instagram, pc \in {"callback", "composio", "import"}: Begin(r, w, pc, i, None)
    \/ \E pc \in {"disconnect", "refresh", "remove"}: Begin(r, w, pc, None, None)
    \/ \E k \in Keys: Begin(r, w, "key", None, k)
    \/ \E p \in Profiles: Begin(r, w, "profile", None, p)

RequestStep(r) ==
  \/ CanConnect(r) \/ FindExisting(r) \/ SaveMeta(r)
  \/ FindComposio(r) \/ SaveComposio(r)
  \/ \E i \in Instagram: Disconnect(r, {i}) \/ ListToRefresh(r, i)
  \/ Disconnect(r, Instagram) \/ SaveRefreshed(r)
  \/ SaveKey(r) \/ LockForProfile(r) \/ EnsureWebhook(r) \/ SettleProfile(r)
  \/ LockForRemoval(r) \/ Unhook(r) \/ DropConnection(r)
  \/ LoadConnection(r) \/ LockForImport(r) \/ SaveImport(r)
  \/ Refused(r)

Done ==
  /\ made = MaxRequests /\ \A r \in Requests: At(r, "idle")
  /\ UNCHANGED vars

Next == (\E r \in Requests: Arrive(r) \/ RequestStep(r)) \/ Done

Spec == Init /\ [][Next]_vars
-----------------------------------------------------------------------------
Steps ==
  {"idle", "callback", "existing", "connect", "composio", "upsert", "disconnect",
   "refresh", "refreshed", "key", "profile", "ensure", "settle", "remove", "unhook",
   "drop", "import", "listed", "imported"}

Rows ==
  [id : Nat \ {0}, ws : Workspaces, provider : Providers,
   cred : [ws : Workspaces, kind : {"META", "COMPOSIO"}] \cup {None},
   profile : Profiles \cup {None}]

ConnectionRows ==
  [born : Nat \ {0}, key : Keys, profile : Profiles \cup {None}, hook : Nat]

RequestRecords ==
  [pc : Steps, ws : Workspaces \cup {None}, ig : Instagram \cup {None},
   arg : Keys \cup Profiles \cup {None}, row : Rows \cup {NoRow},
   conn : ConnectionRows \cup {NoConnection}, hook : Nat]

TypeOK ==
  /\ account \in [Instagram -> Rows \cup {NoRow}]
  /\ connection \in [Workspaces -> ConnectionRows \cup {NoConnection}]
  /\ remote \subseteq [id : Nat \ {0}, key : Keys, ws : Workspaces, secret : Nat \ {0}]
  /\ lock \in [Workspaces -> SUBSET Requests]
  /\ nextId \in Nat \ {0} /\ made \in Nat
  /\ req \in [Requests -> RequestRecords]
  /\ collided \subseteq Instagram
=============================================================================
