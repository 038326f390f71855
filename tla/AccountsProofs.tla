---------------------------- MODULE AccountsProofs ----------------------------
(***************************************************************************)
(* Machine-checked proofs about the Instagram accounts of the workspaces:  *)
(* their connections, their follower totals, the insights of their posts   *)
(* and the reading of their conversations.                                 *)
(*                                                                         *)
(* AccountConnections, for any accounts, workspaces, keys, profiles and    *)
(* concurrent requests, each of which may fail at any statement or remote  *)
(* call: every account is backed by its own workspace's credential or      *)
(* connection, and webhooks verify.  The invariant says of every request   *)
(* under way what the rows it read still mean when it writes: under the    *)
(* lock of its workspace they are the rows, without the lock an id says    *)
(* whether they are.                                                       *)
(*                                                                         *)
(* FollowerHistory, for any number of days, followers and runs: what is    *)
(* derived is true and replaces nothing observed, but for one day.  All    *)
(* runs that go on to derive found the same observed row and no other      *)
(* (SameRow), and it stays observed, because each of them leaves it out.   *)
(*                                                                         *)
(* Overview, for any library, page size and number of workers: the cursor  *)
(* parts the posts into those asked for once, which stand at their places  *)
(* or are some worker's, and those not asked for (Parted).                 *)
(*                                                                         *)
(* ConversationPaging, for any list, whichever of its conversations cannot *)
(* be read, any limits and any moves: the reading is complete.  What has   *)
(* not moved has been read or is after the cursor (Unmoved), and a         *)
(* conversation read without its details is one that made its page fail    *)
(* (Isolated).                                                             *)
(*                                                                         *)
(* Inbox, for any accounts and conversations: while the user stays, late   *)
(* answers painted over the choice run out (LateLists, LatePanes).         *)
(***************************************************************************)
EXTENDS AccountConnections, FollowerRows, PostInsights, ConversationList,
        FiniteSetTheorems, WellFoundedInduction, NaturalsInduction, TLAPS

CONSTANTS
  Accounts, Threads, Home                    \* of the inbox

VARIABLES
  provider, today, total, ends, runs,        \* of the follower history
  cursor, working, available, denied,        \* of the overview
  order, after, pages, pageSize, limit,      \* of the list of conversations
  selected, list, guard, listing,            \* of the inbox: its list,
  open, pane, loading, sending               \* its pane and its composer

Followers == INSTANCE FollowerHistory
Pool == INSTANCE Overview
Paging == INSTANCE ConversationPaging
Mailbox == INSTANCE Inbox

-----------------------------------------------------------------------------
(* AccountConnections.                                                     *)

(* The steps of a request that acts on one Instagram account.              *)
Aiming == {"callback", "existing", "connect", "composio", "upsert", "refreshed",
           "import", "listed", "imported"}

(* The steps under the lock of the workspace's row,                        *)
Holding == {"ensure", "settle", "unhook", "drop", "imported"}

(* and those of the settings, which act on the connection itself.          *)
Managing == {"ensure", "settle", "unhook", "drop"}

(* A request is about something of the kind its step acts on.              *)
Aimed(q) ==
  /\ q.pc # "idle" => q.ws \in Workspaces
  /\ q.pc \in Aiming => q.ig \in Instagram
  /\ q.pc \in {"profile", "ensure", "settle"} => q.arg \in Profiles
  /\ q.pc = "key" => q.arg \in Keys

(* Under the lock the connection is the one that was read: all of it, or   *)
(* for an import its profile.                                              *)
Connected(r, q) ==
  /\ q.pc \in {"listed", "imported"} => q.conn # NoConnection /\ q.conn.profile # None
  /\ q.pc \in Holding => lock[q.ws] = {r} /\ connection[q.ws] # NoConnection
  /\ q.pc \in Managing => q.conn = connection[q.ws]
  /\ q.pc = "imported" => q.conn.profile = connection[q.ws].profile

(* A profile is changed, and a connection dropped, only while nothing      *)
(* imported needs the old one; the webhook about to be noted has the       *)
(* secret.                                                                 *)
Cleared(q) ==
  /\ q.pc \in {"ensure", "settle"} => Imports(q.ws) = {} \/ q.conn.profile = q.arg
  /\ q.pc \in {"unhook", "drop"} => Imports(q.ws) = {}
  /\ q.pc = "settle" =>
       \A h \in remote : h.id = q.hook /\ h.ws = q.ws => h.secret = q.conn.born

(* A token is refreshed for the row it was listed with: as long as the id  *)
(* is the same, the workspace and the provider are.                        *)
Refreshing(q) ==
  q.pc = "refreshed" =>
    /\ q.row # NoRow /\ q.row.provider = "META" /\ q.row.id < nextId
    /\ account[q.ig].id = q.row.id =>
         /\ account[q.ig].ws = q.row.ws /\ account[q.ig].provider = "META"
         /\ q.ig \notin collided => q.row.cred = Cred(q.row.ws, "META")

(* What request r knows with the record q.                                 *)
Knows(r, q) == Aimed(q) /\ Connected(r, q) /\ Cleared(q) /\ Refreshing(q)

(* Ids grow, name one webhook each, and an import has a profile.           *)
Numbered ==
  /\ \A i \in Instagram : account[i].id < nextId
  /\ \A h \in remote : h.id < nextId
  /\ \A g, h \in remote : g.id = h.id => g = h
  /\ \A i \in Instagram :
       Exists(i) /\ account[i].provider = "ZERNIO" => account[i].profile # None

(* All of it, with the properties themselves.                              *)
IInv ==
  /\ TypeOK /\ AccountsAreBacked /\ WebhookVerifies /\ Numbered
  /\ \A r \in Requests : Knows(r, req[r])

-----------------------------------------------------------------------------
(* Records.                                                                *)

(* A row is no NoRow, and a connection no NoConnection: their ids differ.  *)
LEMMA RowsAre ==
  /\ \A a \in Rows : a # NoRow /\ a.id \in Nat \ {0} /\ a.id # NoRow.id
  /\ \A c \in ConnectionRows : c # NoConnection
  /\ NoRow.id = 0
<1>1. NoRow.id = 0 /\ NoConnection.born = 0
  BY DEF NoRow, NoConnection
<1>2. \A a \in Rows : a.id \in Nat \ {0}
  BY DEF Rows
<1>3. \A c \in ConnectionRows : c.born \in Nat \ {0}
  BY DEF ConnectionRows
<1> QED
  BY <1>1, <1>2, <1>3

(* A slot without a request is a request's record, and knows nothing.      *)
LEMMA IdleIs ==
  /\ Idle \in RequestRecords /\ Idle.pc = "idle"
  /\ \A r : Knows(r, Idle)
<1>1. Idle \in RequestRecords /\ Idle.pc = "idle"
  BY DEF Idle, RequestRecords, Steps
<1> QED
  BY <1>1 DEF Knows, Aimed, Connected, Cleared, Refreshing, Aiming, Holding, Managing

(* What a request's record holds, field by field.                          *)
LEMMA RecordFields ==
  ASSUME NEW q \in RequestRecords
  PROVE  /\ q.pc \in Steps /\ q.ws \in Workspaces \cup {None} /\ q.ig \in Instagram \cup {None}
         /\ q.arg \in Keys \cup Profiles \cup {None} /\ q.row \in Rows \cup {NoRow}
         /\ q.conn \in ConnectionRows \cup {NoConnection} /\ q.hook \in Nat
BY DEF RequestRecords

(* A request that changes one of its fields is still one.                  *)
LEMMA RecordChanged ==
  ASSUME NEW q \in RequestRecords, NEW pc \in Steps
  PROVE  /\ [q EXCEPT !.pc = pc] \in RequestRecords
         /\ \A a \in Rows \cup {NoRow} : [q EXCEPT !.pc = pc, !.row = a] \in RequestRecords
         /\ \A a \in Rows \cup {NoRow}, i \in Instagram :
               [q EXCEPT !.pc = pc, !.ig = i, !.row = a] \in RequestRecords
         /\ \A c \in ConnectionRows \cup {NoConnection} :
               [q EXCEPT !.pc = pc, !.conn = c] \in RequestRecords
         /\ \A h \in Nat : [q EXCEPT !.pc = pc, !.hook = h] \in RequestRecords
BY DEF RequestRecords

-----------------------------------------------------------------------------
(* Frames.                                                                 *)

(* What a step of request r leaves to the holders of other locks.          *)
Spared(r) ==
  \A w \in Workspaces : \A s \in Requests \ {r} : lock[w] = {s} =>
    /\ lock'[w] = {s}
    /\ connection'[w] = connection[w]
    /\ Imports(w)' \subseteq Imports(w)
    /\ \A h \in remote' : h.ws = w => h \in remote

(* A row keeps its id only as the row of the same workspace and provider,  *)
(* and its mark with it; else it is gone or new.                           *)
Lineage ==
  /\ nextId' >= nextId
  /\ \A i \in Instagram :
       \/ account'[i] = NoRow
       \/ account'[i].id >= nextId
       \/ /\ account'[i].id = account[i].id /\ account'[i].ws = account[i].ws
          /\ account'[i].provider = account[i].provider /\ (i \in collided => i \in collided')

(* What another request knows stays true.                                  *)
LEMMA OthersKnow ==
  ASSUME IInv, NEW r \in Requests, Spared(r), Lineage, nextId' \in Nat,
         NEW s \in Requests \ {r}, req'[s] = req[s]
  PROVE  Knows(s, req[s])'
<1> DEFINE q == req[s]
<1>1. q \in RequestRecords /\ Aimed(q) /\ Connected(s, q) /\ Cleared(q) /\ Refreshing(q)
  BY DEF IInv, TypeOK, Knows
<1>2. Aimed(q)'
  BY <1>1 DEF Aimed
<1>3. ASSUME q.pc \in Holding
      PROVE  /\ q.ws \in Workspaces /\ lock[q.ws] = {s} /\ lock'[q.ws] = {s}
             /\ connection'[q.ws] = connection[q.ws] /\ Imports(q.ws)' \subseteq Imports(q.ws)
             /\ \A h \in remote' : h.ws = q.ws => h \in remote
  <2>1. q.ws \in Workspaces /\ lock[q.ws] = {s}
    BY <1>1, <1>3 DEF Aimed, Connected, Holding
  <2> QED
    BY <2>1 DEF Spared
<1>4. Connected(s, q)'
  BY <1>1, <1>3 DEF Connected, Holding, Managing
<1>5. Cleared(q)'
  <2>1. q.pc \in {"ensure", "settle"} => Imports(q.ws)' = {} \/ q.conn.profile = q.arg
    BY <1>1, <1>3 DEF Cleared, Holding
  <2>2. q.pc \in {"unhook", "drop"} => Imports(q.ws)' = {}
    BY <1>1, <1>3 DEF Cleared, Holding
  <2>3. q.pc = "settle" =>
          \A h \in remote' : h.id = q.hook /\ h.ws = q.ws => h.secret = q.conn.born
    BY <1>1, <1>3 DEF Cleared, Holding
  <2>4. Imports(req[s].ws)' = Imports(q.ws)'
    BY DEF Imports, Exists
  <2> QED
    BY <2>1, <2>2, <2>3, <2>4 DEF Cleared
<1>6. Refreshing(q)'
  <2> SUFFICES ASSUME q.pc = "refreshed"
               PROVE  /\ q.row # NoRow /\ q.row.provider = "META" /\ q.row.id < nextId'
                      /\ account'[q.ig].id = q.row.id =>
                           /\ account'[q.ig].ws = q.row.ws /\ account'[q.ig].provider = "META"
                           /\ q.ig \notin collided' => q.row.cred = Cred(q.row.ws, "META")
    BY DEF Refreshing, NoRow, Cred
  <2>1. /\ q.row \in Rows /\ q.row.provider = "META" /\ q.row.id < nextId /\ q.ig \in Instagram
        /\ q.row.id \in Nat \ {0} /\ nextId \in Nat
    BY <1>1, RecordFields, RowsAre DEF Refreshing, Aimed, Aiming, IInv, TypeOK
  <2>2. q.row.id < nextId'
    BY <2>1 DEF Lineage
  <2>3. CASE account'[q.ig] = NoRow
    BY <2>1, <2>2, <2>3, RowsAre
  <2>4. CASE account'[q.ig].id >= nextId
    BY <2>1, <2>2, <2>4, RowsAre
  <2>5. CASE /\ account'[q.ig].id = account[q.ig].id /\ account'[q.ig].ws = account[q.ig].ws
             /\ account'[q.ig].provider = account[q.ig].provider
             /\ (q.ig \in collided => q.ig \in collided')
    BY <1>1, <2>1, <2>2, <2>5, RowsAre DEF Refreshing
  <2> QED
    BY <2>1, <2>3, <2>4, <2>5 DEF Lineage
<1> QED
  BY <1>2, <1>4, <1>5, <1>6 DEF Knows

(* A step of request r keeps the invariant if its data do and the request  *)
(* knows what it should.                                                   *)
LEMMA Stepped ==
  ASSUME IInv, NEW r \in Requests, Spared(r), Lineage,
         NEW q \in RequestRecords, req' = [req EXCEPT ![r] = q], Knows(r, q)',
         TypeOK', AccountsAreBacked', WebhookVerifies', Numbered'
  PROVE  IInv'
<1>1. req'[r] = q /\ (\A s \in Requests \ {r} : req'[s] = req[s]) /\ nextId' \in Nat
  BY DEF IInv, TypeOK
<1>2. \A s \in Requests \ {r} : Knows(s, req[s])'
  BY <1>1, OthersKnow
<1>3. Knows(r, req[r])'
  BY <1>1 DEF Knows, Aimed, Connected, Cleared, Refreshing, Imports, Exists
<1> QED
  BY <1>2, <1>3 DEF IInv

(* The lock is left alone, given back or taken from nobody: whoever else   *)
(* holds it keeps it.                                                      *)
LEMMA LockSpared ==
  ASSUME IInv, NEW r \in Requests,
         \/ UNCHANGED lock
         \/ lock' = [w \in Workspaces |-> lock[w] \ {r}]
         \/ Take(r)
  PROVE  /\ lock' \in [Workspaces -> SUBSET Requests]
         /\ \A w \in Workspaces : \A s \in Requests \ {r} : lock[w] = {s} => lock'[w] = {s}
<1>1. lock \in [Workspaces -> SUBSET Requests]
  BY DEF IInv, TypeOK
<1>2. CASE UNCHANGED lock
  BY <1>1, <1>2
<1>3. CASE lock' = [w \in Workspaces |-> lock[w] \ {r}]
  BY <1>1, <1>3
<1>4. CASE Take(r)
  BY <1>1, <1>4 DEF Take
<1> QED
  BY <1>2, <1>3, <1>4

(* The request moves on, the data stay.                                    *)
LEMMA Moved ==
  ASSUME IInv, NEW r \in Requests, UNCHANGED <<account, connection, remote, nextId, collided>>,
         made' \in Nat,
         \/ UNCHANGED lock
         \/ lock' = [w \in Workspaces |-> lock[w] \ {r}]
         \/ Take(r),
         NEW q \in RequestRecords, req' = [req EXCEPT ![r] = q], Knows(r, q)'
  PROVE  IInv'
<1>1. /\ lock' \in [Workspaces -> SUBSET Requests]
      /\ \A w \in Workspaces : \A s \in Requests \ {r} : lock[w] = {s} => lock'[w] = {s}
  BY LockSpared
<1>2. req' \in [Requests -> RequestRecords]
  BY DEF IInv, TypeOK
<1>3. TypeOK'
  BY <1>1, <1>2 DEF IInv, TypeOK
<1>4. Spared(r) /\ Lineage
  <2>1. \A w : Imports(w)' = Imports(w)
    BY DEF Imports, Exists
  <2>2. nextId \in Nat
    BY DEF IInv, TypeOK
  <2> QED
    BY <1>1, <2>1, <2>2 DEF Spared, Lineage
<1>5. AccountsAreBacked' /\ WebhookVerifies' /\ Numbered'
  BY DEF IInv, AccountsAreBacked, CredentialsFit, ImportsHaveConnection, WebhookVerifies,
         Numbered, Exists
<1> QED
  BY <1>3, <1>4, <1>5, Stepped

(* A request ends, and leaves its lock.                                    *)
LEMMA Finished ==
  ASSUME IInv, NEW r \in Requests, Finish(r)
  PROVE  /\ req' = [req EXCEPT ![r] = Idle] /\ Knows(r, Idle)'
         /\ lock' = [w \in Workspaces |-> lock[w] \ {r}]
         /\ lock' \in [Workspaces -> SUBSET Requests]
         /\ \A w \in Workspaces : \A s \in Requests \ {r} : lock[w] = {s} => lock'[w] = {s}
         /\ req' \in [Requests -> RequestRecords]
<1>1. req' = [req EXCEPT ![r] = Idle] /\ lock' = [w \in Workspaces |-> lock[w] \ {r}]
  BY DEF Finish
<1>2. Knows(r, Idle)'
  BY IdleIs DEF Knows, Aimed, Connected, Cleared, Refreshing, Aiming, Holding, Managing
<1>3. req' \in [Requests -> RequestRecords]
  BY <1>1, IdleIs DEF IInv, TypeOK
<1> QED
  BY <1>1, <1>2, <1>3, LockSpared

(* A request that ends without a word.                                     *)
LEMMA Ended ==
  ASSUME IInv, NEW r \in Requests, Finish(r), UNCHANGED Data
  PROVE  IInv'
<1>1. /\ UNCHANGED <<account, connection, remote, nextId, collided>> /\ made' = made
      /\ made \in Nat
  BY DEF Data, IInv, TypeOK
<1> QED
  BY <1>1, Finished, IdleIs, Moved

-----------------------------------------------------------------------------
(* The steps that only read.                                               *)

(* A request at its first step knows what it is about.                     *)
LEMMA ArriveStep == ASSUME IInv, NEW r \in Requests, Arrive(r) PROVE IInv'
<1>1. PICK w \in Workspaces, pc \in {"callback", "composio", "import", "disconnect", "refresh",
                                     "remove", "key", "profile"},
           i \in Instagram \cup {None}, arg \in Keys \cup Profiles \cup {None} :
        /\ Begin(r, w, pc, i, arg)
        /\ pc \in {"callback", "composio", "import"} => i \in Instagram
        /\ pc = "key" => arg \in Keys
        /\ pc = "profile" => arg \in Profiles
  BY DEF Arrive
<1>2. PICK q : q = [Idle EXCEPT !.pc = pc, !.ws = w, !.ig = i, !.arg = arg]
  OBVIOUS
<1>3. /\ q \in RequestRecords /\ q.pc = pc /\ q.ws = w /\ q.ig = i /\ q.arg = arg
      /\ req' = [req EXCEPT ![r] = q]
      /\ UNCHANGED <<account, connection, remote, lock, nextId, collided>>
      /\ made' = made + 1
  BY <1>1, <1>2 DEF Begin, Idle, RequestRecords, Steps
<1>4. made' \in Nat
  BY <1>3 DEF IInv, TypeOK
<1>5. Knows(r, q)'
  BY <1>1, <1>3 DEF Knows, Aimed, Connected, Cleared, Refreshing, Aiming, Holding, Managing
<1> QED
  BY <1>3, <1>4, <1>5, Moved

(* A request that goes on knows the same where it holds no lock.           *)
LEMMA GoesOn ==
  ASSUME IInv, NEW r \in Requests, NEW pc \in {"existing", "connect", "upsert"},
         req[r].pc \in {"callback", "existing", "composio"}, NEW a \in Rows \cup {NoRow},
         \/ req' = [req EXCEPT ![r].pc = pc]
         \/ req' = [req EXCEPT ![r].pc = pc, ![r].row = a],
         UNCHANGED <<Data, lock>>
  PROVE  IInv'
<1>1. /\ req[r] \in RequestRecords /\ Aimed(req[r]) /\ req \in [Requests -> RequestRecords]
      /\ pc \in Steps
  BY DEF IInv, TypeOK, Knows, Steps
<1>2. PICK q : /\ req' = [req EXCEPT ![r] = q]
               /\ q = [req[r] EXCEPT !.pc = pc] \/ q = [req[r] EXCEPT !.pc = pc, !.row = a]
  <2>1. CASE req' = [req EXCEPT ![r].pc = pc]
    BY <1>1, <2>1
  <2>2. CASE req' = [req EXCEPT ![r].pc = pc, ![r].row = a]
    BY <1>1, <2>2 DEF RequestRecords
  <2> QED
    BY <2>1, <2>2
<1>3. q \in RequestRecords /\ q.pc = pc /\ q.ws \in Workspaces /\ q.ig \in Instagram
  BY <1>1, <1>2 DEF Aimed, Aiming, RequestRecords
<1>4. Knows(r, q)'
  BY <1>2, <1>3 DEF Knows, Aimed, Connected, Cleared, Refreshing, Aiming, Holding, Managing
<1>5. /\ UNCHANGED <<account, connection, remote, nextId, collided>> /\ made' \in Nat
  BY DEF Data, IInv, TypeOK
<1> QED
  BY <1>2, <1>3, <1>4, <1>5, Moved

(* The checks before a Meta or a Composio save.                            *)
LEMMA CheckStep ==
  ASSUME IInv, NEW r \in Requests, CanConnect(r) \/ FindExisting(r) \/ FindComposio(r)
  PROVE  IInv'
<1>1. ASSUME CanConnect(r) \/ FindComposio(r), Finish(r) PROVE IInv'
  BY <1>1, Ended DEF CanConnect, FindComposio
<1>2. ASSUME CanConnect(r), ~Finish(r) PROVE IInv'
  BY <1>2, GoesOn, RowsAre DEF CanConnect, Goto, At
<1>3. ASSUME FindComposio(r), ~Finish(r) PROVE IInv'
  BY <1>3, GoesOn, RowsAre DEF FindComposio, Goto, At
<1>4. ASSUME FindExisting(r) PROVE IInv'
  <2>1. req[r].ig \in Instagram /\ account[req[r].ig] \in Rows \cup {NoRow}
    BY <1>4 DEF FindExisting, At, IInv, TypeOK, Knows, Aimed, Aiming
  <2> QED
    BY <1>4, <2>1, GoesOn DEF FindExisting, At
<1> QED
  BY <1>1, <1>2, <1>3, <1>4

(* The row listed for a refresh is Meta's, with its workspace's token.     *)
LEMMA ListToRefreshStep ==
  ASSUME IInv, NEW r \in Requests, NEW i \in Instagram, ListToRefresh(r, i)
  PROVE  IInv'
<1>1. /\ account[i] \in Rows \cup {NoRow} /\ account[i] # NoRow /\ account[i].provider = "META"
      /\ "refreshed" \in Steps /\ req \in [Requests -> RequestRecords] /\ req[r] \in RequestRecords
      /\ req[r].pc = "refresh" /\ Aimed(req[r])
  BY DEF ListToRefresh, Exists, IInv, TypeOK, Steps, At, Knows
<1>2. PICK q : /\ req' = [req EXCEPT ![r] = q]
               /\ q = [req[r] EXCEPT !.pc = "refreshed", !.ig = i, !.row = account[i]]
  BY <1>1 DEF ListToRefresh
<1>3. /\ q \in RequestRecords /\ q.pc = "refreshed" /\ q.ws \in Workspaces /\ q.ig = i
      /\ q.row = account[i]
  BY <1>1, <1>2, RecordChanged DEF Aimed, RequestRecords
<1>4. /\ UNCHANGED <<account, connection, remote, nextId, collided, lock>> /\ made' \in Nat
  BY DEF ListToRefresh, Data, IInv, TypeOK
<1>5. Refreshing(q)'
  <2>1. /\ account[i].id < nextId
        /\ i \notin collided => account[i].cred = Cred(account[i].ws, "META")
    BY <1>1 DEF IInv, Numbered, AccountsAreBacked, CredentialsFit, Exists
  <2> QED
    BY <1>1, <1>3, <1>4, <2>1 DEF Refreshing, Cred
<1>6. Knows(r, q)'
  BY <1>3, <1>5 DEF Knows, Aimed, Connected, Cleared, Aiming, Holding, Managing
<1> QED
  BY <1>2, <1>3, <1>4, <1>6, Moved

(* What a request at one of these steps was found to hold.                 *)
LEMMA AtStep ==
  ASSUME IInv, NEW r \in Requests, NEW pc \in Steps \ {"idle"}, At(r, pc)
  PROVE  /\ req[r].pc = pc /\ req[r] \in RequestRecords /\ req \in [Requests -> RequestRecords]
         /\ req[r].ws \in Workspaces /\ Knows(r, req[r])
         /\ Own(r) \in ConnectionRows \cup {NoConnection}
         /\ pc \in Aiming => /\ req[r].ig \in Instagram
                             /\ account[req[r].ig] \in Rows \cup {NoRow}
BY DEF At, IInv, TypeOK, Knows, Aimed, Own

(* An import notes the connection it found, with a profile.                *)
LEMMA LoadConnectionStep == ASSUME IInv, NEW r \in Requests, LoadConnection(r) PROVE IInv'
<1>1. /\ At(r, "import") /\ "import" \in Steps \ {"idle"} /\ "listed" \in Steps
      /\ Own(r) # NoConnection /\ Own(r).profile # None /\ "import" \in Aiming
  BY DEF LoadConnection, Steps, Aiming
<1>2. PICK q : /\ req' = [req EXCEPT ![r] = q]
               /\ q = [req[r] EXCEPT !.pc = "listed", !.conn = Own(r)]
  BY <1>1, AtStep DEF LoadConnection, RequestRecords
<1>3. /\ q \in RequestRecords /\ q.pc = "listed" /\ q.ws \in Workspaces /\ q.ig \in Instagram
      /\ q.conn = Own(r)
  BY <1>1, <1>2, AtStep DEF RequestRecords
<1>4. /\ UNCHANGED <<account, connection, remote, nextId, collided, lock>> /\ made' \in Nat
  BY DEF LoadConnection, Data, IInv, TypeOK
<1>5. Knows(r, q)'
  BY <1>1, <1>3 DEF Knows, Aimed, Connected, Cleared, Refreshing, Holding, Managing,
                    NoConnection
<1> QED
  BY <1>2, <1>3, <1>4, <1>5, Moved

(* Under the lock the import finds the connection it had read.             *)
LEMMA LockForImportStep == ASSUME IInv, NEW r \in Requests, LockForImport(r) PROVE IInv'
<1>1. /\ At(r, "listed") /\ "listed" \in Steps \ {"idle"} /\ "imported" \in Steps
      /\ Own(r) # NoConnection /\ Own(r).profile = req[r].conn.profile /\ "listed" \in Aiming
      /\ Take(r)
  BY DEF LockForImport, Steps, Aiming
<1>2. PICK q : /\ req' = [req EXCEPT ![r] = q]
               /\ q = [req[r] EXCEPT !.pc = "imported", !.row = account[req[r].ig]]
  BY <1>1, AtStep DEF LockForImport, RequestRecords
<1>3. /\ q \in RequestRecords /\ q.pc = "imported" /\ q.ws \in Workspaces /\ q.ig \in Instagram
      /\ q.conn = req[r].conn /\ q.ws = req[r].ws
  <2>1. /\ req[r] \in RequestRecords /\ req[r].ws \in Workspaces /\ req[r].ig \in Instagram
        /\ account[req[r].ig] \in Rows \cup {NoRow}
    BY <1>1, AtStep
  <2> QED
    BY <1>1, <1>2, <2>1 DEF RequestRecords
<1>4. /\ UNCHANGED <<account, connection, remote, nextId, collided>> /\ made' \in Nat
  BY DEF LockForImport, Data, IInv, TypeOK
<1>5. lock'[q.ws] = {r}
  BY <1>1, <1>3 DEF Take, IInv, TypeOK
<1>6. q.conn # NoConnection /\ q.conn.profile # None
  BY <1>1, <1>3, AtStep DEF Knows, Connected
<1>7. Knows(r, q)'
  BY <1>1, <1>3, <1>4, <1>5, <1>6 DEF Knows, Aimed, Connected, Cleared, Refreshing, Managing, Own,
                                       NoConnection
<1> QED
  BY <1>1, <1>2, <1>3, <1>4, <1>7, Moved

(* A profile is changed only where nothing was imported from another.      *)
LEMMA LockForProfileStep == ASSUME IInv, NEW r \in Requests, LockForProfile(r) PROVE IInv'
<1>1. /\ At(r, "profile") /\ "profile" \in Steps \ {"idle"} /\ "ensure" \in Steps
      /\ Own(r) # NoConnection /\ Take(r)
      /\ ~(Own(r).profile \notin {None, req[r].arg} /\ Imports(req[r].ws) # {})
  BY DEF LockForProfile, Steps
<1>2. PICK q : /\ req' = [req EXCEPT ![r] = q]
               /\ q = [req[r] EXCEPT !.pc = "ensure", !.conn = Own(r)]
  BY <1>1, AtStep DEF LockForProfile, RequestRecords
<1>3. /\ q \in RequestRecords /\ q.pc = "ensure" /\ q.ws \in Workspaces /\ q.conn = Own(r)
      /\ q.ws = req[r].ws /\ q.arg = req[r].arg
  BY <1>1, <1>2, AtStep DEF RequestRecords
<1>4. /\ UNCHANGED <<account, connection, remote, nextId, collided>> /\ made' \in Nat
  BY DEF LockForProfile, Data, IInv, TypeOK
<1>5. lock'[q.ws] = {r}
  BY <1>1, <1>3 DEF Take, IInv, TypeOK
<1>6. q.arg \in Profiles
  BY <1>1, <1>3, AtStep DEF Knows, Aimed
<1>7. Imports(q.ws) = {} \/ q.conn.profile = q.arg
  <2>1. ASSUME Imports(q.ws) # {} PROVE Own(r).profile # None
    BY <1>3, <2>1 DEF Imports, Own, IInv, AccountsAreBacked, ImportsHaveConnection, Numbered, Exists
  <2> QED
    BY <1>1, <1>3, <2>1
<1>8. Imports(q.ws)' = Imports(q.ws)
  BY <1>4 DEF Imports, Exists
<1>9. Knows(r, q)'
  BY <1>1, <1>3, <1>4, <1>5, <1>6, <1>7, <1>8
     DEF Knows, Aimed, Aiming, Connected, Cleared, Refreshing, Managing, Own, NoConnection
<1> QED
  BY <1>1, <1>2, <1>3, <1>4, <1>9, Moved

(* A connection is removed only where nothing was imported.                *)
LEMMA LockForRemovalStep == ASSUME IInv, NEW r \in Requests, LockForRemoval(r) PROVE IInv'
<1>1. /\ At(r, "remove") /\ "remove" \in Steps \ {"idle"} /\ "unhook" \in Steps
      /\ Own(r) # NoConnection /\ Take(r) /\ Imports(req[r].ws) = {}
  BY DEF LockForRemoval, Steps
<1>2. PICK q : /\ req' = [req EXCEPT ![r] = q]
               /\ q = [req[r] EXCEPT !.pc = "unhook", !.conn = Own(r)]
  BY <1>1, AtStep DEF LockForRemoval, RequestRecords
<1>3. /\ q \in RequestRecords /\ q.pc = "unhook" /\ q.ws \in Workspaces /\ q.conn = Own(r)
      /\ q.ws = req[r].ws
  BY <1>1, <1>2, AtStep DEF RequestRecords
<1>4. /\ UNCHANGED <<account, connection, remote, nextId, collided>> /\ made' \in Nat
  BY DEF LockForRemoval, Data, IInv, TypeOK
<1>5. lock'[q.ws] = {r}
  BY <1>1, <1>3 DEF Take, IInv, TypeOK
<1>6. Imports(q.ws)' = {}
  BY <1>1, <1>3, <1>4 DEF Imports, Exists
<1>7. Knows(r, q)'
  BY <1>1, <1>3, <1>4, <1>5, <1>6
     DEF Knows, Aimed, Aiming, Connected, Cleared, Refreshing, Managing, Own, NoConnection
<1> QED
  BY <1>1, <1>2, <1>3, <1>4, <1>7, Moved

(* A refusal, a failure or a death leaves nothing but a free lock.         *)
LEMMA RefusedStep == ASSUME IInv, NEW r \in Requests, Refused(r) PROVE IInv'
BY Ended DEF Refused

-----------------------------------------------------------------------------

(* The steps that write accounts.                                          *)

(* What the properties ask of one account, and that its id is taken.       *)
Fits(i) ==
  Exists(i) =>
    /\ account[i].id < nextId
    /\ account[i].provider # "ZERNIO" /\ i \notin collided =>
         account[i].cred = Cred(account[i].ws, account[i].provider)
    /\ account[i].provider = "ZERNIO" =>
         /\ account[i].profile # None
         /\ connection[account[i].ws] # NoConnection
         /\ connection[account[i].ws].profile = account[i].profile

(* The invariant asks that of every account.                               *)
LEMMA FitsAll ==
  ASSUME TypeOK
  PROVE  (\A i \in Instagram : Fits(i)) <=>
           /\ AccountsAreBacked
           /\ \A i \in Instagram : account[i].id < nextId
           /\ \A i \in Instagram :
                Exists(i) /\ account[i].provider = "ZERNIO" => account[i].profile # None
<1>1. \A i \in Instagram : ~Exists(i) => account[i].id < nextId
  BY RowsAre DEF Exists, TypeOK
<1> QED
  BY <1>1 DEF Fits, AccountsAreBacked, CredentialsFit, ImportsHaveConnection

(* A request writes accounts and ends.                                     *)
LEMMA AccountsWritten ==
  ASSUME IInv, NEW r \in Requests, Finish(r), UNCHANGED <<connection, remote, made>>,
         nextId' \in Nat, collided' \subseteq Instagram, Lineage,
         account' \in [Instagram -> Rows \cup {NoRow}],
         \A i \in Instagram : Fits(i)',
         \A w \in Workspaces : lock[w] = {r} \/ Imports(w)' \subseteq Imports(w)
  PROVE  IInv'
<1>1. nextId' >= nextId /\ nextId \in Nat \ {0} /\ nextId' \in Nat \ {0}
  BY DEF Lineage, IInv, TypeOK
<1>2. TypeOK'
  BY <1>1, Finished DEF IInv, TypeOK
<1>3. Spared(r)
  <2> SUFFICES ASSUME NEW w \in Workspaces, NEW s \in Requests \ {r}, lock[w] = {s}
               PROVE  lock'[w] = {s} /\ Imports(w)' \subseteq Imports(w)
    BY DEF Spared, Imports
  <2>1. lock'[w] = {s}
    BY Finished
  <2>2. lock[w] # {r}
    OBVIOUS
  <2> QED
    BY <2>1, <2>2
<1>4. /\ AccountsAreBacked'
      /\ \A i \in Instagram : account'[i].id < nextId'
      /\ \A i \in Instagram :
           Exists(i)' /\ account'[i].provider = "ZERNIO" => account'[i].profile # None
  <2>1. \A i \in Instagram : account'[i] = NoRow \/ account'[i] \in Rows
    OBVIOUS
  <2>2. \A i \in Instagram : account'[i].id < nextId'
    BY <1>1, <2>1, RowsAre DEF Fits, Exists, NoRow
  <2> QED
    BY <2>2 DEF Fits, AccountsAreBacked, CredentialsFit, ImportsHaveConnection
<1>5. WebhookVerifies' /\ \A h \in remote' : h.id < nextId'
  BY <1>1 DEF IInv, TypeOK, WebhookVerifies, Numbered, NoConnection
<1>6. Numbered'
  BY <1>4, <1>5 DEF IInv, Numbered, Exists, NoRow
<1> QED
  BY <1>2, <1>3, <1>4, <1>5, <1>6, Finished, IdleIs, Stepped

(* It writes one, over the row that is there or as a new one.              *)
LEMMA OneWritten ==
  ASSUME IInv, NEW r \in Requests, Finish(r), UNCHANGED <<connection, remote, made>>,
         NEW i \in Instagram, NEW a \in Rows, account' = [account EXCEPT ![i] = a],
         collided \subseteq collided', collided' \subseteq collided \cup {i},
         \/ /\ nextId' = nextId /\ Exists(i) /\ a.id = account[i].id
            /\ a.ws = account[i].ws /\ a.provider = account[i].provider
         \/ nextId' = nextId + 1 /\ a.id = nextId /\ (a.provider = "ZERNIO" => lock[a.ws] = {r}),
         a.provider # "ZERNIO" /\ i \notin collided' => a.cred = Cred(a.ws, a.provider),
         a.provider = "ZERNIO" =>
           /\ a.profile # None /\ connection[a.ws] # NoConnection
           /\ connection[a.ws].profile = a.profile
  PROVE  IInv'
<1>1. /\ TypeOK /\ nextId \in Nat \ {0} /\ nextId' \in Nat /\ nextId' >= nextId
      /\ collided' \subseteq Instagram /\ a # NoRow
  BY RowsAre DEF IInv, TypeOK
<1>2. /\ account' \in [Instagram -> Rows \cup {NoRow}] /\ account'[i] = a
      /\ \A j \in Instagram \ {i} : account'[j] = account[j]
  BY <1>1 DEF TypeOK
<1>3. Lineage
  BY <1>1, <1>2 DEF Lineage
<1>4. \A j \in Instagram : Fits(j)
  BY <1>1, FitsAll DEF IInv, Numbered
<1>5. Fits(i)'
  BY <1>1, <1>2, <1>4 DEF Fits, NoConnection, Cred
<1>6. ASSUME NEW j \in Instagram \ {i} PROVE Fits(j)'
  <2>1. account[j].id \in Nat /\ (j \in collided' <=> j \in collided) /\ account'[j] = account[j]
    BY <1>1, <1>2, RowsAre DEF TypeOK
  <2> QED
    BY <1>1, <1>4, <2>1 DEF Fits, Exists, NoRow, NoConnection, Cred
<1>7. ASSUME NEW w \in Workspaces, lock[w] # {r} PROVE Imports(w)' \subseteq Imports(w)
  <2>1. ASSUME NEW j \in Imports(w)' PROVE j \in Imports(w)
    <3>1. /\ j \in Instagram /\ account'[j] # NoRow /\ account'[j].ws = w
          /\ account'[j].provider = "ZERNIO"
      BY <2>1 DEF Imports, Exists, NoRow
    <3>2. account[j] # NoRow /\ account[j].ws = w /\ account[j].provider = "ZERNIO"
      BY <1>2, <1>7, <3>1 DEF Exists
    <3> QED
      BY <3>1, <3>2 DEF Imports, Exists
  <2> QED
    BY <2>1
<1> QED
  BY <1>1, <1>2, <1>3, <1>5, <1>6, <1>7, AccountsWritten

(* What a row says once its credential is another.                         *)
LEMMA CredChanged ==
  ASSUME NEW a \in Rows, NEW w \in Workspaces, NEW kind \in {"META", "COMPOSIO"}
  PROVE  LET b == [a EXCEPT !.cred = Cred(w, kind)] IN
         /\ b \in Rows /\ b.id = a.id /\ b.ws = a.ws /\ b.provider = a.provider
         /\ b.profile = a.profile /\ b.cred = Cred(w, kind)
<1>1. Cred(w, kind) \in [ws : Workspaces, kind : {"META", "COMPOSIO"}]
  BY DEF Cred
<1> QED
  BY <1>1 DEF Rows

(* What a new row says.                                                    *)
LEMMA NewRow ==
  ASSUME IInv, NEW w \in Workspaces, NEW p \in Providers,
         NEW c \in [ws : Workspaces, kind : {"META", "COMPOSIO"}] \cup {None},
         NEW f \in Profiles \cup {None}
  PROVE  LET a == AccountRow(nextId, w, p, c, f) IN
         /\ a \in Rows /\ a.id = nextId /\ a.ws = w /\ a.provider = p /\ a.cred = c /\ a.profile = f
BY DEF AccountRow, Rows, IInv, TypeOK

(* A Meta callback writes its own row, or takes a free one.                *)
LEMMA SaveMetaStep == ASSUME IInv, NEW r \in Requests, SaveMeta(r) PROVE IInv'
<1> DEFINE i == req[r].ig
           w == req[r].ws
           cred == Cred(w, "META")
<1>1. /\ At(r, "connect") /\ "connect" \in Steps \ {"idle"} /\ "connect" \in Aiming
      /\ Finish(r) /\ UNCHANGED <<connection, remote, made, collided>>
  BY DEF SaveMeta, Steps, Aiming
<1>2. /\ i \in Instagram /\ w \in Workspaces /\ req[r].row \in Rows \cup {NoRow}
      /\ account[i] \in Rows \cup {NoRow} /\ account \in [Instagram -> Rows \cup {NoRow}]
      /\ collided \subseteq Instagram
  BY <1>1, AtStep, RecordFields DEF IInv, TypeOK
<1>3. CASE account' = account /\ nextId' = nextId
  BY <1>1, <1>3, Ended DEF Data
<1>4. CASE /\ req[r].row # NoRow /\ account[i].id = req[r].row.id /\ ~Foreign(i, w, "META")
           /\ account' = [account EXCEPT ![i].cred = cred] /\ nextId' = nextId
  <2>1. account[i] \in Rows /\ Exists(i) /\ account[i].ws = w /\ account[i].provider = "META"
    BY <1>2, <1>4, RowsAre DEF Foreign, Exists
  <2>2. PICK a : a = [account[i] EXCEPT !.cred = cred]
    OBVIOUS
  <2>3. /\ a \in Rows /\ a.id = account[i].id /\ a.ws = w /\ a.provider = "META" /\ a.cred = cred
    BY <1>2, <2>1, <2>2, CredChanged
  <2>4. account' = [account EXCEPT ![i] = a]
    BY <1>2, <1>4, <2>2
  <2>5. i \notin collided' => a.cred = Cred(a.ws, a.provider)
    BY <2>3
  <2>6. /\ a.id = account[i].id /\ a.ws = account[i].ws /\ a.provider = account[i].provider
        /\ a.provider # "ZERNIO" /\ nextId' = nextId
    BY <1>4, <2>1, <2>3
  <2>7. collided \subseteq collided' /\ collided' \subseteq collided \cup {i}
    BY <1>1
  <2> HIDE DEF i, w, cred
  <2> QED
    BY <1>1, <1>2, <2>1, <2>3, <2>4, <2>5, <2>6, <2>7, OneWritten
<1>5. CASE /\ nextId' = nextId + 1
           /\ account' = [account EXCEPT ![i] = AccountRow(nextId, w, "META", cred, None)]
  <2>1. PICK a : a = AccountRow(nextId, w, "META", cred, None)
    OBVIOUS
  <2>2. cred \in [ws : Workspaces, kind : {"META", "COMPOSIO"}] /\ "META" \in Providers
    BY <1>2 DEF Cred, Providers
  <2>3. a \in Rows /\ a.id = nextId /\ a.ws = w /\ a.provider = "META" /\ a.cred = cred
    BY <1>2, <2>1, <2>2, NewRow
  <2> QED
    BY <1>1, <1>2, <1>5, <2>1, <2>3, OneWritten
<1> QED
  BY <1>3, <1>4, <1>5 DEF SaveMeta, Fresh

(* A Composio save that did not see the row is marked.                     *)
LEMMA SaveComposioStep == ASSUME IInv, NEW r \in Requests, SaveComposio(r) PROVE IInv'
<1> DEFINE i == req[r].ig
           w == req[r].ws
           cred == Cred(w, "COMPOSIO")
<1>1. /\ At(r, "upsert") /\ "upsert" \in Steps \ {"idle"} /\ "upsert" \in Aiming
      /\ Finish(r) /\ UNCHANGED <<connection, remote, made>>
  BY DEF SaveComposio, Steps, Aiming
<1>2. /\ i \in Instagram /\ w \in Workspaces /\ collided \subseteq Instagram
      /\ account[i] \in Rows \cup {NoRow} /\ account \in [Instagram -> Rows \cup {NoRow}]
  BY <1>1, AtStep DEF IInv, TypeOK
<1>3. CASE Exists(i)
  <2>1. /\ account[i] \in Rows /\ account' = [account EXCEPT ![i].cred = cred] /\ nextId' = nextId
        /\ collided' = IF Foreign(i, w, "COMPOSIO") THEN collided \cup {i} ELSE collided
    BY <1>2, <1>3 DEF SaveComposio, Exists
  <2>2. PICK a : a = [account[i] EXCEPT !.cred = cred]
    OBVIOUS
  <2>3. /\ a \in Rows /\ a.id = account[i].id /\ a.ws = account[i].ws /\ a.cred = cred
        /\ a.provider = account[i].provider /\ a.profile = account[i].profile
    BY <1>2, <2>1, <2>2, CredChanged
  <2>4. account' = [account EXCEPT ![i] = a]
    BY <1>2, <2>1, <2>2
  <2>5. i \notin collided' => a.cred = Cred(a.ws, a.provider)
    BY <1>3, <2>1, <2>3 DEF Foreign
  <2>6. a.provider = "ZERNIO" =>
          /\ a.profile # None /\ connection[a.ws] # NoConnection
          /\ connection[a.ws].profile = a.profile
    BY <1>2, <1>3, <2>3 DEF IInv, AccountsAreBacked, ImportsHaveConnection, Numbered
  <2> QED
    BY <1>1, <1>2, <1>3, <2>1, <2>3, <2>4, <2>5, <2>6, OneWritten
<1>4. CASE ~Exists(i)
  <2>1. /\ account' = [account EXCEPT ![i] = AccountRow(nextId, w, "COMPOSIO", cred, None)]
        /\ nextId' = nextId + 1 /\ collided' = collided
    BY <1>4 DEF SaveComposio, Fresh
  <2>2. PICK a : a = AccountRow(nextId, w, "COMPOSIO", cred, None)
    OBVIOUS
  <2>3. cred \in [ws : Workspaces, kind : {"META", "COMPOSIO"}] /\ "COMPOSIO" \in Providers
    BY <1>2 DEF Cred, Providers
  <2>4. a \in Rows /\ a.id = nextId /\ a.ws = w /\ a.provider = "COMPOSIO" /\ a.cred = cred
    BY <1>2, <2>2, <2>3, NewRow
  <2> QED
    BY <1>1, <1>2, <2>1, <2>2, <2>4, OneWritten
<1> QED
  BY <1>3, <1>4

(* A refreshed token goes to the row it was listed with, if that is there. *)
LEMMA SaveRefreshedStep == ASSUME IInv, NEW r \in Requests, SaveRefreshed(r) PROVE IInv'
<1> DEFINE i == req[r].ig
           old == req[r].row
<1>1. /\ At(r, "refreshed") /\ "refreshed" \in Steps \ {"idle"} /\ "refreshed" \in Aiming
      /\ Finish(r) /\ UNCHANGED <<connection, remote, nextId, made, collided>>
  BY DEF SaveRefreshed, Steps, Aiming
<1>2. /\ i \in Instagram /\ old \in Rows /\ collided \subseteq Instagram
      /\ account[i] \in Rows \cup {NoRow} /\ account \in [Instagram -> Rows \cup {NoRow}]
      /\ account[i].id = old.id =>
           /\ account[i].ws = old.ws /\ account[i].provider = "META"
           /\ i \notin collided => old.cred = Cred(old.ws, "META")
  BY <1>1, AtStep, RecordFields DEF IInv, TypeOK, Knows, Refreshing
<1>3. CASE Exists(i) /\ account[i].id = old.id
  <2>1. account' = [account EXCEPT ![i].cred = old.cred] /\ account[i] \in Rows
    BY <1>2, <1>3 DEF SaveRefreshed, Exists
  <2>2. PICK a : a = [account[i] EXCEPT !.cred = old.cred]
    OBVIOUS
  <2>3. /\ a \in Rows /\ a.id = account[i].id /\ a.ws = account[i].ws /\ a.cred = old.cred
        /\ a.provider = account[i].provider
    BY <1>2, <2>1, <2>2 DEF Rows
  <2>4. account' = [account EXCEPT ![i] = a]
    BY <1>2, <2>1, <2>2
  <2>5. i \notin collided => a.cred = Cred(a.ws, a.provider)
    BY <1>2, <1>3, <2>3
  <2> QED
    BY <1>1, <1>2, <1>3, <2>3, <2>4, <2>5, OneWritten
<1>4. CASE ~(Exists(i) /\ account[i].id = old.id)
  <2>1. account' = account
    BY <1>4 DEF SaveRefreshed
  <2> QED
    BY <1>1, <2>1, Ended DEF Data
<1> QED
  BY <1>3, <1>4

(* A disconnection removes rows, whatever was under way for them.          *)
LEMMA DisconnectStep ==
  ASSUME IInv, NEW r \in Requests, NEW chosen, Disconnect(r, chosen)
  PROVE  IInv'
<1>1. /\ Finish(r) /\ UNCHANGED <<connection, remote, nextId, made>>
      /\ collided' = {i \in collided : account'[i] # NoRow}
      /\ collided \subseteq Instagram /\ nextId \in Nat
      /\ account \in [Instagram -> Rows \cup {NoRow}]
  BY DEF Disconnect, IInv, TypeOK
<1>2. /\ account' \in [Instagram -> Rows \cup {NoRow}]
      /\ \A i \in Instagram : account'[i] = NoRow \/ account'[i] = account[i]
  BY <1>1 DEF Disconnect
<1>3. Lineage
  BY <1>1, <1>2 DEF Lineage
<1>4. \A i \in Instagram : Fits(i)
  BY FitsAll DEF IInv, Numbered
<1>5. ASSUME NEW i \in Instagram PROVE Fits(i)'
  BY <1>1, <1>2, <1>4 DEF Fits, Exists, NoRow, NoConnection, Cred
<1>6. ASSUME NEW w \in Workspaces PROVE Imports(w)' \subseteq Imports(w)
  BY <1>2 DEF Imports, Exists, NoRow
<1> QED
  BY <1>1, <1>2, <1>3, <1>5, <1>6, AccountsWritten

(* An import writes its own row or takes a free one, in the profile that   *)
(* the connection has under the lock.                                      *)
LEMMA SaveImportStep == ASSUME IInv, NEW r \in Requests, SaveImport(r) PROVE IInv'
<1> DEFINE i == req[r].ig
           w == req[r].ws
           profile == req[r].conn.profile
<1>1. /\ At(r, "imported") /\ "imported" \in Steps \ {"idle"} /\ "imported" \in Aiming
      /\ Finish(r) /\ UNCHANGED <<connection, remote, made, collided>>
  BY DEF SaveImport, Steps, Aiming
<1>2. /\ i \in Instagram /\ w \in Workspaces /\ collided \subseteq Instagram
      /\ account[i] \in Rows \cup {NoRow} /\ account \in [Instagram -> Rows \cup {NoRow}]
  BY <1>1, AtStep DEF IInv, TypeOK
<1>3. /\ lock[w] = {r} /\ connection[w] # NoConnection /\ connection[w].profile = profile
      /\ profile \in Profiles /\ profile # None
  <2>1. /\ req[r].pc = "imported" /\ req[r] \in RequestRecords /\ Connected(r, req[r])
    BY <1>1, AtStep DEF Knows
  <2>2. req[r].conn \in ConnectionRows
    BY <2>1, RecordFields DEF Connected
  <2> QED
    BY <2>1, <2>2 DEF Connected, Holding, ConnectionRows
<1>4. CASE account' = account /\ nextId' = nextId
  BY <1>1, <1>4, Ended DEF Data
<1>5. CASE /\ req[r].row # NoRow /\ account[i].id = req[r].row.id /\ ~Foreign(i, w, "ZERNIO")
           /\ account' = [account EXCEPT ![i].profile = profile] /\ nextId' = nextId
  <2>1. req[r].row \in Rows
    BY <1>1, <1>5, AtStep, RecordFields
  <2>2. account[i] \in Rows /\ Exists(i) /\ account[i].ws = w /\ account[i].provider = "ZERNIO"
    BY <1>2, <1>5, <2>1, RowsAre DEF Foreign, Exists
  <2>3. PICK a : a = [account[i] EXCEPT !.profile = profile]
    OBVIOUS
  <2>4. /\ a \in Rows /\ a.id = account[i].id /\ a.ws = account[i].ws /\ a.profile = profile
        /\ a.provider = account[i].provider
    BY <1>3, <2>2, <2>3 DEF Rows
  <2>5. account' = [account EXCEPT ![i] = a]
    BY <1>2, <1>5, <2>3
  <2>6. a.provider = "ZERNIO" /\ a.ws = w
    BY <2>2, <2>4
  <2> HIDE DEF i, w, profile
  <2> QED
    BY <1>1, <1>2, <1>3, <1>5, <2>2, <2>4, <2>5, <2>6, OneWritten
<1>6. CASE /\ nextId' = nextId + 1
           /\ account' = [account EXCEPT ![i] = AccountRow(nextId, w, "ZERNIO", None, profile)]
  <2>1. PICK a : a = AccountRow(nextId, w, "ZERNIO", None, profile)
    OBVIOUS
  <2>2. "ZERNIO" \in Providers
    BY DEF Providers
  <2>3. a \in Rows /\ a.id = nextId /\ a.ws = w /\ a.provider = "ZERNIO" /\ a.profile = profile
    BY <1>2, <1>3, <2>1, <2>2, NewRow
  <2> HIDE DEF i, w, profile
  <2> QED
    BY <1>1, <1>2, <1>3, <1>6, <2>1, <2>3, OneWritten
<1> QED
  BY <1>4, <1>5, <1>6 DEF SaveImport, Fresh

-----------------------------------------------------------------------------
(* The steps that write the connection.                                    *)

(* A request that nobody's lock excludes writes its workspace's connection *)
(* and ends: what was imported and the webhook it notes have to fit it.    *)
LEMMA ConnectionWritten ==
  ASSUME IInv, NEW r \in Requests, Finish(r), UNCHANGED <<account, remote, made, collided>>,
         nextId' \in Nat, nextId' >= nextId,
         NEW w \in Workspaces, NEW c \in ConnectionRows \cup {NoConnection},
         connection' = [connection EXCEPT ![w] = c], lock[w] \in {{}, {r}},
         \A i \in Imports(w) : c # NoConnection /\ c.profile = account[i].profile,
         c # NoConnection => \A h \in remote : h.ws = w /\ h.id = c.hook => h.secret = c.born
  PROVE  IInv'
<1>1. /\ TypeOK /\ nextId \in Nat \ {0} /\ nextId' \in Nat \ {0}
      /\ account \in [Instagram -> Rows \cup {NoRow}]
      /\ connection' \in [Workspaces -> ConnectionRows \cup {NoConnection}] /\ connection'[w] = c
      /\ \A v \in Workspaces \ {w} : connection'[v] = connection[v]
  BY DEF IInv, TypeOK
<1>2. TypeOK'
  BY <1>1, Finished DEF TypeOK
<1>3. Spared(r)
  <2> SUFFICES ASSUME NEW v \in Workspaces, NEW s \in Requests \ {r}, lock[v] = {s}
               PROVE  /\ lock'[v] = {s} /\ connection'[v] = connection[v]
                      /\ Imports(v)' \subseteq Imports(v)
    BY DEF Spared, Imports
  <2>1. lock'[v] = {s} /\ Imports(v)' = Imports(v)
    BY Finished DEF Imports, Exists, NoRow
  <2>2. v # w
    OBVIOUS
  <2> QED
    BY <1>1, <2>1, <2>2
<1>4. Lineage
  BY <1>1 DEF Lineage
<1>5. AccountsAreBacked'
  <2>1. CredentialsFit'
    BY DEF IInv, AccountsAreBacked, CredentialsFit, Exists, NoRow, Cred
  <2>2. ASSUME NEW i \in Instagram, account[i] # NoRow, account[i].provider = "ZERNIO"
        PROVE  /\ connection'[account[i].ws] # NoConnection
               /\ connection'[account[i].ws].profile = account[i].profile
    <3>1. account[i].ws \in Workspaces
      BY <1>1, <2>2 DEF Rows
    <3>2. CASE account[i].ws = w
      BY <1>1, <2>2, <3>2 DEF Imports, Exists
    <3>3. CASE account[i].ws # w
      BY <1>1, <2>2, <3>1, <3>3 DEF IInv, AccountsAreBacked, ImportsHaveConnection, Exists
    <3> QED
      BY <3>2, <3>3
  <2> QED
    BY <2>1, <2>2 DEF AccountsAreBacked, ImportsHaveConnection, Exists, NoRow, NoConnection
<1>6. WebhookVerifies'
  <2>1. ASSUME NEW h \in remote, connection'[h.ws] # NoConnection, connection'[h.ws].hook = h.id
        PROVE  h.secret = connection'[h.ws].born
    <3>1. h.ws \in Workspaces
      BY DEF IInv, TypeOK
    <3> QED
      BY <1>1, <2>1, <3>1 DEF IInv, WebhookVerifies
  <2> QED
    BY <2>1 DEF IInv, WebhookVerifies, NoConnection
<1>7. Numbered'
  <2>1. (\A i \in Instagram : account[i].id < nextId') /\ (\A h \in remote : h.id < nextId')
    <3>1. /\ \A i \in Instagram : account[i].id \in Nat /\ account[i].id < nextId
          /\ \A h \in remote : h.id \in Nat /\ h.id < nextId
      BY <1>1, RowsAre DEF IInv, TypeOK, Numbered
    <3> QED
      BY <1>1, <3>1
  <2> QED
    BY <2>1 DEF IInv, Numbered, Exists, NoRow
<1> QED
  BY <1>2, <1>3, <1>4, <1>5, <1>6, <1>7, Finished, IdleIs, Stepped

(* A new connection notes no webhook, and nothing was imported without one.*)
LEMMA SaveKeyStep == ASSUME IInv, NEW r \in Requests, SaveKey(r) PROVE IInv'
<1> DEFINE w == req[r].ws
<1>1. /\ At(r, "key") /\ "key" \in Steps \ {"idle"} /\ lock[w] = {}
      /\ Finish(r) /\ UNCHANGED <<account, remote, made, collided>>
  BY DEF SaveKey, Steps
<1>2. w \in Workspaces /\ req[r].arg \in Keys /\ nextId \in Nat \ {0}
  BY <1>1, AtStep DEF Knows, Aimed, IInv, TypeOK
<1>3. CASE UNCHANGED <<connection, nextId>>
  BY <1>1, <1>3, Ended DEF Data
<1>4. CASE ~UNCHANGED <<connection, nextId>>
  <2>1. /\ Own(r) = NoConnection /\ nextId' = nextId + 1
        /\ connection' = [connection EXCEPT ![w] =
             [born |-> nextId, key |-> req[r].arg, profile |-> None, hook |-> 0]]
    BY <1>4 DEF SaveKey, Fresh
  <2>2. PICK c : c = [born |-> nextId, key |-> req[r].arg, profile |-> None, hook |-> 0]
    OBVIOUS
  <2>3. c \in ConnectionRows /\ c.hook = 0
    BY <1>2, <2>2 DEF ConnectionRows
  <2>4. Imports(w) = {}
    BY <1>2, <2>1 DEF Imports, Own, IInv, AccountsAreBacked, ImportsHaveConnection
  <2>5. \A h \in remote : h.id # 0
    BY DEF IInv, TypeOK
  <2>6. nextId' \in Nat /\ nextId' >= nextId
    BY <1>2, <2>1
  <2>7. connection' = [connection EXCEPT ![w] = c]
    BY <2>1, <2>2
  <2> HIDE DEF w
  <2> QED
    BY <1>1, <1>2, <2>3, <2>4, <2>5, <2>6, <2>7, ConnectionWritten
<1> QED
  BY <1>3, <1>4

(* What is settled is what was cleared under the lock.                     *)
LEMMA SettleProfileStep == ASSUME IInv, NEW r \in Requests, SettleProfile(r) PROVE IInv'
<1> DEFINE w == req[r].ws
           old == connection[w]
<1>1. /\ At(r, "settle") /\ "settle" \in Steps \ {"idle"} /\ Finish(r)
      /\ UNCHANGED <<account, remote, nextId, made, collided>> /\ nextId \in Nat
      /\ connection \in [Workspaces -> ConnectionRows \cup {NoConnection}]
      /\ connection' = [connection EXCEPT ![w].profile = req[r].arg, ![w].hook = req[r].hook]
  BY DEF SettleProfile, Steps, IInv, TypeOK
<1>2. /\ req[r].pc = "settle" /\ req[r] \in RequestRecords /\ w \in Workspaces
      /\ Aimed(req[r]) /\ Connected(r, req[r]) /\ Cleared(req[r])
  BY <1>1, AtStep DEF Knows
<1>3. /\ req[r].arg \in Profiles /\ lock[w] = {r} /\ old \in ConnectionRows
      /\ req[r].conn = old /\ req[r].hook \in Nat
  BY <1>1, <1>2, RecordFields DEF Aimed, Connected, Holding, Managing
<1>4. /\ Imports(w) = {} \/ old.profile = req[r].arg
      /\ \A h \in remote : h.id = req[r].hook /\ h.ws = w => h.secret = old.born
  BY <1>2, <1>3 DEF Cleared
<1>5. PICK c : c = [old EXCEPT !.profile = req[r].arg, !.hook = req[r].hook]
  OBVIOUS
<1>6. c \in ConnectionRows /\ c.profile = req[r].arg /\ c.hook = req[r].hook /\ c.born = old.born
  BY <1>3, <1>5 DEF ConnectionRows
<1>7. connection' = [connection EXCEPT ![w] = c]
  BY <1>1, <1>2, <1>5
<1>8. \A i \in Imports(w) : c # NoConnection /\ c.profile = account[i].profile
  BY <1>4, <1>6, RowsAre DEF Imports, IInv, AccountsAreBacked, ImportsHaveConnection
<1>9. \A h \in remote : h.ws = w /\ h.id = c.hook => h.secret = c.born
  BY <1>4, <1>6
<1>10. nextId' \in Nat /\ nextId' >= nextId /\ lock[w] \in {{}, {r}}
  BY <1>1, <1>3
<1> HIDE DEF w, old
<1> QED
  BY <1>1, <1>2, <1>6, <1>7, <1>8, <1>9, <1>10, ConnectionWritten

(* A connection is dropped while nothing needs it.                         *)
LEMMA DropConnectionStep == ASSUME IInv, NEW r \in Requests, DropConnection(r) PROVE IInv'
<1>1. /\ At(r, "drop") /\ "drop" \in Steps \ {"idle"} /\ Finish(r)
      /\ UNCHANGED <<account, remote, nextId, made, collided>> /\ nextId \in Nat
      /\ connection' = [connection EXCEPT ![req[r].ws] = NoConnection]
  BY DEF DropConnection, Steps, IInv, TypeOK
<1>2. /\ req[r].ws \in Workspaces /\ lock[req[r].ws] = {r} /\ Imports(req[r].ws) = {}
  BY <1>1, AtStep DEF Knows, Connected, Cleared, Holding
<1>3. nextId' \in Nat /\ nextId' >= nextId /\ lock[req[r].ws] \in {{}, {r}}
  BY <1>1, <1>2
<1>4. \A i \in Imports(req[r].ws) :
        NoConnection # NoConnection /\ NoConnection.profile = account[i].profile
  BY <1>2
<1> QED
  BY <1>1, <1>2, <1>3, <1>4, ConnectionWritten

-----------------------------------------------------------------------------
(* The steps that write webhooks.                                          *)

(* A request that holds the lock of a workspace changes its webhooks only. *)
LEMMA WebhooksWritten ==
  ASSUME IInv, NEW r \in Requests, UNCHANGED <<account, connection, made, collided>>,
         nextId' \in Nat, nextId' >= nextId,
         NEW w \in Workspaces, lock[w] = {r},
         remote' \subseteq [id : Nat \ {0}, key : Keys, ws : Workspaces, secret : Nat \ {0}],
         \A h \in remote' : h.id < nextId' /\ (h.ws # w => h \in remote),
         \A g, h \in remote' : g.id = h.id => g = h,
         WebhookVerifies',
         UNCHANGED lock \/ lock' = [v \in Workspaces |-> lock[v] \ {r}],
         NEW q \in RequestRecords, req' = [req EXCEPT ![r] = q], Knows(r, q)'
  PROVE  IInv'
<1>1. /\ nextId \in Nat \ {0} /\ nextId' \in Nat \ {0}
      /\ account \in [Instagram -> Rows \cup {NoRow}]
  BY DEF IInv, TypeOK
<1>2. /\ lock' \in [Workspaces -> SUBSET Requests]
      /\ \A v \in Workspaces : \A s \in Requests \ {r} : lock[v] = {s} => lock'[v] = {s}
  BY LockSpared
<1>3. TypeOK'
  BY <1>1, <1>2 DEF IInv, TypeOK
<1>4. Spared(r)
  <2>1. \A v : Imports(v)' = Imports(v)
    BY DEF Imports, Exists, NoRow
  <2>2. ASSUME NEW v \in Workspaces, NEW s \in Requests \ {r}, lock[v] = {s} PROVE v # w
    BY <2>2
  <2> QED
    BY <1>2, <2>1, <2>2 DEF Spared
<1>5. Lineage
  BY <1>1 DEF Lineage
<1>6. AccountsAreBacked'
  BY DEF IInv, AccountsAreBacked, CredentialsFit, ImportsHaveConnection, Exists, NoRow,
         NoConnection, Cred
<1>7. Numbered'
  <2>1. \A i \in Instagram : account[i].id < nextId'
    <3>1. \A i \in Instagram : account[i].id \in Nat /\ account[i].id < nextId
      BY <1>1, RowsAre DEF IInv, Numbered
    <3> QED
      BY <1>1, <3>1
  <2> QED
    BY <2>1 DEF IInv, Numbered, Exists, NoRow
<1> QED
  BY <1>3, <1>4, <1>5, <1>6, <1>7, Stepped

(* The one webhook of the workspace under the connection's key is written, *)
(* in place or as the only one.                                            *)
LEMMA Hooked ==
  ASSUME IInv, NEW r \in Requests, At(r, "ensure"),
         UNCHANGED <<account, connection, made, collided>>,
         NEW h, h \in [id : Nat \ {0}, key : Keys, ws : Workspaces, secret : Nat \ {0}],
         h.key = req[r].conn.key, h.ws = req[r].ws, h.secret = req[r].conn.born,
         remote' = (remote \ Ours(r)) \cup {h},
         \/ nextId' = nextId /\ \E g \in Ours(r) : g.id = h.id
         \/ nextId' = nextId + 1 /\ h.id = nextId,
         \/ req' = [req EXCEPT ![r].pc = "settle", ![r].hook = h.id] /\ UNCHANGED lock
         \/ Finish(r)
  PROVE  IInv'
<1> DEFINE w == req[r].ws
<1>1. /\ "ensure" \in Steps \ {"idle"} /\ nextId \in Nat \ {0} /\ "settle" \in Steps
      /\ remote \subseteq [id : Nat \ {0}, key : Keys, ws : Workspaces, secret : Nat \ {0}]
  BY DEF Steps, IInv, TypeOK
<1>2. /\ req[r].pc = "ensure" /\ req[r] \in RequestRecords /\ w \in Workspaces
      /\ req \in [Requests -> RequestRecords]
      /\ Aimed(req[r]) /\ Connected(r, req[r]) /\ Cleared(req[r])
  BY <1>1, AtStep DEF Knows
<1>3. lock[w] = {r} /\ connection[w] # NoConnection /\ req[r].conn = connection[w]
  BY <1>2 DEF Connected, Holding, Managing
<1>4. /\ \A g \in remote : g.id < nextId /\ g.id \in Nat
      /\ \A f, g \in remote : f.id = g.id => f = g
      /\ \A f, g \in remote : f.key = g.key /\ f.ws = g.ws => f = g
  BY <1>1 DEF IInv, Numbered, WebhookVerifies
<1>5. \A g \in remote \ Ours(r) : g.key # h.key \/ g.ws # h.ws
  BY DEF Ours
<1>6. \A g \in remote \ Ours(r) : g.id # h.id
  <2>1. CASE nextId' = nextId /\ \E g \in Ours(r) : g.id = h.id
    BY <1>4, <2>1 DEF Ours
  <2>2. CASE nextId' = nextId + 1 /\ h.id = nextId
    BY <1>1, <1>4, <2>2
  <2> QED
    BY <2>1, <2>2
<1>7. nextId' \in Nat /\ nextId' >= nextId
  BY <1>1
<1>8. /\ remote' \subseteq [id : Nat \ {0}, key : Keys, ws : Workspaces, secret : Nat \ {0}]
      /\ \A g \in remote' : g.id < nextId' /\ (g.ws # w => g \in remote)
  <2>1. h.id < nextId'
    BY <1>1, <1>4 DEF Ours
  <2>2. \A g \in remote : g.id < nextId'
    BY <1>1, <1>4
  <2> QED
    BY <1>1, <2>1, <2>2
<1>9. \A f, g \in remote' : f.id = g.id => f = g
  BY <1>4, <1>6
<1>10. WebhookVerifies'
  <2>1. \A f, g \in remote' : f.key = g.key /\ f.ws = g.ws => f = g
    BY <1>4, <1>5
  <2>2. ASSUME NEW g \in remote', connection[g.ws] # NoConnection, connection[g.ws].hook = g.id
        PROVE  g.secret = connection[g.ws].born
    <3>1. CASE g = h
      BY <1>3, <3>1
    <3>2. CASE g \in remote
      BY <2>2, <3>2 DEF IInv, WebhookVerifies
    <3> QED
      BY <3>1, <3>2
  <2> QED
    BY <2>1, <2>2 DEF WebhookVerifies, NoConnection
<1>11. CASE Finish(r)
  BY <1>2, <1>3, <1>7, <1>8, <1>9, <1>10, <1>11, Finished, IdleIs, WebhooksWritten
<1>12. CASE req' = [req EXCEPT ![r].pc = "settle", ![r].hook = h.id] /\ UNCHANGED lock
  <2>1. PICK q : /\ req' = [req EXCEPT ![r] = q]
                 /\ q = [req[r] EXCEPT !.pc = "settle", !.hook = h.id]
    BY <1>2, <1>12
  <2>2. /\ q \in RequestRecords /\ q.pc = "settle" /\ q.ws = w /\ q.conn = req[r].conn
        /\ q.arg = req[r].arg /\ q.hook = h.id
    BY <1>1, <1>2, <2>1 DEF RequestRecords
  <2>3. q.arg \in Profiles /\ (Imports(w) = {} \/ q.conn.profile = q.arg)
    BY <1>2, <2>2 DEF Aimed, Cleared
  <2>4. Imports(q.ws)' = Imports(w)
    BY <2>2 DEF Imports, Exists, NoRow
  <2>5. \A g \in remote' : g.id = q.hook /\ g.ws = q.ws => g.secret = q.conn.born
    BY <1>6, <2>2
  <2>6. Knows(r, q)'
    BY <1>2, <1>3, <1>12, <2>2, <2>3, <2>4, <2>5
       DEF Knows, Aimed, Aiming, Connected, Cleared, Refreshing, Managing, NoConnection
  <2> QED
    BY <1>2, <1>3, <1>7, <1>8, <1>9, <1>10, <1>12, <2>1, <2>2, <2>6, WebhooksWritten
<1> QED
  BY <1>11, <1>12

(* The webhook is found by its id, or by its workspace's URL, or made.     *)
LEMMA EnsureWebhookStep == ASSUME IInv, NEW r \in Requests, EnsureWebhook(r) PROVE IInv'
<1>1. /\ At(r, "ensure") /\ "ensure" \in Steps \ {"idle"} /\ nextId \in Nat \ {0}
      /\ UNCHANGED <<account, connection, made, collided>>
      /\ remote \subseteq [id : Nat \ {0}, key : Keys, ws : Workspaces, secret : Nat \ {0}]
  BY DEF EnsureWebhook, Steps, IInv, TypeOK
<1>2. req[r].ws \in Workspaces /\ req[r].conn \in ConnectionRows
  BY <1>1, AtStep, RowsAre DEF Knows, Connected, Holding, Managing, Own
<1>3. req[r].conn.key \in Keys /\ req[r].conn.born \in Nat \ {0}
  BY <1>2 DEF ConnectionRows
<1>4. CASE \E h \in Ours(r) :
             /\ remote' = (remote \ {h}) \cup {[h EXCEPT !.secret = req[r].conn.born]}
             /\ \/ req' = [req EXCEPT ![r].pc = "settle", ![r].hook = h.id] /\ UNCHANGED lock
                \/ Finish(r)
             /\ UNCHANGED nextId
  <2>1. PICK h \in Ours(r) :
          /\ remote' = (remote \ {h}) \cup {[h EXCEPT !.secret = req[r].conn.born]}
          /\ \/ req' = [req EXCEPT ![r].pc = "settle", ![r].hook = h.id] /\ UNCHANGED lock
             \/ Finish(r)
          /\ UNCHANGED nextId
    BY <1>4
  <2>2. h \in remote /\ h.key = req[r].conn.key /\ h.ws = req[r].ws
    BY DEF Ours
  <2>3. Ours(r) = {h}
    BY <2>2 DEF Ours, IInv, WebhookVerifies
  <2>4. PICK g : g = [h EXCEPT !.secret = req[r].conn.born]
    OBVIOUS
  <2>5. /\ g \in [id : Nat \ {0}, key : Keys, ws : Workspaces, secret : Nat \ {0}]
        /\ g.key = h.key /\ g.ws = h.ws /\ g.id = h.id /\ g.secret = req[r].conn.born
    BY <1>1, <1>3, <2>2, <2>4
  <2>6. remote' = (remote \ Ours(r)) \cup {g}
    BY <2>1, <2>3, <2>4
  <2>7. /\ nextId' = nextId /\ \E f \in Ours(r) : f.id = g.id
        /\ \/ req' = [req EXCEPT ![r].pc = "settle", ![r].hook = g.id] /\ UNCHANGED lock
           \/ Finish(r)
    BY <2>1, <2>5
  <2> QED
    BY <1>1, <2>2, <2>5, <2>6, <2>7, Hooked
<1>5. CASE /\ Ours(r) = {} /\ Fresh
           /\ remote' = remote \cup {[id |-> nextId, key |-> req[r].conn.key,
                                      ws |-> req[r].ws, secret |-> req[r].conn.born]}
           /\ \/ req' = [req EXCEPT ![r].pc = "settle", ![r].hook = nextId] /\ UNCHANGED lock
              \/ Finish(r)
  <2>1. PICK g : g = [id |-> nextId, key |-> req[r].conn.key,
                      ws |-> req[r].ws, secret |-> req[r].conn.born]
    OBVIOUS
  <2>2. /\ g \in [id : Nat \ {0}, key : Keys, ws : Workspaces, secret : Nat \ {0}]
        /\ g.key = req[r].conn.key /\ g.ws = req[r].ws /\ g.id = nextId
        /\ g.secret = req[r].conn.born
    BY <1>1, <1>2, <1>3, <2>1
  <2>3. remote' = (remote \ Ours(r)) \cup {g} /\ nextId' = nextId + 1
    BY <1>5, <2>1 DEF Fresh
  <2>4. \/ req' = [req EXCEPT ![r].pc = "settle", ![r].hook = g.id] /\ UNCHANGED lock
        \/ Finish(r)
    BY <1>5, <2>2
  <2> QED
    BY <1>1, <2>2, <2>3, <2>4, Hooked
<1> QED
  BY <1>4, <1>5 DEF EnsureWebhook

(* Removing a webhook disturbs no other.                                   *)
LEMMA UnhookStep == ASSUME IInv, NEW r \in Requests, Unhook(r) PROVE IInv'
<1> DEFINE w == req[r].ws
<1>1. /\ At(r, "unhook") /\ "unhook" \in Steps \ {"idle"} /\ "drop" \in Steps
      /\ UNCHANGED <<account, connection, nextId, made, collided>> /\ nextId \in Nat
      /\ remote' = {h \in remote : h \notin Ours(r) \/ h.id # req[r].conn.hook}
      /\ Finish(r) \/ (Goto(r, "drop") /\ UNCHANGED lock)
  BY DEF Unhook, Steps, IInv, TypeOK
<1>2. /\ req[r].pc = "unhook" /\ req[r] \in RequestRecords /\ w \in Workspaces
      /\ req \in [Requests -> RequestRecords]
      /\ Aimed(req[r]) /\ Connected(r, req[r]) /\ Cleared(req[r])
  BY <1>1, AtStep DEF Knows
<1>3. /\ lock[w] = {r} /\ connection[w] # NoConnection /\ req[r].conn = connection[w]
      /\ Imports(w) = {}
  BY <1>2 DEF Connected, Cleared, Holding, Managing
<1>4. /\ remote' \subseteq remote /\ nextId' \in Nat /\ nextId' >= nextId
      /\ remote \subseteq [id : Nat \ {0}, key : Keys, ws : Workspaces, secret : Nat \ {0}]
  BY <1>1 DEF IInv, TypeOK
<1>5. /\ \A h \in remote' : h.id < nextId' /\ (h.ws # w => h \in remote)
      /\ \A g, h \in remote' : g.id = h.id => g = h
  BY <1>1, <1>4 DEF IInv, Numbered
<1>6. WebhookVerifies'
  BY <1>1, <1>4 DEF IInv, WebhookVerifies, NoConnection
<1>7. CASE Finish(r)
  BY <1>1, <1>2, <1>3, <1>4, <1>5, <1>6, <1>7, Finished, IdleIs, WebhooksWritten
<1>8. CASE Goto(r, "drop") /\ UNCHANGED lock
  <2>1. PICK q : req' = [req EXCEPT ![r] = q] /\ q = [req[r] EXCEPT !.pc = "drop"]
    BY <1>2, <1>8 DEF Goto
  <2>2. /\ q \in RequestRecords /\ q.pc = "drop" /\ q.ws = w /\ q.conn = req[r].conn
    BY <1>1, <1>2, <2>1 DEF RequestRecords
  <2>3. Imports(q.ws)' = {}
    BY <1>1, <1>3, <2>2 DEF Imports, Exists, NoRow
  <2>4. Knows(r, q)'
    BY <1>1, <1>2, <1>3, <1>8, <2>2, <2>3
       DEF Knows, Aimed, Aiming, Connected, Cleared, Refreshing, Managing, NoConnection
  <2> QED
    BY <1>1, <1>2, <1>3, <1>4, <1>5, <1>6, <1>8, <2>1, <2>2, <2>4, WebhooksWritten
<1> QED
  BY <1>1, <1>7, <1>8

-----------------------------------------------------------------------------
(* The theorems.                                                           *)

(* At first there is nothing.                                              *)
LEMMA InitInv == Init => IInv
<1> SUFFICES ASSUME Init PROVE IInv
  OBVIOUS
<1>1. \A i \in Instagram : ~Exists(i) /\ account[i].id = 0
  BY RowsAre DEF Init, Exists
<1>2. TypeOK
  BY IdleIs DEF Init, TypeOK
<1>3. AccountsAreBacked /\ WebhookVerifies
  BY <1>1 DEF Init, AccountsAreBacked, CredentialsFit, ImportsHaveConnection, WebhookVerifies
<1>4. Numbered
  BY <1>1 DEF Init, Numbered
<1> QED
  BY <1>2, <1>3, <1>4, IdleIs DEF Init, IInv

(* Every step of every request keeps it.                                   *)
LEMMA InvStep == IInv /\ [Next]_vars => IInv'
<1> SUFFICES ASSUME IInv, [Next]_vars PROVE IInv'
  OBVIOUS
<1>1. ASSUME NEW r \in Requests, Arrive(r) PROVE IInv'
  BY <1>1, ArriveStep
<1>2. ASSUME NEW r \in Requests, RequestStep(r) PROVE IInv'
  BY <1>2, CheckStep, SaveMetaStep, SaveComposioStep, DisconnectStep, ListToRefreshStep,
     SaveRefreshedStep, SaveKeyStep, LockForProfileStep, EnsureWebhookStep, SettleProfileStep,
     LockForRemovalStep, UnhookStep, DropConnectionStep, LoadConnectionStep, LockForImportStep,
     SaveImportStep, RefusedStep
     DEF RequestStep
<1>3. ASSUME UNCHANGED vars PROVE IInv'
  <2>1. /\ account' = account /\ connection' = connection /\ remote' = remote /\ lock' = lock
        /\ nextId' = nextId /\ made' = made /\ req' = req /\ collided' = collided
    BY <1>3 DEF vars
  <2>2. TypeOK' /\ AccountsAreBacked' /\ WebhookVerifies' /\ Numbered'
    BY <2>1 DEF IInv, TypeOK, AccountsAreBacked, CredentialsFit, ImportsHaveConnection,
                WebhookVerifies, Numbered, Exists, NoRow, NoConnection, Cred
  <2>3. ASSUME NEW r \in Requests PROVE Knows(r, req[r])'
    <3>1. Knows(r, req[r]) /\ Imports(req[r].ws)' = Imports(req[r].ws)
      BY <2>1 DEF IInv, Imports, Exists, NoRow
    <3> QED
      BY <2>1, <3>1 DEF Knows, Aimed, Connected, Cleared, Refreshing, NoConnection, NoRow, Cred
  <2> QED
    BY <2>2, <2>3 DEF IInv
<1> QED
  BY <1>1, <1>2, <1>3 DEF Next, Done

LEMMA Invariance == Spec => []IInv
<1>1. Init => IInv
  BY InitInv
<1>2. IInv /\ [Next]_vars => IInv'
  BY InvStep
<1> QED
  BY <1>1, <1>2, PTL DEF Spec

(* The accounts, connections, webhooks, locks and requests stay what their *)
(* types say.                                                              *)
THEOREM TypeCorrect == Spec => []TypeOK
<1>1. IInv => TypeOK
  BY DEF IInv
<1> QED
  BY <1>1, Invariance, PTL

(* Every connected account works with a credential of its own workspace    *)
(* and provider, and every imported one has the connection of its profile, *)
(* however callbacks, imports, refreshes and removals interleave and fail. *)
THEOREM AccountsBacked == Spec => []AccountsAreBacked
<1>1. IInv => AccountsAreBacked
  BY DEF IInv
<1> QED
  BY <1>1, Invariance, PTL

(* A workspace has one webhook per key at Zernio, and the one its          *)
(* connection knows signs with the connection's secret, wherever answers   *)
(* of the remote calls are lost.                                           *)
THEOREM WebhooksVerify == Spec => []WebhookVerifies
<1>1. IInv => WebhookVerifies
  BY DEF IInv
<1> QED
  BY <1>1, Invariance, PTL

-----------------------------------------------------------------------------
(* FollowerHistory.                                                        *)

(* Every nonempty set of numbers has a least one.                          *)
LEMMA LeastExists ==
  ASSUME NEW T \in SUBSET Nat, T # {}
  PROVE  \E x \in T : \A y \in T : x <= y
<1>1. IsWellFoundedOn(OpToRel(<, Nat), Nat)
  BY NatLessThanWellFounded
<1>2. PICK x \in T : \A y \in T : ~ (<<y, x>> \in OpToRel(<, Nat))
  BY <1>1, WFMin
<1>3. \A y \in T : ~ (y < x)
  BY <1>2 DEF OpToRel
<1> QED
  BY <1>3

RunSteps == {"idle", "info", "record", "count", "series", "observed", "write"}

(* The totals a run works with, by their days.                             *)
Points == [day : Days, n : Int]

RunRecords ==
  [pc : RunSteps, count : Nat, recorded : Nat, points : SUBSET Points, day : Nat, same : BOOLEAN,
   truth : SUBSET Points]

(* Every variable of the history has its type.                             *)
HistoryTyped ==
  /\ provider \in {"META", "ZERNIO"} /\ today \in Days /\ total \in Nat
  /\ ends \in [0 .. today - 1 -> Nat]
  /\ snap \in [Days -> [n : Int, backfilled : BOOLEAN]]
  /\ run \in [Runs -> RunRecords]

(* A run that has recorded has a row, of a day not to come; a Zernio       *)
(* account's runs record nothing.                                          *)
Recorded(q) ==
  IF provider = "META"
  THEN q.pc \in {"count", "series", "observed", "write"} =>
         q.recorded \in Days /\ q.recorded <= today /\ snap[q.recorded] # NoSnap
  ELSE q.pc \in {"idle", "series", "observed", "write"} /\ q.recorded = 0

(* What a run has read is of days up to its reading; and of those it will  *)
(* write none is its own, and none was observed but the last one, if so    *)
(* since it looked.                                                        *)
HasRead(q) ==
  /\ q.pc \in {"observed", "write"} =>
       /\ q.day <= today /\ \A p \in q.points : p.day <= q.day
       /\ q.same => q.points \subseteq q.truth
  /\ q.pc = "write" =>
       \A p \in q.points : p.day # q.recorded /\ (Observed(p.day) => p.day = q.day)

(* The runs that found no row but their own found the same one, and it     *)
(* stays observed.                                                         *)
Past(q) == q.pc \in {"series", "observed", "write"}
SameRow ==
  provider = "META" =>
    /\ \A r \in Runs : Past(run[r]) => Observed(run[r].recorded)
    /\ \A r, s \in Runs : Past(run[r]) /\ Past(run[s]) => run[r].recorded = run[s].recorded

(* The first row is an observed one, or none is.                           *)
Anchored ==
  IF provider = "META"
  THEN (\E d \in Days : snap[d] # NoSnap) => \E d \in Days : Observed(d)
  ELSE \A d \in Days : ~ Observed(d)

HistoryInv ==
  /\ HistoryTyped /\ SameRow /\ Anchored
  /\ \A r \in Runs : Recorded(run[r]) /\ HasRead(run[r])

(* The loop over the changes finds the totals they are the changes of, all *)
(* off by as much as the present total is.                                 *)
LEMMA RunningIs ==
  ASSUME NEW last \in Nat \ {0}, NEW T \in [1 .. last -> Int], NEW now \in Int, NEW series,
         \A d \in 2 .. last : series[d] = T[d] - T[d - 1]
  PROVE  \A d \in 1 .. last : Followers!Running(series, last, now)[d] = now - T[last] + T[d]
<1> DEFINE W == [d \in 1 .. last |-> now - T[last] + T[d]]
           R == Followers!Running(series, last, now)
<1>1. W = [d \in 1 .. last |-> IF d = last THEN now ELSE W[d + 1] - series[d + 1]]
  <2>1. ASSUME NEW d \in 1 .. last
        PROVE  W[d] = IF d = last THEN now ELSE W[d + 1] - series[d + 1]
    <3>1. CASE d = last
      BY <3>1
    <3>2. CASE d # last
      <4>1. d + 1 \in 2 .. last /\ d + 1 - 1 = d
        BY <3>2
      <4> QED
        BY <3>2, <4>1
    <3> QED
      BY <3>1, <3>2
  <2> QED
    BY <2>1
<1>2. R = [d \in 1 .. last |-> IF d = last THEN now ELSE R[d + 1] - series[d + 1]]
  <2>1. R = CHOOSE f : f = [d \in 1 .. last |-> IF d = last THEN now ELSE f[d + 1] - series[d + 1]]
    BY DEF Followers!Running
  <2> HIDE DEF R, W
  <2> QED
    BY <1>1, <2>1
<1> DEFINE Bad == {k \in 0 .. last - 1 : R[last - k] # W[last - k]}
<1>3. Bad = {}
  <2> SUFFICES ASSUME Bad # {} PROVE FALSE
    OBVIOUS
  <2>1. PICK k \in Bad : \A j \in Bad : k <= j
    <3>1. Bad \in SUBSET Nat
      OBVIOUS
    <3> HIDE DEF Bad
    <3> QED
      BY <3>1, LeastExists
  <2>2. k \in 0 .. last - 1 /\ last - k \in 1 .. last
    OBVIOUS
  <2> HIDE DEF R
  <2>3. CASE k = 0
    BY <1>1, <1>2, <2>1, <2>2, <2>3
  <2>4. CASE k # 0
    <3>1. k - 1 \in 0 .. last - 1 /\ ~ (k <= k - 1)
      BY <2>2, <2>4
    <3>2. k - 1 \notin Bad
      <4> HIDE DEF Bad
      <4> QED
        BY <2>1, <3>1
    <3>3. R[last - (k - 1)] = W[last - (k - 1)]
      BY <3>1, <3>2
    <3>4. last - (k - 1) = last - k + 1 /\ last - k # last
      BY <2>2, <2>4
    <3>5. R[last - k] = R[last - k + 1] - series[last - k + 1]
      BY <1>2, <2>2, <3>4
    <3>6. W[last - k] = W[last - k + 1] - series[last - k + 1]
      BY <1>1, <2>2, <3>4
    <3> QED
      BY <2>1, <3>3, <3>4, <3>5, <3>6
  <2> QED
    BY <2>3, <2>4
<1> QED
  <2> SUFFICES ASSUME NEW d \in 1 .. last PROVE R[d] = W[d]
    OBVIOUS
  <2>1. last - d \in 0 .. last - 1 /\ last - (last - d) = d
    OBVIOUS
  <2> HIDE DEF R, W
  <2> QED
    BY <1>3, <2>1

(* What the rows and their history both define is the same.                *)
LEMMA FollowersIs ==
  /\ Followers!Days = Days /\ Followers!NoSnap = NoSnap
  /\ \A d : Followers!Observed(d) <=> Observed(d)
BY DEF Days, Followers!Days, NoSnap, Followers!NoSnap, Observed, Followers!Observed

(* What Instagram knows: a total for every day up to today.                *)
LEMMA TotalsTyped ==
  ASSUME HistoryTyped
  PROVE  /\ Followers!Totals \in SUBSET Points
         /\ \A p \in Followers!Totals : p.day <= today
<1>1. today \in Nat \ {0} /\ 1 .. today \subseteq Days
  BY FollowerAssumption DEF HistoryTyped, Days
<1>2. \A d \in 1 .. today : Followers!Total(d) \in Nat
  BY <1>1 DEF HistoryTyped, Followers!Total
<1> QED
  BY <1>1, <1>2 DEF Followers!Totals, Points

(* What is reconstructed has the same days, and the same totals if the     *)
(* present total is the one that was read.                                 *)
LEMMA ReconstructIs ==
  ASSUME HistoryTyped, NEW now \in Nat
  PROVE  LET points == Followers!Reconstruct(Followers!Series, today, now)
         IN  /\ points \in SUBSET Points
             /\ \A p \in points : p.day <= today
             /\ now = total => points \subseteq Followers!Totals
<1> DEFINE T == [d \in 1 .. today |-> Followers!Total(d)]
           running == Followers!Running(Followers!Series, today, now)
           points == Followers!Reconstruct(Followers!Series, today, now)
<1>1. today \in Nat \ {0} /\ 1 .. today \subseteq Days
  BY FollowerAssumption DEF HistoryTyped, Days
<1>2. \A d \in 1 .. today : T[d] \in Nat
  BY <1>1 DEF HistoryTyped, Followers!Total
<1>3. T \in [1 .. today -> Int]
  BY <1>2
<1>4. ASSUME NEW d \in 2 .. today
      PROVE  Followers!Series[d] = T[d] - T[d - 1]
  <2>1. d \in 1 .. today /\ d - 1 \in 1 .. today /\ d - 1 # today
    BY <1>1
  <2>2. T[d - 1] = ends[d - 1]
    BY <2>1 DEF Followers!Total
  <2> QED
    BY <2>1, <2>2 DEF Followers!Series
<1>5. T[today] = total
  BY <1>1 DEF Followers!Total
<1>6. \A d \in 1 .. today : running[d] = now - total + T[d]
  <2> HIDE DEF T
  <2>1. \A d \in 1 .. today :
           Followers!Running(Followers!Series, today, now)[d] = now - T[today] + T[d]
    <3>1. now \in Int
      OBVIOUS
    <3>2. \A d \in 2 .. today : Followers!Series[d] = T[d] - T[d - 1]
      BY <1>4
    <3> QED
      BY ONLY <1>1, <1>3, <3>1, <3>2, RunningIs
  <2> QED
    BY <1>5, <2>1
<1>7. \A p \in points : \E d \in 1 .. today : p = [day |-> d, n |-> running[d]]
  BY DEF Followers!Reconstruct
<1>8. total \in Nat
  BY DEF HistoryTyped
<1> HIDE DEF points, running
<1>9. ASSUME NEW p \in points PROVE p \in Points /\ p.day <= today
  BY <1>1, <1>2, <1>6, <1>7, <1>8 DEF Points
<1>10. ASSUME now = total, NEW p \in points PROVE p \in Followers!Totals
  <2>1. PICK d \in 1 .. today : p = [day |-> d, n |-> running[d]]
    BY <1>7
  <2>2. running[d] = Followers!Total(d)
    BY <1>2, <1>6, <1>8, <1>10
  <2> QED
    BY <2>1, <2>2 DEF Followers!Totals
<1> QED
  BY <1>9, <1>10 DEF points

(* At the start there is no row, and no run.                               *)
LEMMA HistoryInit == Followers!Init => HistoryInv
<1> SUFFICES ASSUME Followers!Init PROVE HistoryInv
  OBVIOUS
<1>1. /\ provider \in {"META", "ZERNIO"} /\ today = 1 /\ total \in Nat
      /\ ends \in [0 .. today - 1 -> Nat]
      /\ snap = [d \in Days |-> NoSnap]
      /\ run = [r \in Runs |-> Followers!Idle]
  BY FollowerAssumption, FollowersIs DEF Followers!Init
<1>2. Followers!Idle \in RunRecords
  BY DEF Followers!Idle, RunRecords, RunSteps
<1>3. today \in Days /\ snap \in [Days -> [n : Int, backfilled : BOOLEAN]]
  BY <1>1, FollowerAssumption DEF Days, NoSnap
<1>4. HistoryTyped
  BY <1>1, <1>2, <1>3 DEF HistoryTyped
<1>5. \A d \in Days : ~ Observed(d)
  BY <1>1 DEF Observed
<1>6. SameRow /\ Anchored
  BY <1>1, <1>5 DEF SameRow, Anchored, Past, Followers!Idle
<1>7. \A r \in Runs : Recorded(run[r]) /\ HasRead(run[r])
  BY <1>1 DEF Recorded, HasRead, Followers!Idle
<1> QED
  BY <1>4, <1>6, <1>7 DEF HistoryInv

(* A step of a run that writes no row keeps the invariant, if the run knows*)
(* and is as it should.                                                    *)
LEMMA RunStep ==
  ASSUME HistoryInv, NEW r \in Runs, NEW q \in RunRecords,
         run' = [run EXCEPT ![r] = q], UNCHANGED <<provider, today, total, ends, snap>>,
         Recorded(q), HasRead(q),
         provider = "META" /\ Past(q) =>
           /\ Observed(q.recorded)
           /\ \A s \in Runs : Past(run[s]) => run[s].recorded = q.recorded
  PROVE  HistoryInv'
<1>1. run' \in [Runs -> RunRecords] /\ run'[r] = q /\ \A s \in Runs : s # r => run'[s] = run[s]
  BY DEF HistoryInv, HistoryTyped
<1>2. HistoryTyped'
  BY <1>1 DEF HistoryInv, HistoryTyped
<1>3. SameRow'
  BY <1>1 DEF HistoryInv, SameRow, Past, Observed
<1>4. Anchored'
  BY DEF HistoryInv, Anchored, Observed
<1>5. ASSUME NEW s \in Runs PROVE Recorded(run[s])' /\ HasRead(run[s])'
  <2>1. run'[s] = q \/ run'[s] = run[s]
    BY <1>1
  <2>2. Recorded(run[s]) /\ HasRead(run[s])
    BY DEF HistoryInv
  <2> QED
    BY <2>1, <2>2 DEF Recorded, HasRead, Observed
<1> QED
  BY <1>2, <1>3, <1>4, <1>5 DEF HistoryInv

(* The end of a run, in success or failure.                                *)
LEMMA EndStep ==
  ASSUME HistoryInv, NEW r \in Runs, run' = [run EXCEPT ![r] = Followers!Idle],
         UNCHANGED <<provider, today, total, ends, snap>>
  PROVE  HistoryInv'
<1>1. Followers!Idle \in RunRecords
  BY DEF Followers!Idle, RunRecords, RunSteps
<1>2. Recorded(Followers!Idle) /\ HasRead(Followers!Idle) /\ ~ Past(Followers!Idle)
  BY DEF Recorded, HasRead, Past, Followers!Idle
<1> QED
  BY <1>1, <1>2, RunStep

(* The steps of a run up to its reading, and its looking for observed days.*)
LEMMA ReadingSteps ==
  ASSUME HistoryInv, NEW r \in Runs,
         \/ Followers!Begin(r) \/ Followers!Info(r) \/ Followers!CountRows(r)
         \/ Followers!ReadSeries(r) \/ Followers!ReadObserved(r) \/ Followers!Fail(r)
  PROVE  HistoryInv'
<1>1. run[r] \in RunRecords /\ Recorded(run[r]) /\ HasRead(run[r]) /\ HistoryTyped
  BY DEF HistoryInv, HistoryTyped
<1>2. CASE Followers!Begin(r)
  <2> DEFINE q == [run[r] EXCEPT !.pc = IF provider = "META" THEN "info" ELSE "series"]
  <2>1. /\ run[r].pc = "idle" /\ run' = [run EXCEPT ![r] = q]
        /\ UNCHANGED <<provider, today, total, ends, snap>>
    BY <1>1, <1>2 DEF Followers!Begin, Followers!Goto, HistoryTyped
  <2>2. q \in RunRecords
    BY <1>1 DEF RunRecords, RunSteps
  <2>3. Recorded(q) /\ HasRead(q)
    BY <1>1, <2>1 DEF Recorded, HasRead, RunRecords, HistoryTyped
  <2>4. ~ (provider = "META" /\ Past(q))
    BY <1>1 DEF Past, RunRecords
  <2> HIDE DEF q
  <2> QED
    BY <2>1, <2>2, <2>3, <2>4, RunStep
<1>3. CASE Followers!Info(r)
  <2> DEFINE q == [run[r] EXCEPT !.pc = "record", !.count = total]
  <2>1. /\ run[r].pc = "info" /\ run' = [run EXCEPT ![r] = q]
        /\ UNCHANGED <<provider, today, total, ends, snap>>
    BY <1>1, <1>3 DEF Followers!Info, HistoryTyped
  <2>2. q \in RunRecords
    BY <1>1 DEF RunRecords, RunSteps, HistoryTyped
  <2>3. Recorded(q) /\ HasRead(q) /\ ~ Past(q)
    BY <1>1, <2>1 DEF Recorded, HasRead, RunRecords, Past
  <2> HIDE DEF q
  <2> QED
    BY <2>1, <2>2, <2>3, RunStep
<1>4. CASE Followers!CountRows(r)
  <2>1. CASE \A d, e \in Followers!Rows : d = e
    <3> DEFINE q == [run[r] EXCEPT !.pc = "series"]
    <3>1. /\ run[r].pc = "count" /\ run' = [run EXCEPT ![r] = q]
          /\ UNCHANGED <<provider, today, total, ends, snap>>
      BY <1>1, <1>4, <2>1 DEF Followers!CountRows, Followers!Goto, HistoryTyped
    <3>2. q \in RunRecords
      BY <1>1 DEF RunRecords, RunSteps
    <3>3. Recorded(q) /\ HasRead(q)
      BY <1>1, <3>1 DEF Recorded, HasRead, RunRecords
    <3>4. provider = "META"
      BY <1>1, <3>1 DEF Recorded
    <3>5. /\ run[r].recorded \in Days /\ snap[run[r].recorded] # NoSnap
          /\ q.recorded = run[r].recorded
      BY <1>1, <3>1, <3>4 DEF Recorded, RunRecords
    <3>6. \A d \in Days : snap[d] # NoSnap => d = q.recorded
      BY <2>1, <3>5, FollowersIs DEF Followers!Rows
    <3>7. Observed(q.recorded)
      BY <3>4, <3>5, <3>6 DEF HistoryInv, Anchored, Observed
    <3>8. \A s \in Runs : Past(run[s]) => run[s].recorded = q.recorded
      BY <3>4, <3>6 DEF HistoryInv, Recorded, Past
    <3> HIDE DEF q
    <3> QED
      BY <3>1, <3>2, <3>3, <3>7, <3>8, RunStep
  <2>2. CASE ~ \A d, e \in Followers!Rows : d = e
    BY <1>4, <2>2, EndStep DEF Followers!CountRows
  <2> QED
    BY <2>1, <2>2
<1>5. CASE Followers!ReadSeries(r)
  <2> DEFINE points == IF provider = "META"
                       THEN Followers!Reconstruct(Followers!Series, today, run[r].count)
                       ELSE Followers!Totals
             q == [run[r] EXCEPT !.pc = "observed", !.points = points, !.day = today,
                                 !.same = provider = "ZERNIO" \/ run[r].count = total,
                                 !.truth = Followers!Totals]
  <2>1. CASE points = {}
    BY <1>5, <2>1, EndStep DEF Followers!ReadSeries
  <2>2. CASE points # {}
    <3>1. run[r].count \in Nat
      BY <1>1 DEF RunRecords
    <3>2. /\ points \in SUBSET Points /\ Followers!Totals \in SUBSET Points
          /\ \A p \in points : p.day <= today
          /\ provider = "ZERNIO" \/ run[r].count = total => points \subseteq Followers!Totals
      BY <1>1, <3>1, TotalsTyped, ReconstructIs DEF HistoryTyped
    <3>3. /\ run[r].pc = "series"
          /\ run' = [run EXCEPT ![r] = q]
          /\ UNCHANGED <<provider, today, total, ends, snap>>
      BY <1>1, <1>5, <2>2 DEF Followers!ReadSeries, HistoryTyped
    <3> HIDE DEF points
    <3>4. today \in Nat
      BY <1>1, FollowerAssumption DEF HistoryTyped, Days
    <3>5. q \in RunRecords
      BY <1>1, <3>2, <3>4 DEF RunRecords, RunSteps
    <3>6. /\ q.pc = "observed" /\ q.points = points /\ q.day = today
          /\ q.recorded = run[r].recorded /\ q.truth = Followers!Totals
          /\ q.same <=> provider = "ZERNIO" \/ run[r].count = total
      BY <1>1 DEF RunRecords
    <3> HIDE DEF q
    <3>7. Recorded(q) /\ HasRead(q)
      BY <1>1, <3>2, <3>3, <3>4, <3>6 DEF Recorded, HasRead
    <3>8. Past(run[r])
      BY <3>3 DEF Past
    <3>9. provider = "META" /\ Past(q) =>
            /\ Observed(q.recorded)
            /\ \A s \in Runs : Past(run[s]) => run[s].recorded = q.recorded
      BY <3>6, <3>8 DEF HistoryInv, SameRow
    <3> QED
      BY <3>3, <3>5, <3>7, <3>9, RunStep
  <2> QED
    BY <2>1, <2>2
<1>6. CASE Followers!ReadObserved(r)
  <2> DEFINE rest == Followers!Writable(run[r].points)
             q == [run[r] EXCEPT !.pc = "write", !.points = rest]
  <2>1. CASE rest = {}
    BY <1>6, <2>1, EndStep DEF Followers!ReadObserved
  <2>2. CASE rest # {}
    <3>1. /\ run[r].pc = "observed" /\ run' = [run EXCEPT ![r] = q]
          /\ UNCHANGED <<provider, today, total, ends, snap>>
      BY <1>1, <1>6, <2>2 DEF Followers!ReadObserved, HistoryTyped
    <3>2. rest \subseteq run[r].points /\ \A p \in rest : ~ Observed(p.day)
      BY FollowersIs DEF Followers!Writable
    <3> HIDE DEF rest
    <3>3. run[r].points \in SUBSET Points
      BY <1>1 DEF RunRecords
    <3>4. q \in RunRecords
      BY <1>1, <3>2, <3>3 DEF RunRecords, RunSteps
    <3>5. /\ q.pc = "write" /\ q.points = rest /\ q.day = run[r].day
          /\ q.recorded = run[r].recorded /\ q.truth = run[r].truth /\ q.same = run[r].same
      BY <1>1 DEF RunRecords
    <3> HIDE DEF q
    <3>6. Past(run[r])
      BY <3>1 DEF Past
    <3>7. provider = "META" =>
            /\ Observed(q.recorded)
            /\ \A s \in Runs : Past(run[s]) => run[s].recorded = q.recorded
      BY <3>5, <3>6 DEF HistoryInv, SameRow
    <3>8. \A p \in rest : p.day # q.recorded
      <4>1. CASE provider = "META"
        BY <3>2, <3>7, <4>1
      <4>2. CASE provider # "META"
        BY <1>1, <3>2, <3>3, <3>5, <4>2 DEF Recorded, Points, Days
      <4> QED
        BY <4>1, <4>2
    <3>9. Recorded(q)
      BY <1>1, <3>1, <3>5 DEF Recorded
    <3>10. HasRead(q)
      BY <1>1, <3>1, <3>2, <3>5, <3>8 DEF HasRead
    <3> QED
      BY <3>1, <3>4, <3>7, <3>9, <3>10, RunStep
  <2> QED
    BY <2>1, <2>2
<1>7. CASE Followers!Fail(r)
  BY <1>7, EndStep DEF Followers!Fail
<1> QED
  BY <1>2, <1>3, <1>4, <1>5, <1>6, <1>7

(* A run records the total: the row of today is observed.                  *)
LEMMA RecordStep ==
  ASSUME HistoryInv, NEW r \in Runs, Followers!Record(r)
  PROVE  HistoryInv'
<1> DEFINE q == [run[r] EXCEPT !.pc = "count", !.recorded = today]
<1>1. /\ run[r] \in RunRecords /\ Recorded(run[r]) /\ HistoryTyped
      /\ today \in Days /\ today \in Nat
  BY FollowerAssumption DEF HistoryInv, HistoryTyped, Days
<1>2. /\ run[r].pc = "record" /\ run' = [run EXCEPT ![r] = q]
      /\ snap' = [snap EXCEPT ![today] = [n |-> run[r].count, backfilled |-> FALSE]]
      /\ UNCHANGED <<provider, today, total, ends>>
  BY <1>1 DEF Followers!Record, HistoryTyped
<1>3. q \in RunRecords /\ q.pc = "count" /\ q.recorded = today
  BY <1>1 DEF RunRecords, RunSteps
<1> HIDE DEF q
<1>4. /\ run' \in [Runs -> RunRecords] /\ run'[r] = q
      /\ \A s \in Runs : s # r => run'[s] = run[s]
  BY <1>1, <1>2, <1>3 DEF HistoryTyped
<1>5. /\ snap' \in [Days -> [n : Int, backfilled : BOOLEAN]]
      /\ snap'[today] = [n |-> run[r].count, backfilled |-> FALSE] /\ run[r].count \in Nat
      /\ \A d \in Days : d # today => snap'[d] = snap[d]
  BY <1>1, <1>2 DEF HistoryTyped, RunRecords
<1>6. Observed(today)' /\ snap'[today] # NoSnap
  BY <1>2, <1>5 DEF Observed, NoSnap
<1>7. \A d \in Days : /\ d # today => (Observed(d)' <=> Observed(d))
                      /\ snap[d] # NoSnap => snap'[d] # NoSnap
                      /\ Observed(d) => Observed(d)'
  BY <1>5, <1>6 DEF Observed
<1>8. provider = "META"
  BY <1>1, <1>2 DEF Recorded
<1>9. HistoryTyped'
  BY <1>1, <1>2, <1>4, <1>5 DEF HistoryTyped
<1>10. SameRow'
  <2>1. \A s \in Runs : Past(run'[s]) => s # r /\ run'[s] = run[s] /\ run[s].recorded \in Days
    BY <1>3, <1>4, <1>8 DEF Past, HistoryInv, Recorded
  <2>2. \A d \in Days : Observed(d) => snap'[d] # NoSnap /\ ~ snap'[d].backfilled
    BY <1>7 DEF Observed
  <2>3. \A s \in Runs : Past(run'[s]) => /\ snap'[run'[s].recorded] # NoSnap
                                          /\ ~ snap'[run'[s].recorded].backfilled
    BY <1>8, <2>1, <2>2 DEF HistoryInv, SameRow
  <2>4. \A s, t \in Runs : Past(run'[s]) /\ Past(run'[t]) => run'[s].recorded = run'[t].recorded
    BY <1>8, <2>1 DEF HistoryInv, SameRow
  <2> QED
    BY <2>3, <2>4 DEF SameRow, Observed, Past, NoSnap
<1>11. Anchored'
  BY <1>1, <1>2, <1>6, <1>8 DEF Anchored
<1>12. ASSUME NEW s \in Runs PROVE Recorded(run[s])' /\ HasRead(run[s])'
  <2>1. CASE s = r
    BY <1>1, <1>2, <1>3, <1>4, <1>6, <1>8, <2>1 DEF Recorded, HasRead
  <2>2. CASE s # r
    <3>1. Recorded(run[s]) /\ HasRead(run[s]) /\ run[s] \in RunRecords
      BY DEF HistoryInv, HistoryTyped
    <3>2. Recorded(run[s])'
      BY <1>2, <1>4, <1>7, <2>2, <3>1 DEF Recorded
    <3>3. \A p \in run[s].points : p.day \in Days /\ p.day \in Nat
      BY <3>1, FollowerAssumption DEF RunRecords, Points, Days
    <3>4. ASSUME run[s].pc = "write", NEW p \in run[s].points, Observed(p.day)'
          PROVE  p.day = run[s].day
      <4>1. p.day <= run[s].day /\ run[s].day <= today /\ run[s].day \in Nat
        BY <3>1, <3>4 DEF HasRead, RunRecords
      <4>2. CASE p.day = today
        BY <1>1, <3>3, <4>1, <4>2
      <4>3. CASE p.day # today
        BY <1>7, <3>1, <3>3, <3>4, <4>3 DEF HasRead
      <4> QED
        BY <4>2, <4>3
    <3>5. HasRead(run[s])'
      BY <1>2, <1>4, <2>2, <3>1, <3>4 DEF HasRead, Observed
    <3> QED
      BY <3>2, <3>5
  <2> QED
    BY <2>1, <2>2
<1> QED
  BY <1>9, <1>10, <1>11, <1>12 DEF HistoryInv

(* The transaction of a run: the rows of its points, none of them the      *)
(* observed row that it found.                                             *)
LEMMA WriteRows ==
  ASSUME HistoryInv, NEW r \in Runs, Followers!Write(r)
  PROVE  /\ snap' \in [Days -> [n : Int, backfilled : BOOLEAN]]
         /\ \A d \in Days :
               \/ snap'[d] = snap[d]
               \/ /\ \E p \in run[r].points : p.day = d
                  /\ snap'[d].backfilled /\ snap'[d] # NoSnap
<1>1. /\ run[r].points \in SUBSET Points /\ snap \in [Days -> [n : Int, backfilled : BOOLEAN]]
      /\ snap' = [d \in Days |->
                    IF \E p \in run[r].points : p.day = d
                    THEN [n |-> (CHOOSE p \in run[r].points : p.day = d).n, backfilled |-> TRUE]
                    ELSE snap[d]]
  BY FollowersIs DEF Followers!Write, HistoryInv, HistoryTyped, RunRecords
<1>2. ASSUME NEW d \in Days, \E p \in run[r].points : p.day = d
      PROVE  /\ snap'[d] \in [n : Int, backfilled : BOOLEAN]
             /\ snap'[d].backfilled /\ snap'[d] # NoSnap
  <2>1. (CHOOSE p \in run[r].points : p.day = d) \in Points
    BY <1>1, <1>2
  <2>2. snap'[d] = [n |-> (CHOOSE p \in run[r].points : p.day = d).n, backfilled |-> TRUE]
    BY <1>1, <1>2
  <2> QED
    BY <2>1, <2>2 DEF Points, NoSnap
<1>3. ASSUME NEW d \in Days, ~ \E p \in run[r].points : p.day = d
      PROVE  snap'[d] = snap[d] /\ snap'[d] \in [n : Int, backfilled : BOOLEAN]
  BY <1>1, <1>3
<1>4. snap' = [d \in Days |-> snap'[d]]
  BY <1>1
<1> QED
  BY <1>2, <1>3, <1>4

(* A run that writes takes no row that another one relies on.              *)
LEMMA WriteStep ==
  ASSUME HistoryInv, NEW r \in Runs, Followers!Write(r)
  PROVE  HistoryInv'
<1>1. /\ run[r].pc = "write" /\ run' = [run EXCEPT ![r] = Followers!Idle]
      /\ UNCHANGED <<provider, today, total, ends>>
  BY DEF Followers!Write
<1>2. Followers!Idle \in RunRecords
  BY DEF Followers!Idle, RunRecords, RunSteps
<1>3. /\ run' \in [Runs -> RunRecords] /\ run'[r] = Followers!Idle
      /\ \A s \in Runs : s # r => run'[s] = run[s]
  BY <1>1, <1>2 DEF HistoryInv, HistoryTyped
<1>4. HistoryTyped'
  BY <1>1, <1>3, WriteRows DEF HistoryInv, HistoryTyped
<1>5. \A d \in Days : /\ snap[d] # NoSnap => snap'[d] # NoSnap
                      /\ Observed(d)' => Observed(d)
  BY WriteRows DEF Observed
<1>6. provider = "META" => /\ run[r].recorded \in Days /\ Observed(run[r].recorded)
                           /\ snap'[run[r].recorded] = snap[run[r].recorded]
  <2>1. Past(run[r])
    BY <1>1 DEF Past
  <2>2. Recorded(run[r]) /\ HasRead(run[r])
    BY DEF HistoryInv
  <2> QED
    BY <1>1, <2>1, <2>2, WriteRows DEF HistoryInv, SameRow, Recorded, HasRead
<1>7. SameRow'
  <2>1. \A s \in Runs : Past(run'[s]) => s # r /\ run'[s] = run[s]
    BY <1>3 DEF Past, Followers!Idle
  <2>2. Past(run[r])
    BY <1>1 DEF Past
  <2>3. provider = "META" =>
           \A s \in Runs : Past(run'[s]) => run'[s].recorded = run[r].recorded
    BY <2>1, <2>2 DEF HistoryInv, SameRow
  <2>4. provider = "META" =>
           \A s \in Runs : Past(run'[s]) => /\ snap'[run'[s].recorded] # NoSnap
                                            /\ ~ snap'[run'[s].recorded].backfilled
    BY <1>6, <2>3 DEF Observed
  <2> QED
    BY <1>1, <2>3, <2>4 DEF SameRow, Observed, NoSnap
<1>8. Anchored'
  <2>1. CASE provider = "META"
    <3>1. Observed(run[r].recorded) /\ snap'[run[r].recorded] = snap[run[r].recorded]
      BY <1>6, <2>1
    <3>2. \E d \in Days : Observed(d)'
      BY <1>6, <2>1, <3>1 DEF Observed, NoSnap
    <3> QED
      BY <1>1, <2>1, <3>2 DEF Anchored
  <2>2. CASE provider # "META"
    BY <1>1, <1>5, <2>2 DEF HistoryInv, Anchored
  <2> QED
    BY <2>1, <2>2
<1>9. ASSUME NEW s \in Runs PROVE Recorded(run[s])' /\ HasRead(run[s])'
  <2>1. CASE s = r
    BY <1>3, <2>1 DEF Recorded, HasRead, Followers!Idle
  <2>2. CASE s # r
    <3>1. Recorded(run[s]) /\ HasRead(run[s]) /\ run[s] \in RunRecords
      BY DEF HistoryInv, HistoryTyped
    <3>2. Recorded(run[s])'
      BY <1>1, <1>3, <1>5, <2>2, <3>1 DEF Recorded
    <3>3. \A p \in run[s].points : p.day \in Days
      BY <3>1 DEF RunRecords, Points
    <3>4. ASSUME run[s].pc = "write", NEW p \in run[s].points, Observed(p.day)'
          PROVE  p.day = run[s].day
      BY <1>5, <3>1, <3>3, <3>4 DEF HasRead
    <3>5. HasRead(run[s])'
      BY <1>1, <1>3, <2>2, <3>1, <3>4 DEF HasRead, Observed
    <3> QED
      BY <3>2, <3>5
  <2> QED
    BY <2>1, <2>2
<1> QED
  BY <1>4, <1>7, <1>8, <1>9 DEF HistoryInv

(* Followers come and go, and days pass, as they do.                       *)
LEMMA WorldStep == HistoryInv /\ (Followers!Gain \/ Followers!Midnight) => HistoryInv'
<1> SUFFICES ASSUME HistoryInv, Followers!Gain \/ Followers!Midnight PROVE HistoryInv'
  OBVIOUS
<1>1. today \in Nat \ {0} /\ total \in Nat /\ ends \in [0 .. today - 1 -> Nat]
  BY FollowerAssumption DEF HistoryInv, HistoryTyped, Days
<1>2. /\ today' \in Days /\ today <= today' /\ total' \in Nat
      /\ ends' \in [0 .. today' - 1 -> Nat]
      /\ UNCHANGED <<provider, snap, run>>
  <2>1. CASE Followers!Gain
    BY <1>1, <2>1, FollowerAssumption DEF Followers!Gain, HistoryInv, HistoryTyped
  <2>2. CASE Followers!Midnight
    BY <1>1, <2>2, FollowerAssumption DEF Followers!Midnight, Days
  <2> QED
    BY <2>1, <2>2
<1>3. HistoryTyped'
  BY <1>2 DEF HistoryInv, HistoryTyped
<1>4. SameRow' /\ Anchored'
  BY <1>2 DEF HistoryInv, SameRow, Anchored, Past, Observed
<1>5. ASSUME NEW s \in Runs PROVE Recorded(run[s])' /\ HasRead(run[s])'
  <2>1. Recorded(run[s]) /\ HasRead(run[s]) /\ run[s] \in RunRecords
    BY DEF HistoryInv, HistoryTyped
  <2>2. run[s].recorded \in Nat /\ run[s].day \in Nat /\ today' \in Nat
    BY <1>2, <2>1, FollowerAssumption DEF RunRecords, Days
  <2> QED
    BY <1>1, <1>2, <2>1, <2>2 DEF Recorded, HasRead, Observed
<1> QED
  BY <1>3, <1>4, <1>5 DEF HistoryInv

(* Every step keeps the invariant.                                         *)
LEMMA HistoryStep == HistoryInv /\ [Followers!Next]_(Followers!vars) => HistoryInv'
<1> SUFFICES ASSUME HistoryInv, [Followers!Next]_(Followers!vars) PROVE HistoryInv'
  OBVIOUS
<1>1. CASE Followers!Gain \/ Followers!Midnight
  BY <1>1, WorldStep
<1>2. ASSUME NEW r \in Runs, Followers!Step(r) PROVE HistoryInv'
  BY <1>2, ReadingSteps, RecordStep, WriteStep DEF Followers!Step
<1>3. CASE UNCHANGED Followers!vars
  BY <1>3 DEF Followers!vars, HistoryInv, HistoryTyped, SameRow, Anchored, Past, Observed,
              Recorded, HasRead
<1> QED
  BY <1>1, <1>2, <1>3 DEF Followers!Next

(* What is derived is true when the total had not changed between its      *)
(* reading and that of the changes; and an observed total gives way to     *)
(* observed ones only, but for the day that began between a run's own      *)
(* observation and its reading.                                            *)
THEOREM HistoryIsTrue == Followers!Spec => HistoryHolds
<1> DEFINE Stays ==
      \A d \in Days :
         Observed(d) => Observed(d)' \/ \E r \in Runs : /\ run[r].pc = "write"
                                                        /\ run'[r].pc = "idle"
                                                        /\ run[r].recorded # d
                                                        /\ run[r].day = d
<1>1. HistoryInv => DerivedIsTrue
  BY DEF HistoryInv, HasRead, DerivedIsTrue
<1>2. HistoryInv /\ [Followers!Next]_(Followers!vars) => [Stays]_snap
  <2> SUFFICES ASSUME HistoryInv, [Followers!Next]_(Followers!vars), snap' # snap PROVE Stays
    OBVIOUS
  <2>1. ASSUME NEW r \in Runs, Followers!Record(r) PROVE Stays
    <3>1. snap' = [snap EXCEPT ![today] = [n |-> run[r].count, backfilled |-> FALSE]]
      BY <2>1 DEF Followers!Record
    <3>2. run[r].count \in Nat
      BY DEF HistoryInv, HistoryTyped, RunRecords
    <3> QED
      BY <3>1, <3>2 DEF HistoryInv, HistoryTyped, Observed, NoSnap
  <2>2. ASSUME NEW r \in Runs, Followers!Write(r) PROVE Stays
    <3>1. run[r].pc = "write" /\ run'[r].pc = "idle"
      BY <2>2 DEF Followers!Write, Followers!Idle, HistoryInv, HistoryTyped
    <3>2. HasRead(run[r])
      BY DEF HistoryInv
    <3> SUFFICES ASSUME NEW d \in Days, Observed(d), ~ Observed(d)'
                 PROVE  run[r].recorded # d /\ run[r].day = d
      BY <3>1
    <3>3. \E p \in run[r].points : p.day = d
      BY <2>2, WriteRows DEF Observed
    <3> QED
      BY <3>1, <3>2, <3>3 DEF HasRead
  <2>3. (\E r \in Runs : Followers!Record(r)) \/ (\E r \in Runs : Followers!Write(r))
    BY DEF Followers!Next, Followers!vars, Followers!Gain, Followers!Midnight, Followers!Step,
           Followers!Begin, Followers!Info, Followers!CountRows, Followers!ReadSeries,
           Followers!ReadObserved, Followers!Fail
  <2> QED
    BY <2>1, <2>2, <2>3
<1> QED
  BY <1>1, <1>2, HistoryInit, HistoryStep, PTL
     DEF Followers!Spec, HistoryHolds, ObservedStays

-----------------------------------------------------------------------------
(* Overview.                                                               *)

(* Every variable of the overview has its type.                            *)
PoolTyped ==
  /\ phase \in {"library", "pool", "failed", "answered"}
  /\ target \in Nat /\ media \in Nat /\ cursor \in Nat \ {0}
  /\ working \in [Pool!Workers -> Nat]
  /\ asked \in [Posts -> Nat]
  /\ insights \in [Posts -> Nat]
  /\ available \in BOOLEAN /\ denied \in BOOLEAN
  /\ overview \in [reach : SUBSET Posts, insights : BOOLEAN, followers : BOOLEAN]

(* The cursor parts the posts: those before it have been asked for once,   *)
(* and each of them stands at its place or is some worker's.               *)
Parted ==
  /\ media <= Least(target, Library) /\ cursor <= media + 1
  /\ \A p \in Posts : asked[p] = (IF p < cursor THEN 1 ELSE 0)
  /\ \A p \in Posts : insights[p] \in {NotYet, Null, p}
  /\ \A p \in Posts :
        insights[p] = NotYet <=> p >= cursor \/ \E w \in Pool!Workers : working[w] = p

(* Each worker has a post of its own before the cursor, and no worker has  *)
(* ended as long as there are posts behind it.                             *)
Working ==
  /\ \A w \in Pool!Workers : working[w] < cursor
  /\ \A v, w \in Pool!Workers : working[v] = working[w] /\ working[v] # 0 => v = w
  /\ phase = "pool" /\ cursor <= media => \A w \in Pool!Workers : working[w] # 0

(* All posts have been read when the pool starts, and the insights are     *)
(* available as soon as those of some post are.                            *)
Pooled ==
  /\ phase = "library" => cursor = 1
  /\ phase \in {"pool", "answered"} => media = Least(target, Library)
  /\ available => \E p \in Posts : insights[p] = p
  /\ phase = "answered" =>
        /\ cursor = media + 1
        /\ \A w \in Pool!Workers : working[w] = 0
        /\ overview.reach = {p \in Posts : insights[p] = p}
        /\ overview.insights => overview.reach # {}

PoolInv == PoolTyped /\ Parted /\ Working /\ Pooled

(* What the posts and their reading both define is the same.               *)
LEMMA PoolIs ==
  /\ Pool!Posts = Posts /\ Pool!NotYet = NotYet /\ Pool!Null = Null
  /\ \A m, n : Pool!Least(m, n) = Least(m, n)
BY DEF Posts, Pool!Posts, NotYet, Pool!NotYet, Null, Pool!Null, Least, Pool!Least

(* At the start no post has been read.                                     *)
LEMMA PoolInit == Pool!Init => PoolInv
<1> SUFFICES ASSUME Pool!Init PROVE PoolInv
  OBVIOUS
<1>1. /\ phase = "library" /\ target \in Nat /\ media = 0 /\ cursor = 1
      /\ working = [w \in Pool!Workers |-> 0]
      /\ asked = [p \in Posts |-> 0]
      /\ insights = [p \in Posts |-> 0]
      /\ available = FALSE /\ denied = FALSE
      /\ overview = [reach |-> {}, insights |-> FALSE, followers |-> FALSE]
  BY OverviewAssumption DEF Pool!Init, Posts, Pool!Posts, Pool!NotYet, Pool!NoAnswer
<1>2. PoolTyped
  <2>1. overview \in [reach : SUBSET Posts, insights : BOOLEAN, followers : BOOLEAN]
    BY <1>1
  <2>2. working \in [Pool!Workers -> Nat] /\ asked \in [Posts -> Nat] /\ insights \in [Posts -> Nat]
    BY <1>1
  <2>3. media \in Nat /\ cursor \in Nat \ {0}
    BY <1>1
  <2>4. /\ available \in BOOLEAN /\ denied \in BOOLEAN
        /\ phase \in {"library", "pool", "failed", "answered"}
    BY <1>1
  <2> QED
    BY <1>1, <2>1, <2>2, <2>3, <2>4 DEF PoolTyped
<1>3. Parted
  BY <1>1, OverviewAssumption DEF Parted, Posts, Least, NotYet
<1>4. Working /\ Pooled
  BY <1>1 DEF Working, Pooled
<1> QED
  BY <1>2, <1>3, <1>4 DEF PoolInv

(* A page more, of all that were asked for once the pool starts.           *)
LEMMA PageStep == PoolInv /\ Pool!ReadPage => PoolInv'
<1> SUFFICES ASSUME PoolInv, Pool!ReadPage PROVE PoolInv'
  OBVIOUS
<1> DEFINE read == Least(media + Least(PageSize, target), Library)
           posts == Least(read, target)
           some == Least(Concurrency, posts)
<1>1. /\ posts \in Nat /\ some \in Nat /\ some <= posts
      /\ posts <= Least(target, Library)
      /\ posts >= target \/ read >= Library => posts = Least(target, Library)
      /\ some <= Concurrency /\ (some < posts => some = Concurrency)
      /\ media <= posts
  BY OverviewAssumption DEF PoolInv, PoolTyped, Parted, Least
<1>2. read \in Nat
  BY OverviewAssumption DEF PoolInv, PoolTyped, Least
<1>3. /\ phase = "library" /\ media' = posts
      /\ UNCHANGED <<target, insights, available, denied, overview>>
      /\ IF posts < target /\ read < Library
         THEN UNCHANGED <<phase, cursor, working, asked>>
         ELSE /\ phase' = "pool" /\ cursor' = some + 1
              /\ working' = [w \in Pool!Workers |-> IF w <= some THEN w ELSE 0]
              /\ asked' = [p \in Posts |-> IF p <= some THEN 1 ELSE 0]
  BY PoolIs DEF Pool!ReadPage
<1>4. posts <= Library /\ Library \in Nat /\ Concurrency \in Nat \ {0} /\ target \in Nat
  BY <1>1, OverviewAssumption DEF Least, PoolInv, PoolTyped
<1> HIDE DEF read, posts, some
<1>5. CASE posts < target /\ read < Library
  <2>1. PoolTyped'
    BY <1>1, <1>3, <1>5 DEF PoolInv, PoolTyped
  <2>2. Parted'
    BY <1>1, <1>3, <1>4, <1>5 DEF PoolInv, PoolTyped, Parted, Least
  <2>3. Working' /\ Pooled'
    BY <1>3, <1>5 DEF PoolInv, Working, Pooled
  <2> QED
    BY <2>1, <2>2, <2>3 DEF PoolInv
<1>6. CASE ~ (posts < target /\ read < Library)
  <2>1. posts = Least(target, Library)
    BY <1>1, <1>2, <1>4, <1>6
  <2>2. PoolTyped'
    BY <1>1, <1>3, <1>4, <1>6 DEF PoolInv, PoolTyped, Pool!Workers
  <2>3. ASSUME NEW p \in Posts
        PROVE  insights'[p] = NotYet <=> p >= cursor' \/ \E w \in Pool!Workers : working'[w] = p
    <3>1. p \in Nat \ {0} /\ insights[p] = NotYet
        BY <1>3, <1>4 DEF PoolInv, PoolTyped, Parted, Pooled, Posts
    <3>2. p <= some => p \in Pool!Workers /\ working'[p] = p
      BY <1>1, <1>3, <1>4, <1>6, <3>1 DEF Pool!Workers, Least
    <3> QED
      BY <1>1, <1>3, <1>6, <3>1, <3>2
  <2>4. Parted'
    BY <1>1, <1>3, <1>4, <1>6, <2>1, <2>3 DEF PoolInv, PoolTyped, Parted, Least, Posts
  <2>5. Working'
    BY <1>1, <1>3, <1>4, <1>6 DEF PoolInv, PoolTyped, Working, Pool!Workers
  <2>6. Pooled'
    BY <1>3, <1>6, <2>1 DEF PoolInv, Pooled
  <2> QED
    BY <2>2, <2>4, <2>5, <2>6 DEF PoolInv
<1> QED
  BY <1>5, <1>6

(* A worker whose request is over puts what came, or Null, at the place of *)
(* its post and takes the next one.                                        *)
LEMMA TakeStep ==
  ASSUME PoolInv, NEW w \in Pool!Workers, phase = "pool", working[w] # 0,
         NEW v \in {Null, working[w]}, insights' = [insights EXCEPT ![working[w]] = v],
         available' = (available \/ v # Null), denied' \in BOOLEAN, Pool!Take(w),
         UNCHANGED <<phase, target, media, overview>>
  PROVE  PoolInv'
<1>1. /\ Library \in Nat /\ working \in [Pool!Workers -> Nat]
      /\ asked \in [Posts -> Nat] /\ insights \in [Posts -> Nat]
      /\ media \in Nat /\ cursor \in Nat \ {0} /\ target \in Nat
  BY OverviewAssumption DEF PoolInv, PoolTyped
<1>2. working[w] \in Posts /\ media <= Library
  BY <1>1 DEF PoolInv, Parted, Working, Least, Posts
<1>3. v \in Nat /\ v # NotYet
  BY <1>1, <1>2 DEF Null, NotYet, Posts
<1>4. /\ insights' \in [Posts -> Nat] /\ insights'[working[w]] = v
      /\ \A p \in Posts : p # working[w] => insights'[p] = insights[p]
  BY <1>1, <1>2, <1>3
<1>5. \A u \in Pool!Workers : u # w => working[u] # working[w]
  BY DEF PoolInv, Working
<1>6. ASSUME available' PROVE \E p \in Posts : insights'[p] = p
  <2>1. CASE v # Null
    BY <1>2, <1>4, <2>1
  <2>2. CASE v = Null
    <3>1. PICK p \in Posts : insights[p] = p
      BY <1>6, <2>2 DEF PoolInv, Pooled
    <3>2. insights[working[w]] = NotYet
      BY <1>2 DEF PoolInv, Parted
    <3>3. p # working[w]
      BY <3>1, <3>2 DEF NotYet, Posts
    <3> QED
      BY <1>4, <3>1, <3>3
  <2> QED
    BY <2>1, <2>2
<1>7. CASE cursor <= media
  <2>1. /\ working' = [working EXCEPT ![w] = cursor]
        /\ asked' = [asked EXCEPT ![cursor] = @ + 1]
        /\ cursor' = cursor + 1 /\ cursor \in Posts
    BY <1>1, <1>2, <1>7 DEF Pool!Take, Posts
  <2>2. PoolTyped'
    BY <1>1, <1>4, <2>1 DEF PoolInv, PoolTyped
  <2>3. ASSUME NEW p \in Posts
        PROVE  insights'[p] = NotYet <=> p >= cursor' \/ \E u \in Pool!Workers : working'[u] = p
    <3>1. p \in Nat /\ (insights[p] = NotYet
                           <=> p >= cursor \/ \E u \in Pool!Workers : working[u] = p)
      BY DEF PoolInv, Parted, Posts
    <3>2. CASE p = working[w]
      <4>1. p < cursor
        BY <3>2 DEF PoolInv, Working
      <4>2. \A u \in Pool!Workers : working'[u] # p
        BY <1>1, <1>5, <2>1, <3>2, <4>1
      <4> QED
        BY <1>1, <1>3, <1>4, <2>1, <3>1, <3>2, <4>1, <4>2
    <3>3. CASE p # working[w]
      <4>1. insights'[p] = insights[p]
        BY <1>4, <3>3
      <4>2. working'[w] = cursor /\ \A u \in Pool!Workers : u # w => working'[u] = working[u]
        BY <1>1, <2>1
      <4>3. (\E u \in Pool!Workers : working'[u] = p)
               <=> p = cursor \/ \E u \in Pool!Workers : working[u] = p
        BY <3>3, <4>2
      <4> QED
        BY <1>1, <2>1, <3>1, <4>1, <4>3
    <3> QED
      BY <3>2, <3>3
  <2>4. Parted'
    BY <1>1, <1>3, <1>4, <1>7, <2>1, <2>3 DEF PoolInv, Parted, Posts, Least
  <2>5. Working'
    BY <1>1, <1>7, <2>1 DEF PoolInv, Working
  <2>6. Pooled'
    BY <1>6 DEF PoolInv, Pooled
  <2> QED
    BY <2>2, <2>4, <2>5, <2>6 DEF PoolInv
<1>8. CASE ~ (cursor <= media)
  <2>1. working' = [working EXCEPT ![w] = 0] /\ UNCHANGED <<asked, cursor>>
    BY <1>8 DEF Pool!Take
  <2>2. PoolTyped'
    BY <1>1, <1>4, <2>1 DEF PoolInv, PoolTyped
  <2>3. ASSUME NEW p \in Posts
        PROVE  insights'[p] = NotYet <=> p >= cursor' \/ \E u \in Pool!Workers : working'[u] = p
    <3>1. p \in Nat \ {0} /\ (insights[p] = NotYet
                           <=> p >= cursor \/ \E u \in Pool!Workers : working[u] = p)
      BY DEF PoolInv, Parted, Posts
    <3>2. CASE p = working[w]
      <4>1. p < cursor
        BY <3>2 DEF PoolInv, Working
      <4>2. \A u \in Pool!Workers : working'[u] # p
        BY <1>1, <1>5, <2>1, <3>1, <3>2
      <4> QED
        BY <1>1, <1>3, <1>4, <2>1, <3>1, <3>2, <4>1, <4>2
    <3>3. CASE p # working[w]
      <4>1. insights'[p] = insights[p]
        BY <1>4, <3>3
      <4>2. (\E u \in Pool!Workers : working'[u] = p)
               <=> \E u \in Pool!Workers : working[u] = p
        BY <1>1, <2>1, <3>1, <3>3
      <4> QED
        BY <2>1, <3>1, <4>1, <4>2
    <3> QED
      BY <3>2, <3>3
  <2>4. Parted'
    BY <1>1, <1>3, <1>4, <2>1, <2>3 DEF PoolInv, Parted, Posts, Least
  <2>5. Working'
    BY <1>1, <1>8, <2>1 DEF PoolInv, Working
  <2>6. Pooled'
    BY <1>6, <2>1 DEF PoolInv, Pooled
  <2> QED
    BY <2>2, <2>4, <2>5, <2>6 DEF PoolInv
<1> QED
  BY <1>7, <1>8

(* Every step keeps the invariant.                                         *)
LEMMA PoolStep == PoolInv /\ [Pool!Next]_(Pool!vars) => PoolInv'
<1> SUFFICES ASSUME PoolInv, [Pool!Next]_(Pool!vars) PROVE PoolInv'
  OBVIOUS
<1>1. CASE Pool!ReadPage
  BY <1>1, PageStep
<1>2. ASSUME NEW w \in Pool!Workers, Pool!InsightsCome(w) PROVE PoolInv'
  <2>1. working[w] \in Posts /\ Library \in Nat
    BY <1>2, OverviewAssumption
       DEF Pool!InsightsCome, PoolInv, PoolTyped, Parted, Working, Least, Posts
  <2>2. /\ phase = "pool" /\ working[w] # 0 /\ Pool!Take(w)
        /\ insights' = [insights EXCEPT ![working[w]] = working[w]]
        /\ available' = TRUE /\ working[w] # Null /\ denied' \in BOOLEAN
        /\ UNCHANGED <<phase, target, media, overview>>
    BY <1>2, <2>1 DEF Pool!InsightsCome, Pool!Place, Null, Posts, PoolInv, PoolTyped
  <2> QED
    BY <2>2, TakeStep
<1>3. ASSUME NEW w \in Pool!Workers, Pool!InsightsFail(w) PROVE PoolInv'
  <2>1. /\ phase = "pool" /\ working[w] # 0 /\ Pool!Take(w)
        /\ insights' = [insights EXCEPT ![working[w]] = Null]
        /\ available' = available /\ denied' \in BOOLEAN
        /\ UNCHANGED <<phase, target, media, overview>>
    BY <1>3, PoolIs DEF Pool!InsightsFail, Pool!Place, PoolInv, PoolTyped
  <2>2. available' = (available \/ Null # Null)
    BY <2>1 DEF PoolInv, PoolTyped
  <2> QED
    BY <2>1, <2>2, TakeStep
<1>4. CASE Pool!Respond
  <2>1. /\ phase = "pool" /\ \A w \in Pool!Workers : working[w] = 0
        /\ phase' = "answered"
        /\ \E f \in BOOLEAN : overview' = [reach |-> Pool!Reach, insights |-> available /\ ~denied,
                                           followers |-> f]
        /\ UNCHANGED <<target, media, cursor, working, asked, insights, available, denied>>
    BY <1>4 DEF Pool!Respond, Pool!Worked
  <2>2. cursor = media + 1
    <3>1. 1 \in Pool!Workers
      BY OverviewAssumption DEF Pool!Workers
    <3> QED
      BY <2>1, <3>1 DEF PoolInv, PoolTyped, Parted, Working
  <2>3. Pool!Reach = {p \in Posts : insights[p] = p}
    <3>1. media <= Library /\ media \in Nat /\ Library \in Nat
      BY OverviewAssumption DEF PoolInv, PoolTyped, Parted, Least
    <3>2. ASSUME NEW p \in Posts, insights[p] = p PROVE p <= media
      BY <2>2, <3>1, <3>2 DEF PoolInv, PoolTyped, Parted, Posts, NotYet
    <3> QED
      BY <3>1, <3>2 DEF Pool!Reach, Posts
  <2>4. PoolTyped'
    <3>1. overview' \in [reach : SUBSET Posts, insights : BOOLEAN, followers : BOOLEAN]
      BY <2>1, <2>3 DEF PoolInv, PoolTyped
    <3> QED
      BY <2>1, <3>1 DEF PoolInv, PoolTyped
  <2>5. Parted' /\ Working'
    BY <2>1 DEF PoolInv, Parted, Working
  <2>6. /\ overview'.reach = {p \in Posts : insights[p] = p}
        /\ overview'.insights = (available /\ ~denied)
    BY <2>1, <2>3
  <2>7. overview'.insights => overview'.reach # {}
    BY <2>6 DEF PoolInv, PoolTyped, Pooled
  <2>8. Pooled'
    BY <2>1, <2>2, <2>6, <2>7 DEF PoolInv, Pooled
  <2> QED
    BY <2>4, <2>5, <2>8 DEF PoolInv
<1>5. CASE Pool!Fail
  <2>1. PoolTyped'
    BY <1>5 DEF Pool!Fail, PoolInv, PoolTyped
  <2> QED
    BY <1>5, <2>1 DEF Pool!Fail, PoolInv, Parted, Working, Pooled
<1>6. CASE UNCHANGED Pool!vars
  BY <1>6 DEF Pool!vars, PoolInv, PoolTyped, Parted, Working, Pooled
<1> QED
  BY <1>1, <1>2, <1>3, <1>4, <1>5, <1>6 DEF Pool!Next

(* Each of the newest posts has its insights asked for once, and gets its  *)
(* own, whichever workers overtake each other; just the posts whose        *)
(* insights came add to the totals.                                        *)
THEOREM InsightsOnce == Pool!Spec => []EachPostOnce
<1>1. PoolInv => EachPostOnce
  <2> SUFFICES ASSUME PoolInv PROVE EachPostOnce
    OBVIOUS
  <2>1. \A p \in Posts : p \in Nat \ {0}
    BY DEF Posts
  <2>2. \A p \in Posts : asked[p] <= 1 /\ insights[p] \in {NotYet, Null, p}
    BY <2>1 DEF PoolInv, PoolTyped, Parted
  <2>3. ASSUME phase = "answered"
        PROVE  /\ \A p \in Posts : asked[p] = (IF p <= media THEN 1 ELSE 0)
               /\ \A p \in 1 .. media : insights[p] # NotYet
    <3>1. cursor = media + 1 /\ media \in Nat /\ media <= Library /\ Library \in Nat
      BY <2>3, OverviewAssumption DEF PoolInv, PoolTyped, Parted, Pooled, Least
    <3>2. \A w \in Pool!Workers : working[w] = 0
      BY <2>3 DEF PoolInv, Pooled
    <3> QED
      BY <2>1, <3>1, <3>2 DEF PoolInv, Parted, Posts
  <2> QED
    BY <2>2, <2>3 DEF EachPostOnce, PoolInv, Pooled
<1> QED
  BY <1>1, PoolInit, PoolStep, PTL DEF Pool!Spec

-----------------------------------------------------------------------------
(* ConversationPaging.                                                     *)

(* Every variable of the reading has its type.                             *)
PagingTyped ==
  /\ order \in [Conversations -> Conversations]
  /\ broken \in SUBSET Conversations /\ moved \in SUBSET Conversations
  /\ results \in SUBSET [id : Conversations, bare : BOOLEAN]
  /\ after \in 0 .. Size /\ pages \in Nat /\ pageSize \in Nat \ {0} /\ limit \in Nat
  /\ step \in {"loop", "read", "bare", "failed", "done"}

(* What has not moved has been read or is after the cursor.                *)
Unmoved ==
  /\ \A c \in Conversations \ moved :
        c \in SeenIds \/ \E k \in Conversations : k > Size - after /\ order[k] = c
  /\ pages = 0 => after = Size

(* A page under way fits into what is still wanted.                        *)
PageFits ==
  /\ IsFiniteSet(results) /\ Cardinality(results) <= Wanted
  /\ step \in {"read", "bare"} => limit \in 1 .. Wanted - Cardinality(results)

(* The conversation that is read without details is one that made its page *)
(* fail, unless that one moved, or another one moved before it.            *)
Isolated ==
  step = "bare" =>
    \/ after = 0 \/ broken \intersect moved # {}
    \/ order[Size - after + 1] \in broken
    \/ pages = 0 /\ order[1] \in moved

(* The invariant, one conjunct for each of the facts that the reading      *)
(* relies on.                                                              *)
PagingInv == PagingTyped /\ Unmoved /\ PageFits /\ Isolated /\ ReadIsComplete

(* The definitions the module shares with the reading mean the same in     *)
(* both.                                                                   *)
LEMMA PagingIs ==
  /\ Paging!Conversations = Conversations /\ Paging!SeenIds = SeenIds
  /\ \A S : Paging!Cardinality(S) = Cardinality(S)
BY DEF Conversations, Paging!Conversations, SeenIds, Paging!SeenIds,
       Cardinality, Paging!Cardinality

(* The invariant holds when the reading begins.                            *)
LEMMA PagingInit == Paging!Init => PagingInv
<1> SUFFICES ASSUME Paging!Init PROVE PagingInv
  OBVIOUS
<1>1. /\ order = [k \in Conversations |-> k] /\ broken \in SUBSET Conversations
      /\ moved = {} /\ results = {} /\ after = Size /\ pages = 0 /\ pageSize = Wanted
      /\ limit = 0 /\ step = "loop"
  BY PagingIs DEF Paging!Init
<1>2. IsFiniteSet({}) /\ Cardinality({}) = 0
  BY FS_EmptySet
<1>3. Size \in Nat /\ Wanted \in Nat \ {0}
  BY PagingAssumption
<1>4. PagingTyped
  BY <1>1, <1>3 DEF PagingTyped
<1>5. Unmoved
  <2>1. ASSUME NEW c \in Conversations PROVE c > Size - after /\ order[c] = c
    BY <1>1, <1>3 DEF Conversations
  <2> QED
    BY <1>1, <2>1 DEF Unmoved
<1>6. PageFits /\ Isolated /\ ReadIsComplete
  BY <1>1, <1>2, <1>3 DEF PageFits, Isolated, ReadIsComplete
<1> QED
  BY <1>4, <1>5, <1>6 DEF PagingInv

(* A conversation moves to the head of the list.                           *)
LEMMA MoveStep ==
  ASSUME PagingInv, NEW i \in 2 .. Size, Paging!Move(i)
  PROVE  PagingInv'
<1>1. /\ step # "done"
      /\ order' = [k \in Conversations |->
                     IF k = 1 THEN order[i] ELSE IF k <= i THEN order[k - 1] ELSE order[k]]
      /\ moved' = moved \union {order[i]}
      /\ after' = IF pages > 0 /\ i > Size - after THEN after - 1 ELSE after
      /\ UNCHANGED <<broken, results, pages, pageSize, limit, step>>
  BY PagingIs DEF Paging!Move
<1>2. /\ Size \in Nat /\ i \in Conversations /\ order \in [Conversations -> Conversations]
      /\ after \in 0 .. Size /\ pages \in Nat
      /\ \A k \in Conversations : k \in Nat \ {0} /\ k <= Size
      /\ \A k \in 1 .. Size : k \in Conversations
  BY PagingAssumption DEF PagingInv, PagingTyped, Conversations
<1>3. PagingTyped'
  <2>1. \A k \in Conversations : k # 1 => k - 1 \in Conversations
    BY <1>2
  <2>2. order' \in [Conversations -> Conversations]
    BY <1>1, <1>2, <2>1
  <2>3. after' \in 0 .. Size
    BY <1>1, <1>2
  <2> QED
    BY <1>1, <1>2, <2>2, <2>3 DEF PagingInv, PagingTyped
<1>4. Unmoved'
  <2>1. SeenIds' = SeenIds
    BY <1>1 DEF SeenIds
  <2>2. ASSUME NEW c \in Conversations \ moved', c \notin SeenIds
        PROVE  \E k \in Conversations : k > Size - after' /\ order'[k] = c
    <3>1. PICK k \in Conversations : k > Size - after /\ order[k] = c
      BY <1>1, <2>2 DEF PagingInv, Unmoved
    <3>2. k # i
      BY <1>1, <2>2, <3>1
    <3>3. CASE k > i
      <4>1. order'[k] = c
        BY <1>1, <1>2, <3>1, <3>3
      <4>2. k > Size - after'
        BY <1>1, <1>2, <3>1, <3>3
      <4> QED
        BY <4>1, <4>2
    <3>4. CASE k < i
      <4>1. k + 1 \in Conversations /\ k + 1 # 1 /\ k + 1 <= i /\ k + 1 - 1 = k
        BY <1>2, <3>4
      <4>2. order'[k + 1] = order[k]
        <5>1. order'[k + 1] = order[(k + 1) - 1]
          BY <1>1, <4>1
        <5>2. k \in Int
          BY <1>2, <3>1
        <5> QED
          BY <5>1, <5>2
      <4>3. k + 1 > Size - after'
        BY <1>1, <1>2, <3>1, <3>4
      <4> QED
        BY <3>1, <4>1, <4>2, <4>3
    <3> QED
      BY <1>2, <3>2, <3>3, <3>4
  <2>3. pages' = 0 => after' = Size
    BY <1>1, <1>2 DEF PagingInv, Unmoved
  <2> QED
    BY <2>1, <2>2, <2>3 DEF Unmoved
<1>5. PageFits'
  BY <1>1 DEF PagingInv, PageFits
<1>6. Isolated'
  <2> SUFFICES ASSUME step = "bare", after # 0, broken \intersect moved = {}
               PROVE  \/ after' = 0 \/ broken \intersect moved' # {}
                      \/ order'[Size - after' + 1] \in broken
                      \/ pages = 0 /\ order'[1] \in moved'
    BY <1>1, <1>2 DEF Isolated
  <2>1. CASE pages = 0
    <3>1. 1 \in Conversations
      BY <1>2
    <3> QED
      BY <1>1, <2>1, <3>1
  <2>2. CASE pages # 0
    <3> DEFINE k == Size - after + 1
    <3>1. order[k] \in broken /\ k \in Conversations /\ k = Size - after + 1
      BY <1>2, <2>2 DEF PagingInv, Isolated
    <3> HIDE DEF k
    <3>2. CASE i = k
      BY <1>1, <3>1, <3>2
    <3>3. CASE i > k
      <4>1. /\ after' = after - 1 /\ Size - after' + 1 = k + 1
            /\ k + 1 \in Conversations /\ k + 1 # 1 /\ k + 1 <= i /\ k + 1 - 1 = k
        BY <1>1, <1>2, <2>2, <3>1, <3>3
      <4>2. order'[k + 1] = order[k]
        <5>1. order'[k + 1] = order[(k + 1) - 1]
          BY <1>1, <4>1
        <5>2. k \in Int
          BY <1>2, <3>1
        <5> QED
          BY <5>1, <5>2
      <4> QED
        BY <3>1, <4>1, <4>2
    <3>4. CASE i < k
      <4>1. after' = after
        BY <1>1, <1>2, <3>1, <3>4
      <4>2. order'[k] = order[k]
        BY <1>1, <1>2, <3>1, <3>4
      <4> QED
        BY <3>1, <4>1, <4>2
    <3> QED
      BY <1>2, <3>1, <3>2, <3>3, <3>4
  <2> QED
    BY <2>1, <2>2
<1>7. ReadIsComplete'
  BY <1>1 DEF PagingInv, ReadIsComplete
<1> QED
  BY <1>3, <1>4, <1>5, <1>6, <1>7 DEF PagingInv

(* The rows of a page that had not been read: no more than the page has.   *)
LEMMA FreshRows ==
  ASSUME PagingInv, NEW n \in Nat, NEW bare \in BOOLEAN
  PROVE  LET new == {[id |-> c, bare |-> bare] : c \in Paging!Page(n) \ SeenIds}
         IN  /\ new \in SUBSET [id : Conversations, bare : BOOLEAN]
             /\ IsFiniteSet(new) /\ Cardinality(new) \in 0 .. n
<1> DEFINE new == {[id |-> c, bare |-> bare] : c \in Paging!Page(n) \ SeenIds}
           lo == Size - after + 1
           hi == Size - after + Paging!Count(n)
           fresh == {k \in lo .. hi : order[k] \notin SeenIds}
           f == [k \in fresh |-> [id |-> order[k], bare |-> bare]]
<1>1. /\ Size \in Nat /\ after \in 0 .. Size /\ order \in [Conversations -> Conversations]
      /\ Paging!Count(n) \in 0 .. after /\ Paging!Count(n) <= n
  BY PagingAssumption DEF PagingInv, PagingTyped, Paging!Count, Paging!Least
<1>2. lo \in Int /\ hi \in Int /\ lo >= 1 /\ hi <= Size /\ hi - lo + 1 \in 0 .. n
  BY <1>1
<1> HIDE DEF lo, hi
<1>3. lo .. hi \subseteq Conversations
  BY <1>1, <1>2 DEF Conversations
<1>4. IsFiniteSet(lo .. hi) /\ Cardinality(lo .. hi) <= n
  <2>1. IsFiniteSet(lo .. hi) /\ Cardinality(lo .. hi) = IF lo > hi THEN 0 ELSE hi - lo + 1
    BY <1>2, FS_Interval
  <2> QED
    BY <1>2, <2>1
<1>5. IsFiniteSet(fresh) /\ Cardinality(fresh) <= n
  <2>1. fresh \in SUBSET (lo .. hi)
    OBVIOUS
  <2>2. Cardinality(fresh) <= Cardinality(lo .. hi) /\ IsFiniteSet(fresh)
    BY <1>4, <2>1, FS_Subset
  <2> QED
    BY <1>4, <2>2, FS_CardinalityType
<1>6. Paging!Page(n) = {order[k] : k \in lo .. hi}
  BY DEF Paging!Page, lo, hi
<1>7. f \in Surjection(fresh, new)
  <2>1. \A k \in fresh : order[k] \in Paging!Page(n) \ SeenIds
    BY <1>6
  <2>2. f \in [fresh -> new]
    BY <2>1
  <2>3. ASSUME NEW x \in new PROVE \E k \in fresh : f[k] = x
    <3>1. PICK c \in Paging!Page(n) \ SeenIds : x = [id |-> c, bare |-> bare]
      OBVIOUS
    <3>2. PICK k \in lo .. hi : c = order[k]
      BY <1>6, <3>1
    <3> QED
      BY <3>1, <3>2
  <2> QED
    BY <2>2, <2>3 DEF Surjection
<1>8. IsFiniteSet(new) /\ Cardinality(new) <= Cardinality(fresh)
  BY <1>5, <1>7, FS_Surjection
<1>9. Paging!Page(n) \subseteq Conversations
  BY <1>1, <1>3, <1>6
<1> QED
  BY <1>5, <1>8, <1>9, FS_CardinalityType

(* The rows of a page are taken, and the reading goes on behind them.      *)
LEMMA TakeRowsStep ==
  ASSUME PagingInv, NEW n \in 1 .. Wanted - Cardinality(results), NEW bare \in BOOLEAN,
         NEW size \in Nat \ {0}, Paging!Take(n, bare, size),
         \A c \in Paging!Page(n) :
            IF bare THEN c \in broken \union moved \/ broken \intersect moved # {}
                    ELSE c \notin broken
  PROVE  PagingInv'
<1> DEFINE new == {[id |-> c, bare |-> bare] : c \in Paging!Page(n) \ SeenIds}
<1>1. /\ results' = results \union new
      /\ after' \in {after - Paging!Count(n), Paging!Least(after, after - Paging!Count(n) + 1)}
      /\ pages' = pages + 1 /\ pageSize' = size
      /\ step' = IF Cardinality(results') >= Wanted \/ Paging!Count(n) = after
                 THEN "done" ELSE "loop"
      /\ UNCHANGED <<order, broken, moved, limit>>
  BY PagingIs DEF Paging!Take, Paging!Following
<1>2. /\ Size \in Nat /\ after \in 0 .. Size /\ order \in [Conversations -> Conversations]
      /\ Wanted \in Nat \ {0} /\ pages \in Nat
      /\ IsFiniteSet(results) /\ Cardinality(results) \in Nat
      /\ results \in SUBSET [id : Conversations, bare : BOOLEAN]
  BY PagingAssumption, FS_CardinalityType DEF PagingInv, PagingTyped, PageFits
<1>3. n \in Nat /\ Cardinality(results) + n <= Wanted
  BY <1>2
<1>4. Paging!Count(n) \in 0 .. after /\ (Paging!Count(n) > 0 \/ after = 0)
  BY <1>2, <1>3 DEF Paging!Count, Paging!Least
<1>5. after' \in 0 .. after /\ after' >= after - Paging!Count(n)
  BY <1>1, <1>2, <1>4 DEF Paging!Least
<1>6. /\ new \in SUBSET [id : Conversations, bare : BOOLEAN]
      /\ IsFiniteSet(new) /\ Cardinality(new) \in 0 .. n
  BY <1>3, FreshRows
<1>7. \A x \in new : x.id \in Paging!Page(n) \ SeenIds /\ x.bare = bare
  OBVIOUS
<1>8. SeenIds' = SeenIds \union (Paging!Page(n) \ SeenIds)
  <2>1. \A x : x \in SeenIds' <=> \E r \in results \union new : x = r.id
    BY <1>1 DEF SeenIds
  <2>2. \A x : (\E r \in results : x = r.id) <=> x \in SeenIds
    BY DEF SeenIds
  <2>3. \A x : (\E r \in new : x = r.id) <=> x \in Paging!Page(n) \ SeenIds
    <3>1. ASSUME NEW x \in Paging!Page(n) \ SeenIds PROVE \E r \in new : x = r.id
      <4>1. [id |-> x, bare |-> bare] \in new
        OBVIOUS
      <4> QED
        BY <4>1
    <3> QED
      BY <1>7, <3>1
  <2> HIDE DEF new
  <2> QED
    BY <2>1, <2>2, <2>3
<1>9. PagingTyped'
  BY <1>1, <1>2, <1>5, <1>6 DEF PagingInv, PagingTyped
<1>10. IsFiniteSet(results') /\ Cardinality(results') <= Wanted
  <2>1. /\ IsFiniteSet(results \union new)
        /\ Cardinality(results \union new)
             = Cardinality(results) + Cardinality(new) - Cardinality(results \intersect new)
    BY <1>2, <1>6, FS_Union
  <2>2. Cardinality(results \intersect new) \in Nat
    <3>1. results \intersect new \in SUBSET results
      OBVIOUS
    <3> QED
      BY <1>2, <3>1, FS_Subset, FS_CardinalityType
  <2> HIDE DEF new
  <2> QED
    BY <1>1, <1>2, <1>3, <1>6, <2>1, <2>2
<1>11. ASSUME NEW c \in Conversations \ moved, c \notin SeenIds'
       PROVE  /\ \E k \in Conversations : k > Size - after' /\ order[k] = c
              /\ Paging!Count(n) # after
  <2>1. PICK k \in Conversations : k > Size - after /\ order[k] = c
    BY <1>8, <1>11 DEF PagingInv, Unmoved
  <2>2. k \notin Size - after + 1 .. Size - after + Paging!Count(n)
    BY <1>8, <1>11, <2>1 DEF Paging!Page
  <2>3. k \in Int /\ k <= Size
    BY <1>2 DEF Conversations
  <2>4. k > Size - after + Paging!Count(n)
    BY <1>2, <1>4, <2>1, <2>2, <2>3
  <2>5. after # Paging!Count(n)
    BY <1>2, <2>3, <2>4
  <2>6. /\ after' \in Int /\ after \in Int /\ Size \in Int /\ Paging!Count(n) \in Int
        /\ after' >= after - Paging!Count(n)
    BY <1>2, <1>4, <1>5
  <2>7. \A a, b, m \in Int : k > Size - a + m /\ b >= a - m => k > Size - b
    BY <2>3, <2>6
  <2>8. k > Size - after'
    BY <2>4, <2>6, <2>7
  <2> QED
    BY <1>1, <2>1, <2>5, <2>8
<1>12. Unmoved'
  <2>1. pages' # 0
    BY <1>1, <1>2
  <2> QED
    BY <1>1, <1>11, <2>1 DEF Unmoved
<1>13. PageFits' /\ Isolated'
  BY <1>1, <1>10 DEF PageFits, Isolated
<1>14. ReadIsComplete'
  <2>1. ASSUME NEW c \in results', NEW d \in results', c.id = d.id
        PROVE  c = d
    <3>1. CASE c \in results /\ d \in results
      BY <2>1, <3>1 DEF PagingInv, ReadIsComplete
    <3>2. CASE c \in new /\ d \in new
      BY <2>1, <3>2
    <3>3. \A x \in results : x.id \in SeenIds
      BY DEF SeenIds
    <3> HIDE DEF new
    <3> QED
      BY <1>1, <1>7, <2>1, <3>1, <3>2, <3>3
  <2>2. ASSUME step' = "done", Cardinality(results') < Wanted, NEW c \in Conversations \ moved
        PROVE  c \in SeenIds'
    <3>1. Cardinality(results') \in Nat
      BY <1>10, FS_CardinalityType
    <3>2. Paging!Count(n) = after
      BY <1>1, <1>2, <2>2, <3>1
    <3> QED
      BY <1>11, <3>2
  <2>3. ASSUME NEW c \in results'
        PROVE  IF c.bare THEN c.id \in broken \union moved \/ broken \intersect moved # {}
                         ELSE c.id \notin broken
    <3>1. CASE c \in results
      BY <3>1 DEF PagingInv, ReadIsComplete
    <3>2. CASE c \in new
      BY <1>7, <3>2
    <3> QED
      BY <1>1, <3>1, <3>2
  <2> QED
    BY <1>1, <1>10, <2>1, <2>2, <2>3 DEF ReadIsComplete
<1> QED
  BY <1>9, <1>12, <1>13, <1>14 DEF PagingInv

(* The page that holds a conversation whose details cannot be read is      *)
(* halved; a page of one is then that conversation.                        *)
LEMMA HalveStep ==
  ASSUME PagingInv, Paging!Halve
  PROVE  PagingInv'
<1>1. /\ step = "read" /\ Paging!Page(limit) \intersect broken # {}
      /\ IF limit > 1 THEN limit' = Paging!Most(1, limit \div 2) /\ step' = step
         ELSE step' = "bare" /\ limit' = limit
      /\ UNCHANGED <<order, broken, moved, results, after, pages, pageSize>>
  BY DEF Paging!Halve
<1>2. /\ Size \in Nat /\ after \in 0 .. Size /\ Cardinality(results) \in Nat
      /\ Wanted \in Nat \ {0} /\ limit \in 1 .. Wanted - Cardinality(results)
  BY <1>1, PagingAssumption, FS_CardinalityType DEF PagingInv, PagingTyped, PageFits
<1>3. limit' \in 1 .. limit
  BY <1>1, <1>2 DEF Paging!Most
<1>4. PagingTyped'
  BY <1>1, <1>2, <1>3 DEF PagingInv, PagingTyped
<1>5. Unmoved'
  BY <1>1 DEF PagingInv, Unmoved, SeenIds
<1>6. PageFits'
  <2>1. limit' \in 1 .. Wanted - Cardinality(results)
    BY <1>2, <1>3
  <2> QED
    BY <1>1, <2>1 DEF PagingInv, PageFits
<1>7. ASSUME step' = "bare" PROVE order[Size - after + 1] \in broken
  <2>1. limit = 1
    BY <1>1, <1>2, <1>7
  <2>2. PICK k \in Size - after + 1 .. Size - after + Paging!Count(1) : order[k] \in broken
    BY <1>1, <2>1 DEF Paging!Page
  <2>3. Paging!Count(1) \in 0 .. 1
    BY <1>2 DEF Paging!Count, Paging!Least
  <2>4. k = Size - after + 1
    BY <1>2, <2>3
  <2> QED
    BY <2>2, <2>4
<1>8. Isolated'
  BY <1>1, <1>7 DEF Isolated
<1>9. ReadIsComplete'
  BY <1>1 DEF PagingInv, ReadIsComplete, SeenIds
<1> QED
  BY <1>4, <1>5, <1>6, <1>8, <1>9 DEF PagingInv

(* ReadIsComplete, for any list, whichever of its conversations cannot be  *)
(* read, however pages are limited and whatever moves while they are read. *)
THEOREM ReadingIsComplete == Paging!Spec => []ReadIsComplete
<1>1. ASSUME PagingInv, [Paging!Next]_Paging!vars PROVE PagingInv'
  <2>1. /\ Size \in Nat /\ Wanted \in Nat \ {0} /\ Cardinality(results) \in Nat
        /\ pageSize \in Nat \ {0} /\ limit \in Nat /\ after \in 0 .. Size
    BY <1>1, PagingAssumption, FS_CardinalityType DEF PagingInv, PagingTyped, PageFits
  <2>2. CASE Paging!BeginPage
    <3>1. /\ step = "loop" /\ step' \in {"read", "failed"}
          /\ limit' \in Nat
          /\ step' = "read" => limit' \in 1 .. Wanted - Cardinality(results)
          /\ UNCHANGED <<order, broken, moved, results, after, pages, pageSize>>
      BY <2>1, <2>2, PagingIs DEF Paging!BeginPage, Paging!Least
    <3>2. PagingTyped' /\ Unmoved' /\ PageFits'
      BY <1>1, <3>1 DEF PagingInv, PagingTyped, Unmoved, PageFits, SeenIds
    <3>3. Isolated' /\ ReadIsComplete'
      BY <1>1, <3>1 DEF PagingInv, Isolated, ReadIsComplete, SeenIds
    <3> QED
      BY <3>2, <3>3 DEF PagingInv
  <2>3. CASE Paging!Halve
    BY <1>1, <2>3, HalveStep
  <2>4. CASE Paging!ReadPage
    <3>1. /\ Paging!Page(limit) \intersect broken = {}
          /\ Paging!Take(limit, FALSE, Paging!Least(Wanted, limit * 2))
          /\ limit \in 1 .. Wanted - Cardinality(results)
      BY <1>1, <2>4 DEF Paging!ReadPage, PagingInv, PageFits
    <3>2. Paging!Least(Wanted, limit * 2) \in Nat \ {0}
      BY <2>1, <3>1 DEF Paging!Least
    <3> QED
      BY <1>1, <3>1, <3>2, TakeRowsStep
  <2>5. CASE Paging!ReadBare
    <3>1. /\ step = "bare" /\ Paging!Take(1, TRUE, 1)
          /\ limit \in 1 .. Wanted - Cardinality(results)
      BY <1>1, <2>5 DEF Paging!ReadBare, PagingInv, PageFits
    <3>2. 1 \in 1 .. Wanted - Cardinality(results)
      BY <2>1, <3>1
    <3>3. ASSUME NEW c \in Paging!Page(1)
          PROVE  c \in broken \union moved \/ broken \intersect moved # {}
      <4>1. PICK k \in Size - after + 1 .. Size - after + Paging!Count(1) : c = order[k]
        BY <3>3 DEF Paging!Page
      <4>2. after # 0 /\ k = Size - after + 1
        BY <2>1, <4>1 DEF Paging!Count, Paging!Least
      <4>3. pages = 0 => k = 1
        BY <1>1, <2>1, <4>2 DEF PagingInv, Unmoved
      <4> QED
        BY <1>1, <3>1, <4>1, <4>2, <4>3 DEF PagingInv, Isolated
    <3>4. \A c \in Paging!Page(1) :
             IF TRUE THEN c \in broken \union moved \/ broken \intersect moved # {}
                     ELSE c \notin broken
      BY <3>3
    <3>5. 1 \in Nat \ {0} /\ TRUE \in BOOLEAN
      OBVIOUS
    <3> QED
      BY <1>1, <3>1, <3>2, <3>4, <3>5, TakeRowsStep
  <2>6. CASE Paging!Fail
    BY <1>1, <2>6
       DEF Paging!Fail, PagingInv, PagingTyped, Unmoved, PageFits, Isolated, ReadIsComplete, SeenIds
  <2>7. ASSUME NEW i \in 2 .. Size, Paging!Move(i) PROVE PagingInv'
    BY <1>1, <2>7, MoveStep
  <2>8. CASE UNCHANGED Paging!vars
    BY <1>1, <2>8
       DEF Paging!vars, PagingInv, PagingTyped, Unmoved, PageFits, Isolated, ReadIsComplete, SeenIds
  <2> QED
    BY <1>1, <2>2, <2>3, <2>4, <2>5, <2>6, <2>7, <2>8 DEF Paging!Next, Paging!Reading
<1>2. PagingInv => ReadIsComplete
  BY DEF PagingInv
<1> QED
  BY PagingInit, <1>1, <1>2, PTL DEF Paging!Spec
-----------------------------------------------------------------------------
(* Inbox.                                                                  *)

(* Every mark of a request for a list is one of a request under way.       *)
Marked ==
  /\ guard = listing
  /\ IsFiniteSet(listing) /\ IsFiniteSet(loading)

(* What may still be painted over the list of the selected account: the    *)
(* lists asked for of other accounts, and the one that a message sent from *)
(* another account will ask for,                                           *)
LateLists ==
  Cardinality(listing \ {selected})
  + (IF sending.st # "idle" /\ sending.from # selected THEN 1 ELSE 0)

(* and over the pane of the open conversation.                             *)
Elsewhere == {r \in loading : r[1] # open}

LatePanes ==
  Cardinality(Elsewhere)
  + (IF sending.st = "posted" /\ sending.to # open THEN 1 ELSE 0)

ListsRunOut ==
  selected' = selected =>
    /\ LateLists' <= LateLists
    /\ list' \notin {list, selected} => LateLists' < LateLists

PanesRunOut ==
  open' = open =>
    /\ LatePanes' <= LatePanes
    /\ pane' \notin {pane, open} => LatePanes' < LatePanes

(* A list is asked for once.                                               *)
LEMMA ListMarked ==
  ASSUME Marked, NEW a, Mailbox!LoadList(a)
  PROVE  /\ guard' = listing' /\ IsFiniteSet(listing')
         /\ listing' = listing \/ listing' = listing \union {a}
<1>1. IsFiniteSet(listing) /\ IsFiniteSet(listing \union {a})
  BY FS_AddElement DEF Marked
<1>2. /\ guard' = listing'
      /\ listing' = listing \/ listing' = listing \union {a}
  BY DEF Marked, Mailbox!LoadList
<1> QED
  BY <1>1, <1>2

LEMMA ListAsked ==
  ASSUME Marked, NEW a, Mailbox!LoadList(a), UNCHANGED selected
  PROVE  /\ Cardinality(listing' \ {selected}) \in Nat /\ Cardinality(listing \ {selected}) \in Nat
         /\ Cardinality(listing' \ {selected}) <= Cardinality(listing \ {selected})
              + IF a # selected THEN 1 ELSE 0
<1>1. guard' = listing' /\ (listing' = listing \/ listing' = listing \union {a})
  BY ListMarked
<1>2. IsFiniteSet(listing) /\ IsFiniteSet(listing \ {selected})
  BY FS_Difference DEF Marked
<1>3. Cardinality(listing \ {selected}) \in Nat
  BY <1>2, FS_CardinalityType
<1>4. CASE listing' \ {selected} = listing \ {selected}
  <2>1. Cardinality(listing' \ {selected}) = Cardinality(listing \ {selected})
    BY <1>4
  <2> QED
    BY <1>3, <2>1
<1>5. CASE listing' = listing \union {a} /\ a # selected
  <2>1. listing' \ {selected} = (listing \ {selected}) \union {a}
    BY <1>5
  <2>2. Cardinality(listing' \ {selected}) \in
          {Cardinality(listing \ {selected}), Cardinality(listing \ {selected}) + 1}
    BY <1>2, <2>1, FS_AddElement
  <2> QED
    BY <1>3, <1>5, <2>2
<1>6. listing' = listing \/ a = selected => listing' \ {selected} = listing \ {selected}
  BY <1>1
<1> QED
  BY <1>1, <1>4, <1>5, <1>6

(* An answer, or a failure, takes its request away.                        *)
LEMMA ListTold ==
  ASSUME Marked, NEW a \in listing, listing' = listing \ {a}, UNCHANGED <<selected, sending>>
  PROVE  LateLists' <= LateLists /\ (a # selected => LateLists' < LateLists)
<1>1. IsFiniteSet(listing \ {selected}) /\ Cardinality(listing \ {selected}) \in Nat
  BY FS_Difference, FS_CardinalityType DEF Marked
<1>2. CASE a = selected
  <2>1. listing' \ {selected} = listing \ {selected}
    BY <1>2
  <2> QED
    BY <1>1, <1>2, <2>1 DEF LateLists
<1>3. CASE a # selected
  <2>1. a \in listing \ {selected} /\ listing' \ {selected} = (listing \ {selected}) \ {a}
    BY <1>3
  <2>2. Cardinality(listing' \ {selected}) = Cardinality(listing \ {selected}) - 1
    BY <1>1, <2>1, FS_RemoveElement
  <2> QED
    BY <1>1, <2>2 DEF LateLists
<1> QED
  BY <1>2, <1>3

(* A message's conversation is asked for.                                  *)
LEMMA ThreadAsked ==
  ASSUME Marked, NEW t, NEW a, Mailbox!Ask(t, a), UNCHANGED open
  PROVE  /\ IsFiniteSet(loading')
         /\ Cardinality(Elsewhere) \in Nat /\ Cardinality(Elsewhere)' \in Nat
         /\ Cardinality(Elsewhere)' <= Cardinality(Elsewhere) + IF t # open THEN 1 ELSE 0
<1>1. loading' = loading \union {<<t, a>>} /\ IsFiniteSet(loading) /\ IsFiniteSet(loading')
  BY FS_AddElement DEF Mailbox!Ask, Marked
<1>2. IsFiniteSet(Elsewhere) /\ Cardinality(Elsewhere) \in Nat
  <2>1. Elsewhere \subseteq loading
    BY DEF Elsewhere
  <2> QED
    BY <1>1, <2>1, FS_Subset, FS_CardinalityType
<1>3. CASE t = open
  <2>1. Elsewhere' = Elsewhere
    BY <1>1, <1>3 DEF Elsewhere
  <2> QED
    BY <1>1, <1>2, <1>3, <2>1
<1>4. CASE t # open
  <2>1. Elsewhere' = Elsewhere \union {<<t, a>>}
    BY <1>1, <1>4 DEF Elsewhere
  <2>2. Cardinality(Elsewhere') \in {Cardinality(Elsewhere), Cardinality(Elsewhere) + 1}
    BY <1>2, <2>1, FS_AddElement
  <2> QED
    BY <1>1, <1>2, <1>4, <2>2
<1> QED
  BY <1>3, <1>4

(* The answer about a conversation.                                        *)
LEMMA ThreadTold ==
  ASSUME Marked, NEW t, NEW a, <<t, a>> \in loading, loading' = loading \ {<<t, a>>},
         UNCHANGED <<open, sending>>
  PROVE  /\ IsFiniteSet(loading')
         /\ LatePanes' <= LatePanes /\ (t # open => LatePanes' < LatePanes)
<1>1. IsFiniteSet(loading) /\ IsFiniteSet(loading')
  BY FS_Difference DEF Marked
<1>2. IsFiniteSet(Elsewhere) /\ Cardinality(Elsewhere) \in Nat
  <2>1. Elsewhere \subseteq loading
    BY DEF Elsewhere
  <2> QED
    BY <1>1, <2>1, FS_Subset, FS_CardinalityType
<1>3. CASE t = open
  <2>1. Elsewhere' = Elsewhere
    BY <1>3 DEF Elsewhere
  <2> QED
    BY <1>1, <1>2, <1>3, <2>1 DEF LatePanes
<1>4. CASE t # open
  <2>1. <<t, a>> \in Elsewhere /\ Elsewhere' = Elsewhere \ {<<t, a>>}
    BY <1>4 DEF Elsewhere
  <2>2. Cardinality(Elsewhere') = Cardinality(Elsewhere) - 1
    BY <1>2, <2>1, FS_RemoveElement
  <2> QED
    BY <1>1, <1>2, <2>2 DEF LatePanes
<1> QED
  BY <1>3, <1>4

(* Both numbers are numbers.                                               *)
LEMMA LateIs ==
  ASSUME Marked
  PROVE  /\ LateLists \in Nat /\ LatePanes \in Nat
         /\ Cardinality(listing \ {selected}) \in Nat /\ Cardinality(Elsewhere) \in Nat
<1>1. IsFiniteSet(listing \ {selected}) /\ IsFiniteSet(Elsewhere)
  <2>1. Elsewhere \subseteq loading
    BY DEF Elsewhere
  <2> QED
    BY <2>1, FS_Difference, FS_Subset DEF Marked
<1>2. Cardinality(listing \ {selected}) \in Nat /\ Cardinality(Elsewhere) \in Nat
  BY <1>1, FS_CardinalityType
<1> QED
  BY <1>2 DEF LateLists, LatePanes

(* The steps of the list.                                                  *)
LEMMA ListSteps ==
  ASSUME Marked,
         \/ \E a \in Accounts :
               Mailbox!Select(a) \/ Mailbox!ListAnswered(a) \/ Mailbox!ListFails(a)
         \/ Mailbox!PollList
  PROVE  Marked' /\ ListsRunOut /\ PanesRunOut
<1>1. LateLists \in Nat /\ LatePanes \in Nat
  BY LateIs
<1>2. ASSUME NEW a, Mailbox!Select(a) PROVE Marked' /\ ListsRunOut /\ PanesRunOut
  <2>1. /\ Mailbox!LoadList(a) /\ selected' # selected /\ UNCHANGED <<loading, sending>>
        /\ open' = None /\ pane' = None
    BY <1>2 DEF Mailbox!Select
  <2>2. Marked'
    BY <2>1, ListMarked DEF Marked
  <2>3. ASSUME open' = open PROVE LatePanes' = LatePanes
    BY <2>1, <2>3 DEF LatePanes, Elsewhere
  <2> QED
    BY <1>1, <2>1, <2>2, <2>3 DEF ListsRunOut, PanesRunOut
<1>3. CASE Mailbox!PollList
  <2>1. Mailbox!LoadList(selected) /\ UNCHANGED <<selected, list, open, pane, loading, sending>>
    BY <1>3 DEF Mailbox!PollList
  <2>2. Marked'
    BY <2>1, ListMarked DEF Marked
  <2>3. Cardinality(listing' \ {selected}) <= Cardinality(listing \ {selected})
    BY <2>1, ListAsked, LateIs
  <2>4. LateLists' <= LateLists /\ LatePanes' = LatePanes
    <3>1. Cardinality(listing' \ {selected}) \in Nat /\ Cardinality(listing \ {selected}) \in Nat
      BY <2>1, ListAsked
    <3> QED
      BY <2>1, <2>3, <3>1 DEF LateLists, LatePanes, Elsewhere
  <2> QED
    BY <1>1, <2>1, <2>2, <2>4 DEF ListsRunOut, PanesRunOut
<1>4. ASSUME NEW a, Mailbox!ListAnswered(a) \/ Mailbox!ListFails(a)
      PROVE  Marked' /\ ListsRunOut /\ PanesRunOut
  <2>1. /\ a \in listing /\ listing' = listing \ {a} /\ guard' = guard \ {a}
        /\ list' \in {list, a}
        /\ UNCHANGED <<selected, open, pane, loading, sending>>
    BY <1>4 DEF Mailbox!ListAnswered, Mailbox!ListFails
  <2>2. Marked'
    BY <2>1, FS_Difference DEF Marked
  <2>3. LateLists' <= LateLists /\ (a # selected => LateLists' < LateLists)
    BY <2>1, ListTold
  <2>4. LatePanes' = LatePanes
    BY <2>1 DEF LatePanes, Elsewhere
  <2> QED
    BY <1>1, <2>1, <2>2, <2>3, <2>4 DEF ListsRunOut, PanesRunOut
<1> QED
  BY <1>2, <1>3, <1>4

(* The steps of the pane.                                                  *)
LEMMA PaneSteps ==
  ASSUME Marked,
         \/ \E t \in Threads : Mailbox!OpenThread(t) \/ \E a \in Accounts : Mailbox!Answers(t, a)
         \/ Mailbox!PollThread \/ Mailbox!Leave
  PROVE  Marked' /\ ListsRunOut /\ PanesRunOut
<1>1. LateLists \in Nat /\ LatePanes \in Nat
  BY LateIs
<1>2. ASSUME UNCHANGED <<selected, list, listing, sending>>
      PROVE  LateLists' = LateLists /\ ListsRunOut
  BY <1>1, <1>2 DEF LateLists, ListsRunOut
<1>3. ASSUME NEW t \in Threads, Mailbox!OpenThread(t) PROVE Marked' /\ ListsRunOut /\ PanesRunOut
  <2>1. /\ Mailbox!Ask(t, selected) /\ open' # open
        /\ UNCHANGED <<selected, list, guard, listing, sending>>
    BY <1>3 DEF Mailbox!OpenThread
  <2>2. IsFiniteSet(loading')
    BY <2>1, FS_AddElement DEF Mailbox!Ask, Marked
  <2> QED
    BY <1>2, <2>1, <2>2 DEF Marked, PanesRunOut
<1>4. ASSUME NEW t \in Threads, NEW a \in Accounts, Mailbox!Answers(t, a)
      PROVE  Marked' /\ ListsRunOut /\ PanesRunOut
  <2>1. /\ <<t, a>> \in loading /\ loading' = loading \ {<<t, a>>} /\ pane' \in {pane, t}
        /\ UNCHANGED <<selected, list, guard, listing, open, sending>>
    BY <1>4 DEF Mailbox!Answers, Mailbox!ThreadAnswered, Mailbox!ThreadFails
  <2>2. IsFiniteSet(loading') /\ LatePanes' <= LatePanes /\ (t # open => LatePanes' < LatePanes)
    BY <2>1, ThreadTold
  <2> QED
    BY <1>2, <2>1, <2>2 DEF Marked, PanesRunOut
<1>5. CASE Mailbox!PollThread
  <2>1. /\ Mailbox!Ask(open, selected)
        /\ UNCHANGED <<selected, list, guard, listing, open, pane, sending>>
    BY <1>5 DEF Mailbox!PollThread
  <2>2. /\ IsFiniteSet(loading') /\ Cardinality(Elsewhere) \in Nat /\ Cardinality(Elsewhere)' \in Nat
        /\ Cardinality(Elsewhere)' <= Cardinality(Elsewhere)
    BY <2>1, ThreadAsked
  <2>3. LatePanes' <= LatePanes
    BY <2>1, <2>2 DEF LatePanes
  <2> QED
    BY <1>2, <2>1, <2>2, <2>3 DEF Marked, PanesRunOut
<1>6. CASE Mailbox!Leave
  <2>1. open' # open /\ UNCHANGED <<selected, list, guard, listing, loading, sending>>
    BY <1>6 DEF Mailbox!Leave, Mailbox!Active
  <2> QED
    BY <1>2, <2>1 DEF Marked, PanesRunOut
<1> QED
  BY <1>3, <1>4, <1>5, <1>6

(* The steps of the composer: a message is sent from the selected account  *)
(* to the open conversation, and what it asks for has been counted since.  *)
LEMMA ComposerSteps ==
  ASSUME Marked,
         Mailbox!Send \/ Mailbox!SendAnswered \/ Mailbox!SendFails \/ Mailbox!SendEnds
  PROVE  Marked' /\ ListsRunOut /\ PanesRunOut
<1>1. /\ LateLists \in Nat /\ LatePanes \in Nat
      /\ Cardinality(listing \ {selected}) \in Nat /\ Cardinality(Elsewhere) \in Nat
  BY LateIs
<1>2. UNCHANGED <<selected, list, open, pane>>
  BY DEF Mailbox!Send, Mailbox!SendAnswered, Mailbox!SendFails, Mailbox!SendEnds
<1>3. ASSUME LateLists' <= LateLists, LatePanes' <= LatePanes PROVE ListsRunOut /\ PanesRunOut
  BY <1>2, <1>3 DEF ListsRunOut, PanesRunOut
<1>4. CASE Mailbox!Send
  <2>1. /\ sending'.st = "posted" /\ sending'.to = open /\ sending'.from = selected
        /\ UNCHANGED <<guard, listing, loading>>
    BY <1>4 DEF Mailbox!Send, Mailbox!Active
  <2>2. LateLists' <= LateLists /\ LatePanes' <= LatePanes
    BY <1>1, <1>2, <2>1 DEF LateLists, LatePanes, Elsewhere
  <2> QED
    BY <1>3, <2>1, <2>2 DEF Marked
<1>5. CASE Mailbox!SendAnswered
  <2>1. /\ sending.st = "posted" /\ sending' = [sending EXCEPT !.st = "reload"]
        /\ Mailbox!Ask(sending.to, sending.from) /\ UNCHANGED <<guard, listing>>
    BY <1>5 DEF Mailbox!SendAnswered
  <2>2. sending'.st = "reload" /\ sending'.from = sending.from
    BY <2>1
  <2>3. /\ IsFiniteSet(loading') /\ Cardinality(Elsewhere)' \in Nat
        /\ Cardinality(Elsewhere)' <= Cardinality(Elsewhere) + IF sending.to # open THEN 1 ELSE 0
    BY <1>2, <2>1, ThreadAsked
  <2>4. LateLists' <= LateLists
    BY <1>1, <1>2, <2>1, <2>2 DEF LateLists
  <2>5. LatePanes' <= LatePanes
    BY <1>1, <1>2, <2>1, <2>2, <2>3 DEF LatePanes
  <2> QED
    BY <1>3, <2>1, <2>3, <2>4, <2>5 DEF Marked
<1>6. CASE Mailbox!SendFails
  <2>1. sending'.st = "idle" /\ UNCHANGED <<guard, listing, loading>>
    BY <1>6 DEF Mailbox!SendFails, Mailbox!NoSend
  <2>2. LateLists' <= LateLists /\ LatePanes' <= LatePanes
    BY <1>1, <1>2, <2>1 DEF LateLists, LatePanes, Elsewhere
  <2> QED
    BY <1>3, <2>1, <2>2 DEF Marked
<1>7. CASE Mailbox!SendEnds
  <2>1. /\ sending.st = "reload" /\ sending'.st = "idle" /\ UNCHANGED loading
        /\ Mailbox!LoadList(sending.from)
    BY <1>7 DEF Mailbox!SendEnds, Mailbox!NoSend
  <2>2. Marked'
    BY <2>1, ListMarked DEF Marked
  <2>3. /\ Cardinality(listing' \ {selected}) \in Nat
        /\ Cardinality(listing' \ {selected}) <= Cardinality(listing \ {selected})
             + IF sending.from # selected THEN 1 ELSE 0
    BY <1>2, <2>1, ListAsked
  <2>4. LateLists' <= LateLists
    BY <1>1, <1>2, <2>1, <2>3 DEF LateLists
  <2>5. LatePanes' <= LatePanes
    BY <1>1, <1>2, <2>1 DEF LatePanes, Elsewhere
  <2> QED
    BY <1>3, <2>2, <2>4, <2>5
<1> QED
  BY <1>4, <1>5, <1>6, <1>7

(* While the user stays with an account, or with a conversation, what may  *)
(* still be painted over the choice only shrinks, and each late answer     *)
(* that is painted uses one up: neither polls nor messages sent add to it  *)
(* (app/(dashboard)/inbox/page.tsx:141 and 186). And an account without a  *)
(* request under way is not marked as having one, so that its poll asks    *)
(* again.                                                                  *)
THEOREM LateAnswersRunOut ==
  Mailbox!Spec => /\ [](guard = listing /\ LateLists \in Nat /\ LatePanes \in Nat)
                  /\ [][ListsRunOut /\ PanesRunOut]_(Mailbox!vars)
<1>1. Mailbox!Init => Marked
  <2>1. Mailbox!Init => guard = {selected} /\ listing = {selected} /\ loading = {}
    BY DEF Mailbox!Init
  <2>2. IsFiniteSet({selected}) /\ IsFiniteSet({})
    BY FS_Singleton, FS_EmptySet
  <2> QED
    BY <2>1, <2>2 DEF Marked
<1>2. Marked /\ [Mailbox!Next]_(Mailbox!vars) =>
        Marked' /\ [ListsRunOut /\ PanesRunOut]_(Mailbox!vars)
  <2> SUFFICES ASSUME Marked, [Mailbox!Next]_(Mailbox!vars)
               PROVE  Marked' /\ [ListsRunOut /\ PanesRunOut]_(Mailbox!vars)
    OBVIOUS
  <2>1. CASE Mailbox!Next
    <3>1. \/ \/ \E a \in Accounts :
                  Mailbox!Select(a) \/ Mailbox!ListAnswered(a) \/ Mailbox!ListFails(a)
             \/ Mailbox!PollList
          \/ \/ \E t \in Threads :
                  Mailbox!OpenThread(t) \/ \E a \in Accounts : Mailbox!Answers(t, a)
             \/ Mailbox!PollThread \/ Mailbox!Leave
          \/ Mailbox!Send \/ Mailbox!SendAnswered \/ Mailbox!SendFails \/ Mailbox!SendEnds
      BY <2>1 DEF Mailbox!Next
    <3> QED
      BY <3>1, ListSteps, PaneSteps, ComposerSteps
  <2>2. CASE UNCHANGED Mailbox!vars
    BY <2>2 DEF Mailbox!vars, Marked
  <2> QED
    BY <2>1, <2>2
<1>3. Marked => guard = listing /\ LateLists \in Nat /\ LatePanes \in Nat
  BY LateIs DEF Marked
<1> QED
  BY <1>1, <1>2, <1>3, PTL DEF Mailbox!Spec
=============================================================================
