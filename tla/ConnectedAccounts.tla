--------------------------- MODULE ConnectedAccounts ---------------------------
(***************************************************************************)
(* The Instagram accounts of all workspaces, what they work with, and what *)
(* is expected of it.  AccountConnections has the requests that change it. *)
(***************************************************************************)
EXTENDS Naturals

CONSTANTS
  Instagram     \* Instagram accounts, by their user id

VARIABLES
  account,      \* InstagramAccount rows by instagramId (which is unique)
  connection,   \* ZernioConnection rows by workspace
  remote,       \* webhooks at Zernio with our URL: id, key, workspace, secret
  collided      \* history: rows a Composio save wrote over that it had not seen

NoRow == [id |-> 0]
NoConnection == [born |-> 0]
Cred(w, kind) == [ws |-> w, kind |-> kind]
Exists(i) == account[i] # NoRow

\* Every account works with a credential of its own workspace and its own
\* provider, whoever else connects, disconnects or refreshes the same account
\* meanwhile. The one exception is a Composio save whose row appeared between its
\* check and its upsert (link-account.ts:28-33).
CredentialsFit ==
  \A i \in Instagram:
    Exists(i) /\ account[i].provider # "ZERNIO" /\ i \notin collided =>
      account[i].cred = Cred(account[i].ws, account[i].provider)

\* Every imported account has its workspace's connection behind it, in the profile
\* it was imported from: removal, recreation or a change of profile cannot race an
\* import (lock-connection.ts:6).
ImportsHaveConnection ==
  \A i \in Instagram:
    Exists(i) /\ account[i].provider = "ZERNIO" =>
      LET c == connection[account[i].ws] IN
      c # NoConnection /\ c.profile = account[i].profile

\* Whichever way an account was connected, what its workspace needs to act for it is
\* there: the credential of its provider, or the connection it was imported from.
AccountsAreBacked == CredentialsFit /\ ImportsHaveConnection

\* However the remote calls of a connection fail, a workspace never has two
\* webhooks under one key, and the webhook a connection knows signs with the
\* connection's secret (manage-remote.ts:31-45).
WebhookVerifies ==
  /\ \A g, h \in remote: g.key = h.key /\ g.ws = h.ws => g = h
  /\ \A h \in remote:
       LET c == connection[h.ws] IN
       c # NoConnection /\ c.hook = h.id => h.secret = c.born
=============================================================================
