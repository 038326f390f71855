-------------------------------- MODULE Inbox --------------------------------
(***************************************************************************)
(* The inbox page (app/(dashboard)/inbox/page.tsx): the list of the        *)
(* selected account's conversations and the pane of the open one, both     *)
(* polled every 12 s, each answer painted when it arrives, whatever the    *)
(* user has turned to meanwhile; and the composer.                         *)
(*                                                                         *)
(* A list stands for the account it is of, the content of the pane for the *)
(* conversation it is of.  Whether sessionStorage has a copy of either is  *)
(* a choice: it outlives visits, and keeping one is best effort.  Texts    *)
(* are left out, and so is the message shown while it is being sent.       *)
(***************************************************************************)
EXTENDS Naturals, FiniteSets

CONSTANTS
    Accounts,    \* the connected accounts
    Threads,     \* the conversations
    Home,        \* [Threads -> Accounts]
    None         \* no account, no conversation

VARIABLES
    selected,    \* selectedAccountId
    list,        \* the account whose conversations are listed
    guard,       \* conversationRequests, accounts with a request under way
    listing,     \* accounts whose list has been asked for and not answered
    open,        \* activeId
    pane,        \* the conversation whose messages are shown
    loading,     \* requests for messages under way, <<conversation, account>>
    sending      \* the message being sent

vars == <<selected, list, guard, listing, open, pane, loading, sending>>

NoSend == [st |-> "idle", to |-> None, from |-> None]

Init ==
    /\ selected \in Accounts
    /\ list = None
    /\ guard = {selected} /\ listing = {selected}
    /\ open = None /\ pane = None /\ loading = {}
    /\ sending = NoSend

\* A cached copy, or none.
Copy(key) == {key, None}

\* The conversation of activeId, when the list has it.
Active == IF open # None /\ list = Home[open] THEN open ELSE None

-----------------------------------------------------------------------------
\* The list.

\* A request, unless one for the account is under way.
LoadList(a) ==
    IF a \in guard THEN UNCHANGED <<guard, listing>>
    ELSE guard' = guard \union {a} /\ listing' = listing \union {a}

\* Another account: its cached list, no open conversation, a fresh list.
Select(a) ==
    /\ a # selected
    /\ selected' = a /\ list' \in Copy(a)
    /\ open' = None /\ pane' = None
    /\ LoadList(a)
    /\ UNCHANGED <<loading, sending>>

PollList ==
    /\ selected \notin guard
    /\ LoadList(selected)
    /\ UNCHANGED <<selected, list, open, pane, loading, sending>>

\* The answer is painted, even when another account has been selected.
ListAnswered(a) ==
    /\ a \in listing
    /\ listing' = listing \ {a} /\ guard' = guard \ {a}
    /\ list' = a
    /\ UNCHANGED <<selected, open, pane, loading, sending>>

\* A bug: only an answer clears the mark of the request.
ListFailsMarked(a) ==
    /\ a \in listing
    /\ listing' = listing \ {a}
    /\ UNCHANGED <<selected, list, guard, open, pane, loading, sending>>

\* The request fails; its mark is cleared in the finally clause.
ListFails(a) ==
    /\ a \in listing
    /\ listing' = listing \ {a} /\ guard' = guard \ {a}
    /\ UNCHANGED <<selected, list, open, pane, loading, sending>>

-----------------------------------------------------------------------------
\* The pane.

Ask(t, a) == loading' = loading \union {<<t, a>>}

\* The user opens a conversation of the list: the cached copy, and a request.
OpenThread(t) ==
    /\ list = Home[t] /\ open # t
    /\ open' = t /\ pane' \in Copy(t)
    /\ Ask(t, selected)
    /\ UNCHANGED <<selected, list, guard, listing, sending>>

\* A bug: the timer asks only while the pane is empty.
PollThreadEmpty ==
    /\ open # None /\ <<open, selected>> \notin loading /\ pane = None
    /\ Ask(open, selected)
    /\ UNCHANGED <<selected, list, guard, listing, open, pane, sending>>

\* The timer asks whatever the pane shows.  Requests for the same messages under
\* way together are one in the model.
PollThread ==
    /\ open # None /\ <<open, selected>> \notin loading
    /\ Ask(open, selected)
    /\ UNCHANGED <<selected, list, guard, listing, open, pane, sending>>

\* The messages are painted, even when another conversation has been opened.  The
\* route finds them only with the account they belong to.
ThreadAnswered(t, a) ==
    /\ <<t, a>> \in loading /\ a = Home[t]
    /\ loading' = loading \ {<<t, a>>}
    /\ pane' = t
    /\ UNCHANGED <<selected, list, guard, listing, open, sending>>

\* What is shown is kept.
ThreadFails(t, a) ==
    /\ <<t, a>> \in loading
    /\ loading' = loading \ {<<t, a>>}
    /\ UNCHANGED <<selected, list, guard, listing, open, pane, sending>>

\* The button of a small screen.
Leave ==
    /\ Active # None
    /\ open' = None
    /\ UNCHANGED <<selected, list, guard, listing, pane, loading, sending>>

-----------------------------------------------------------------------------
\* The composer.

\* The message is posted to the contact of the conversation.
Send ==
    /\ Active # None /\ sending = NoSend
    /\ sending' = [st |-> "posted", to |-> Active, from |-> selected]
    /\ UNCHANGED <<selected, list, guard, listing, open, pane, loading>>

\* It was sent: its conversation is asked for, with the account it was sent from.
SendAnswered ==
    /\ sending.st = "posted" /\ sending.from = Home[sending.to]
    /\ sending' = [sending EXCEPT !.st = "reload"]
    /\ Ask(sending.to, sending.from)
    /\ UNCHANGED <<selected, list, guard, listing, open, pane>>

\* It was not, or nobody knows.
SendFails ==
    /\ sending.st = "posted"
    /\ sending' = NoSend
    /\ UNCHANGED <<selected, list, guard, listing, open, pane, loading>>

\* The messages have come, or not, and the list is asked for.
SendEnds ==
    /\ sending.st = "reload" /\ <<sending.to, sending.from>> \notin loading
    /\ sending' = NoSend
    /\ LoadList(sending.from)
    /\ UNCHANGED <<selected, list, open, pane, loading>>

Answers(t, a) == ThreadAnswered(t, a) \/ ThreadFails(t, a)

Next ==
    \/ \E a \in Accounts : Select(a) \/ ListAnswered(a) \/ ListFails(a)
    \/ \E t \in Threads : OpenThread(t) \/ \E a \in Accounts : Answers(t, a)
    \/ PollList \/ PollThread \/ Leave
    \/ Send \/ SendAnswered \/ SendFails \/ SendEnds

\* The timers fire, every request ends, and does not fail every time.  Nothing is
\* assumed of the user.
Fairness ==
    /\ WF_vars(PollList) /\ WF_vars(PollThread)
    /\ \A a \in Accounts : SF_vars(ListAnswered(a))
    /\ \A t \in Threads : SF_vars(ThreadAnswered(t, Home[t]))
    /\ \A t \in Threads, a \in Accounts : a # Home[t] => WF_vars(ThreadFails(t, a))
    /\ WF_vars(SendAnswered \/ SendFails) /\ WF_vars(SendEnds)

Spec == Init /\ [][Next]_vars /\ Fairness

-----------------------------------------------------------------------------
\* What is expected of the inbox.

TypeOK ==
    /\ selected \in Accounts /\ list \in Accounts \union {None}
    /\ guard \subseteq Accounts /\ listing \subseteq guard
    /\ open \in Threads \union {None} /\ pane \in Threads \union {None}
    /\ loading \subseteq Threads \X Accounts

\* Once the user stays with an account, the list becomes and stays that account's,
\* whatever lists were under way.
ListSettles == \A a \in Accounts : <>[](selected = a) => <>[](list = a)

\* Once the user stays with a conversation of the account, the pane becomes and stays
\* that conversation's, though late answers of others have been painted over it.
PaneSettles ==
    \A t \in Threads : <>[](open = t /\ selected = Home[t]) => <>[](pane = t)

\* Both: the page shows what the user chose last, however its answers overtake
\* each other.
InboxSettles == ListSettles /\ PaneSettles
=============================================================================
