----------------------------- MODULE ImportQueue -----------------------------
(***************************************************************************)
(* The import of campaigns from a table                                    *)
(* (app/(dashboard)/campaigns/import/page.tsx): the rows are staged in     *)
(* localStorage (lib/import-queue.ts), which every tab of the browser      *)
(* shares, and the campaign builder (components/campaign-builder.tsx)      *)
(* takes them up, opens the first, and with every save or skip writes back *)
(* what is left.                                                           *)
(*                                                                         *)
(* What is left of an import is the rows from some row on, and stands for  *)
(* the number of that row; a staged import is a number too.  The texts of  *)
(* the form and the account it is for are left out, and so is the table:   *)
(* that each row has keywords and a message is a matter of one pass.       *)
(***************************************************************************)
EXTENDS ImportTable

CONSTANTS
    Tabs         \* tabs of the user's browser

VARIABLES
    tab          \* the page of each tab, its queue, and the save under way

vars == <<staged, stored, tab, imported, skipped, mixed>>

Closed == [page |-> "none", queue |-> NoQueue, saving |-> FALSE]

TypeOK ==
    /\ staged \in 0 .. MaxImports
    /\ stored \in Queues \union {NoQueue}
    /\ tab \in [Tabs -> [page : {"none", "import", "builder"},
                         queue : Queues \union {NoQueue}, saving : BOOLEAN]]
    /\ imported \subseteq Imports \X Rows /\ skipped \subseteq Imports \X Rows
    /\ mixed \subseteq Imports

Init ==
    /\ staged = 0 /\ stored = NoQueue
    /\ tab = [t \in Tabs |-> Closed]
    /\ imported = {} /\ skipped = {} /\ mixed = {}

-----------------------------------------------------------------------------
\* The import page.

OpenImport(t) ==
    /\ tab[t].page = "none"
    /\ tab' = [tab EXCEPT ![t].page = "import"]
    /\ UNCHANGED <<staged, stored, imported, skipped, mixed>>

Unfinished == {q \in {stored} \union {tab[t].queue : t \in Tabs} : q # NoQueue}

\* The rows replace whatever was staged, and the builder is opened.
StartImport(t) ==
    /\ tab[t].page = "import" /\ staged < MaxImports
    /\ staged' = staged + 1
    /\ stored' = [import |-> staged', next |-> 1]
    /\ tab' = [tab EXCEPT ![t] = Closed]
    /\ mixed' = IF Unfinished = {} THEN mixed ELSE mixed \union (1 .. staged')
    /\ UNCHANGED <<imported, skipped>>

-----------------------------------------------------------------------------
\* The builder.

\* Opened for an import or for a campaign of its own, it takes up what is staged.
OpenBuilder(t) ==
    /\ tab[t].page = "none"
    /\ tab' = [tab EXCEPT ![t] = [page |-> "builder", queue |-> stored, saving |-> FALSE]]
    /\ UNCHANGED <<staged, stored, imported, skipped, mixed>>

Importing(t) == tab[t].page = "builder" /\ tab[t].queue # NoQueue

\* The row of the form.
Front(t) == <<tab[t].queue.import, tab[t].queue.next>>

\* handleSubmit: the buttons are off until it is answered.
Submit(t) ==
    /\ Importing(t) /\ ~tab[t].saving
    /\ tab' = [tab EXCEPT ![t].saving = TRUE]
    /\ UNCHANGED <<staged, stored, imported, skipped, mixed>>

\* What is left is written back and opened, or the import is over: nothing is left,
\* nothing stays staged, and the user goes back to the list.  A browser that does
\* not take the write, or the removal, keeps what it had.
Proceed(t) ==
    LET q == tab[t].queue
        left == [q EXCEPT !.next = @ + 1]
    IN  IF q.next < NRows
        THEN /\ stored' \in {left, stored}
             /\ tab' = [tab EXCEPT ![t].queue = left, ![t].saving = FALSE]
        ELSE /\ stored' \in {NoQueue, stored}
             /\ tab' = [tab EXCEPT ![t] = Closed]

SaveAnswered(t) ==
    /\ tab[t].saving
    /\ imported' = imported \union {Front(t)}
    /\ Proceed(t)
    /\ UNCHANGED <<staged, skipped, mixed>>

\* A bug: the form moves on whatever the answer.
SaveRefusedProceeds(t) ==
    /\ tab[t].saving
    /\ Proceed(t)
    /\ UNCHANGED <<staged, imported, skipped, mixed>>

\* The campaign is refused, or nobody knows: the form stays for another try.
SaveRefused(t) ==
    /\ tab[t].saving
    /\ tab' = [tab EXCEPT ![t].saving = FALSE]
    /\ imported' \in {imported, imported \union {Front(t)}}
    /\ UNCHANGED <<staged, stored, skipped, mixed>>

\* skipRow.
Skip(t) ==
    /\ Importing(t) /\ ~tab[t].saving
    /\ skipped' = skipped \union {Front(t)}
    /\ Proceed(t)
    /\ UNCHANGED <<staged, imported, mixed>>

\* The tab is closed, reloaded or left, at any time; a save under way may still be
\* carried out.
Close(t) ==
    /\ tab[t].page # "none"
    /\ tab' = [tab EXCEPT ![t] = Closed]
    /\ imported' \in {imported} \union (IF tab[t].saving THEN {imported \union {Front(t)}} ELSE {})
    /\ UNCHANGED <<staged, stored, skipped, mixed>>

Next ==
    \E t \in Tabs :
        \/ OpenImport(t) \/ StartImport(t) \/ OpenBuilder(t) \/ Submit(t)
        \/ SaveAnswered(t) \/ SaveRefused(t) \/ Skip(t) \/ Close(t)

Spec == Init /\ [][Next]_vars
=============================================================================
