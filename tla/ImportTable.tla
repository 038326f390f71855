------------------------------ MODULE ImportTable ------------------------------
(***************************************************************************)
(* An import of campaigns from a table: what the browser keeps of it, what *)
(* became of its rows, and what is expected of it.  ImportQueue has the    *)
(* pages that work it off.                                                 *)
(***************************************************************************)
EXTENDS Naturals

CONSTANTS
    NRows,       \* rows of an import: the page refuses to start one without
    MaxImports   \* bound: imports staged

ASSUME ImportAssumption == NRows \in Nat \ {0} /\ MaxImports \in Nat

VARIABLES
    staged,      \* imports staged so far
    stored,      \* IMPORT_QUEUE_KEY: the import and its next row
    imported,    \* rows a campaign was created for, <<import, row>>
    skipped,     \* rows the user skipped
    mixed        \* imports staged while an earlier one was not through, or those before

Imports == 1 .. MaxImports
Rows == 1 .. NRows

Queues == [import : Imports, next : Rows]
NoQueue == [import |-> 0, next |-> 1]

Handled(i, r) == <<i, r>> \in imported \union skipped

\* No row of an import is lost: until a campaign was created for it or the user
\* skipped it, it is staged, and so a reload, a closed tab, a refused save or a second
\* tab that works off the same rows brings it back.  An import staged while another
\* was not through is excepted: it takes its place, and a tab still working off the
\* other puts that one's rows back over it.
RowsHandled ==
    \A i \in 1 .. staged, r \in Rows :
        i \in mixed \/ Handled(i, r)
        \/ (stored # NoQueue /\ stored.import = i /\ stored.next <= r)
=============================================================================
