--------------------------- MODULE ConversationList ---------------------------
(***************************************************************************)
(* The conversations of an account and those that were read of them, and   *)
(* what is expected of the reading.  ConversationPaging has its steps.     *)
(***************************************************************************)
EXTENDS Integers, FiniteSets

CONSTANTS
    Size,        \* conversations of the account
    Wanted,      \* conversations that are read at most, 50
    MaxPages,    \* pages that are read at most, 100
    MaxMoves     \* bound: conversations that may move while the list is read

ASSUME PagingAssumption ==
    /\ Size \in Nat /\ Wanted \in Nat \ {0}
    /\ MaxPages \in Nat /\ MaxMoves \in Nat

VARIABLES
    broken,      \* the conversations whose details cannot be read
    moved,       \* history: those that moved to the head of the list
    results,     \* what has been read, [id, bare]
    step         \* of the reading

Conversations == 1 .. Size
SeenIds == {c.id : c \in results}

\* Every conversation that did not move is returned, unless there are more than are
\* wanted, none is returned twice, and no more than are wanted.  It comes with its
\* details if they can be read, whatever other conversations cannot be: unless one
\* moved between the reading that failed and the reading without details, either the
\* one that made it fail, so that the conversation after it is taken, or to the head of
\* the list, where the first page begins.
ReadIsComplete ==
    /\ \A c, d \in results : c.id = d.id => c = d
    /\ Cardinality(results) <= Wanted
    /\ step = "done" /\ Cardinality(results) < Wanted => Conversations \ moved \subseteq SeenIds
    /\ \A c \in results :
          IF c.bare THEN c.id \in broken \union moved \/ broken \intersect moved # {}
                    ELSE c.id \notin broken
=============================================================================
