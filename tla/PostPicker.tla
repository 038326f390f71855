------------------------------ MODULE PostPicker ------------------------------
(***************************************************************************)
(* The choice of a post in the campaign builder                            *)
(* (components/post-picker.tsx, components/campaign-builder.tsx): the      *)
(* posts of the chosen account are asked for when the picker appears and   *)
(* whenever the account changes, and what an earlier request brings is     *)
(* dropped.                                                                *)
(*                                                                         *)
(* Posts stand for the account they are of.  Whether sessionStorage has a  *)
(* copy is a choice: it outlives visits, and keeping one is best effort.   *)
(* The search in the grid and its batches are left out.                    *)
(***************************************************************************)
EXTENDS Naturals, FiniteSets

CONSTANTS
    Accounts,   \* the connected accounts
    None        \* no account yet, no posts

VARIABLES
    account,    \* selectedAccountId
    known,      \* the accounts have been loaded
    shown,      \* the picker is on the page: a specific post is to trigger
    posts,      \* the account whose posts are in the grid
    error,      \* the message in place of the grid
    requests,   \* requests under way: of which account, live or cancelled, with a copy
    post        \* postId: the account the chosen post is of

vars == <<account, known, shown, posts, error, requests, post>>

Requests == [of : Accounts \union {None}, live : BOOLEAN, copy : BOOLEAN]

\* A new campaign, or one of an import, which comes with its account.
Init ==
    /\ account \in Accounts \union {None}
    /\ known = FALSE
    /\ shown = TRUE /\ posts = None /\ error = FALSE
    /\ requests = {[of |-> account, live |-> TRUE, copy |-> FALSE]}
    /\ post = None

\* The cleanup of the effect.
Cancelled == {[r EXCEPT !.live = FALSE] : r \in requests}

\* The effect for an account: its copy, if there is one, and a request.
Load(a, old) ==
    \E copy \in BOOLEAN :
        /\ posts' = IF copy THEN a ELSE old
        /\ requests' = Cancelled \union {[of |-> a, live |-> TRUE, copy |-> copy]}

-----------------------------------------------------------------------------
\* The builder.

\* The accounts arrive, and one of them is chosen unless one has been.
AccountsLoaded(a) ==
    /\ ~known /\ known' = TRUE
    /\ IF account = None
       THEN /\ account' = a
            /\ IF shown THEN Load(a, posts) ELSE UNCHANGED <<posts, requests>>
       ELSE UNCHANGED <<account, posts, requests>>
    /\ UNCHANGED <<shown, error, post>>

\* Another account: the post is given up.
Select(a) ==
    /\ known /\ a # account
    /\ account' = a /\ post' = None
    /\ IF shown THEN Load(a, posts) ELSE UNCHANGED <<posts, requests>>
    /\ UNCHANGED <<known, shown, error>>

\* Any post, or the next one: the picker leaves the page and forgets.
Hide ==
    /\ shown /\ shown' = FALSE
    /\ posts' = None /\ error' = FALSE
    /\ requests' = Cancelled
    /\ UNCHANGED <<account, known, post>>

Show ==
    /\ ~shown /\ shown' = TRUE
    /\ Load(account, None)
    /\ UNCHANGED <<account, known, error, post>>

\* The next row of an import: no post, and the picker is shown.
Prefill ==
    /\ shown' = TRUE /\ post' = None
    /\ IF shown THEN UNCHANGED <<posts, requests>> ELSE Load(account, None)
    /\ UNCHANGED <<account, known, error>>

-----------------------------------------------------------------------------
\* The picker.

\* A bug: what comes is put into the grid, whatever has been chosen since.
AnsweredAnyway(r) ==
    /\ r \in requests
    /\ requests' = requests \ {r}
    /\ IF shown THEN posts' \in (IF r.of = None THEN Accounts ELSE {r.of})
                ELSE UNCHANGED posts
    /\ UNCHANGED <<account, known, shown, error, post>>

\* The posts come.  Those asked for without an account are of one the server chooses.
Answered(r) ==
    /\ r \in requests
    /\ requests' = requests \ {r}
    /\ IF r.live THEN posts' \in (IF r.of = None THEN Accounts ELSE {r.of})
                 ELSE UNCHANGED posts
    /\ UNCHANGED <<account, known, shown, error, post>>

\* They do not: a message, unless a copy is there to be shown.  Nothing takes the
\* message away again while the picker stays.
Failed(r) ==
    /\ r \in requests
    /\ requests' = requests \ {r}
    /\ error' = (error \/ (r.live /\ ~r.copy))
    /\ UNCHANGED <<account, known, shown, posts, post>>

\* The user chooses a post of the grid, which may still be another account's.
Pick ==
    /\ shown /\ ~error /\ posts # None
    /\ post' = posts
    /\ UNCHANGED <<account, known, shown, posts, error, requests>>

Next ==
    \/ \E a \in Accounts : AccountsLoaded(a) \/ Select(a)
    \/ Hide \/ Show \/ Prefill \/ Pick
    \/ \E r \in Requests : Answered(r) \/ Failed(r)

\* Every request ends.  Nothing is assumed of the user.
Fairness == \A r \in Requests : WF_vars(Answered(r) \/ Failed(r))

Spec == Init /\ [][Next]_vars /\ Fairness

-----------------------------------------------------------------------------
\* What is expected of the picker.

TypeOK ==
    /\ account \in Accounts \union {None} /\ posts \in Accounts \union {None}
    /\ post \in Accounts \union {None}
    /\ requests \subseteq Requests

\* Once the user stays with an account, the grid becomes and stays that account's,
\* unless a message is in its place: nothing asked for earlier is painted over it,
\* and since the grid is not polled nothing would correct that.
PickerSettles ==
    \A a \in Accounts : <>[](account = a /\ shown) => <>[](posts = a \/ error)
=============================================================================
