-------------------------- MODULE MCCommentIntake ---------------------------
(* Three settings: a comment on an ad with a payload about it, which the owner may
   answer; a comment on the post with a payload that has its read receipt as well; and
   two comments of which no webhook arrives. *)
EXTENDS CommentIntake

E(kind, c) == [kind |-> kind, about |-> c]

WorldsDef ==
    {[n |-> 1, ads |-> {1}, byHand |-> {1}, payloads |-> {<<E("comment", 1)>>}],
     [n |-> 1, ads |-> {}, byHand |-> {},
       payloads |-> {<<E("comment", 1), E("read", 1)>>}],
     [n |-> 2, ads |-> {}, byHand |-> {}, payloads |-> {}]}
=============================================================================
