------------------------ MODULE MCComposioTransport ------------------------
(* Two campaigns' private replies and a public reply to one comment, and a *)
(* direct message, sent by concurrent callers.                             *)
EXTENDS ComposioTransport

CONSTANTS c1, c2, comment, opA, opB, textA, textB

Request(kind, operation, text) ==
  [kind |-> kind, comment |-> comment, operation |-> operation, text |-> text]

PrivateReplies ==
  {Request("private-reply", opA, textA), Request("private-reply", opB, textB)}

PublicReplies == {Request("public-reply", opA, textA)}

AllKinds ==
  PrivateReplies \union PublicReplies \union {Request("direct", opA, textA)}
=============================================================================
