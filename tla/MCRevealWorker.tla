--------------------------- MODULE MCRevealWorker ---------------------------
(* A tap and the read fallback, or a message that matches two campaigns.   *)
EXTENDS RevealWorker

CONSTANTS tap1, tap2, read, message

TapAndReadOrMessage == {{tap1, read}, {message}}

OneMessage == {{message}}

TwoTapsAndRead == {{tap1, tap2, read}}
=============================================================================
