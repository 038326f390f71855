----------------------------- MODULE UsageCounter -----------------------------
(***************************************************************************)
(* The monthly counter of a workspace and what is expected of it;          *)
(* WorkspaceUsage has the statements that change it.                       *)
(***************************************************************************)
EXTENDS SendLimits

VARIABLES
  count,     \* dmsSentThisPeriod
  owed       \* history: reservations of the current period not given back

(* However many jobs pass the check together, no more than the limit is    *)
(* reserved in a month.                                                    *)
WithinLimit == count <= Limit

(* The counter never falls below the month's reservations that stand (of   *)
(* sends made, or under way): a send that fails after the turn of the      *)
(* month takes nothing from the new month's count.                         *)
NeverUndercounts == count >= owed

(* Both: the counter lies between what stands and what is allowed, so that *)
(* no more than the limit is ever sent in a month.                         *)
CountedWithinLimit == NeverUndercounts /\ WithinLimit
=============================================================================
