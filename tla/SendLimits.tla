------------------------------ MODULE SendLimits ------------------------------
(***************************************************************************)
(* The parameters of the two limits on sends, of a workspace in a month    *)
(* (WorkspaceUsage) and of an account in an hour (DmRateLimiter).          *)
(***************************************************************************)
EXTENDS Integers, FiniteSets

CONSTANTS
  Senders,    \* concurrent sends of the workspace or the account
  Limit,      \* MONTHLY_DM_LIMIT
  LastMonth,  \* bound: the model's last month
  Max         \* RATE_LIMIT_MAX

ASSUME UsageAssumption == Limit \in Nat /\ LastMonth \in Nat

ASSUME LimiterAssumption == Max \in Nat \ {0} /\ IsFiniteSet(Senders)
=============================================================================
