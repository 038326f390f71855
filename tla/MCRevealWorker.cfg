CONSTANTS
  tap1 = tap1
  tap2 = tap2
  read = read
  message = message
  NCampaigns = 2
  Taps = {tap1}
  Reads = {read}
  Messages = {message}
  Workloads <- TapAndReadOrMessage
  Providers = {"META", "COMPOSIO", "ZERNIO"}
  Unreliable = {"COMPOSIO", "ZERNIO"}
  TrackedLinks = TRUE
  PlanLimited = TRUE
  MaxAttempts = 2
  Faults = 1
SPECIFICATION Spec
INVARIANTS  GateHolds SentIsTrue ChargedExactly FollowUpAfterLink
