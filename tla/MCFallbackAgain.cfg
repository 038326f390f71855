CONSTANTS
  tap1 = tap1
  tap2 = tap2
  read = read
  message = message
  NCampaigns = 1
  Taps = {tap1, tap2}
  Reads = {read}
  Messages = {}
  Workloads <- TwoTapsAndRead
  Providers = {"META"}
  Unreliable = {}
  TrackedLinks = TRUE
  PlanLimited = FALSE
  MaxAttempts = 2
  Faults = 0
SPECIFICATION Spec
PROPERTIES FallbackYields
