CONSTANTS
  webhook = webhook
  poll = poll
  NCampaigns = 2
  PublicReplies <- BothReply
  Providers = {"META", "ZERNIO"}
  TrackedLinks = TRUE
  BaseJobs <- OnlyWebhook
  MaxAttempts = 3
  MaxRequeue = 2
  RateLimited = TRUE
  PlanLimited = TRUE
  Lossy = {"ZERNIO"}
  OnePrivateReply = TRUE
  TimelyQueue = TRUE
  Faults = 0
SPECIFICATION FairSpec
INVARIANTS ReservationsExact PendingHasJob 
PROPERTIES  MarkedNeverResent JobsEnd
