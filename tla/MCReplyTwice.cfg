CONSTANTS
  webhook = webhook
  poll = poll
  NCampaigns = 2
  PublicReplies <- BothReply
  Providers = {"META"}
  TrackedLinks = FALSE
  BaseJobs <- WebhookAndPoll
  MaxAttempts = 2
  MaxRequeue = 0
  RateLimited = FALSE
  PlanLimited = FALSE
  Lossy = {}
  OnePrivateReply = TRUE
  TimelyQueue = TRUE
  Faults = 0
SPECIFICATION Spec
INVARIANTS PublicReplyIdempotent
