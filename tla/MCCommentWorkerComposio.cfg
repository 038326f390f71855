CONSTANTS
  webhook = webhook
  poll = poll
  NCampaigns = 2
  PublicReplies <- BothReply
  Providers = {"COMPOSIO"}
  TrackedLinks = TRUE
  BaseJobs <- WebhookAndPoll
  MaxAttempts = 2
  MaxRequeue = 0
  RateLimited = FALSE
  PlanLimited = FALSE
  Lossy = {"COMPOSIO"}
  OnePrivateReply = FALSE
  TimelyQueue = TRUE
  Faults = 1
SPECIFICATION Spec
INVARIANTS NothingTwice RecordsAreTrue
