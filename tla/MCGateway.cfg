CONSTANTS
  None = None
  Connections = {c1}
  Actions = {"ALLOW", "ALLOW_WITH_RESTRICTIONS", "STEP_UP_AUTHENTICATION", "DENY"}
  Ttl <- MCTtl
  UsedTopics = {"telemetry", "cmd", "response"}
  ServiceMayFail = TRUE
  MaxClock = 2
  MaxSubscribes = 1
SPECIFICATION FairSpec
PROPERTIES PublishSettles
INVARIANTS PublishAuthorised SubscriptionsWereGranted AnswerNeverRelayed
CHECK_DEADLOCK FALSE
