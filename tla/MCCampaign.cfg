CONSTANTS
  None = None
  Strategies <- MCStrategies
  Seeds <- MCSeeds
  Contents = {"as committed", "edited"}
  MaxRetries = 1
  MaxRuns = 5
  MaxTroubles = 3
SPECIFICATION MCFairSpec
INVARIANTS ValidRowHasOutput DriftBounded
PROPERTIES KeepsContract CampaignCompletes
CHECK_DEADLOCK FALSE
