CONSTANTS
  None = None
  ProofTtl = 0
  FreshMax = 0
  MaxTransitions = 0
  MaxFailures = 0
  Instants = {0, 1}
  Counts = {0, 1}
  Primary <- MCPrimary
  RunSeeds <- MCRunSeeds
  Measurements <- MCMeasurements
  PValues = {10, 20, 24, 40, 60}
  MaxFailed = 1
  MaxMissing = 2
  MaxPairs = 10
  Binomtest <- MCBinomtest
  Parts <- MCParts
SPECIFICATION ComputationsSpec
INVARIANTS FullScopeIffComplete ProofNeverOverridesContradiction PairsStayPairs ReportIsHonest NoRanking
PROPERTIES WorseEvidenceNeverWidens
CHECK_DEADLOCK FALSE
