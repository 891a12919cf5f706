CONSTANTS
  None = None
  ProofTtl = 1
  FreshMax = 1
  MaxTransitions = 0
  MaxFailures = 0
  RateWindow = 1
  RepeatThreshold = 1
  TransitionWindow = 2
  Devices = {d1}
  Addresses = {a1}
  Domains <- MCDomains
  Statuses = {"REVOKED"}
  DeclaredDomains <- FromEvidence
  Verdicts <- Usual
  Sessions = {TRUE}
  Postures = {TRUE}
  Lifetimes = {1}
  Delays = {0}
  Dates = {None, 1}
  FailureWindow = 0
  Ttl <- MCTtl
  MaxClock = 3
  MaxBindings = 1
  MaxHistory = 1
SPECIFICATION Spec
INVARIANTS GrantStaleness DefensiveRulesUnreachable
CONSTRAINT EarlierInstants
