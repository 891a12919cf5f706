CONSTANTS
  None = None
  ProofTtl = 1
  FreshMax = 0
  MaxTransitions = 1
  MaxFailures = 1
  RateWindow = 0
  RepeatThreshold = 1
  TransitionWindow = 0
  Devices = {d1}
  Addresses = {a1}
  Domains <- MCDomains
  Statuses <- MCStatuses
  DeclaredDomains <- MCDomains
  Verdicts <- Usual
  Sessions = {TRUE}
  Postures = {TRUE}
  Lifetimes = {None}
  Delays = {0}
  Dates = {None, 1}
  FailureWindow = 0
  Ttl <- MCTtl
  TokenTtl = 1
  MaxClock = 3
  MaxBindings = 0
  MaxHistory = 1
SPECIFICATION BaselineSpec
INVARIANTS BaselineStaleness SettledBeforeGrant
CONSTRAINT EarlierInstants
