CONSTANTS
  None = None
  ProofTtl = 3
  FreshMax = 1
  MaxTransitions = 2
  MaxFailures = 1
  RateWindow = 2
  RepeatThreshold = 2
  TransitionWindow = 1
  Devices <- MCDevices
  Addresses <- MCAddresses
  Domains <- MCDomains
  Statuses = {"REVOKED"}
  DeclaredDomains <- MCDeclared
  Verdicts = {"absent", "valid"}
  Sessions = {TRUE, FALSE}
  Postures = {TRUE, FALSE}
  Lifetimes = {None}
  Delays = {0}
  Dates = {None}
  FailureWindow = 1
  Ttl <- MCTtl
  TokenTtl = 1
  MaxClock = 0
  MaxBindings = 100
  MaxHistory = 10
  Setups <- MCSetups
  Intervals = {0, 1}
  LegitimatePercent = 80
  WorkloadRepeat = 4
  Peer <- MCPeer
SPECIFICATION FlowSpec
INVARIANTS BindingServesOne OwnEvidence BurstRefused LabelsAnswerable ExpectationsMet
CHECK_DEADLOCK FALSE
