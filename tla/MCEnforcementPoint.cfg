CONSTANTS
  None = None
  Devices = {d1}
  Threads = {t1, t2}
  Actions = {"ALLOW", "STEP_UP_AUTHENTICATION", "DENY"}
  Terminating = {"DENY"}
  Ttl <- MCTtl
  MaxClock = 3
  MaxDecisions = 3
SPECIFICATION Spec
SYMMETRY Symmetry
INVARIANTS DenialStands
PROPERTIES LiveDecisionKept
