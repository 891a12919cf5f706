CONSTANTS
  Devices = {d1}
  Threads = {t1, t2}
  Domains <- MCDomains
  Addresses = {a1, a2}
  RateWindow = 0
  RepeatThreshold = 2
  TransitionWindow = 0
  ExplicitInstants <- Earliest
  MaxClock = 1
  MaxMoves = 2
  None = None
SPECIFICATION Spec
SYMMETRY Symmetry
INVARIANTS CountExact NoPhantomTransition
PROPERTIES LastTransitionNotReplacedByOlder
