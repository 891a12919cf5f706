CONSTANTS
  Addresses = {a1}
  Domains = {NR, WLAN}
  Devices = {d1, d2}
  Threads = {t1, t2}
  Lifetimes = {1, None}
  MaxClock = 2
  MaxBindings = 4
  None = None
SPECIFICATION Spec
SYMMETRY Symmetry
INVARIANTS ClaimExclusive ReleasedStaysReleased AttributionWasGranted
PROPERTIES AttributionPreserved
