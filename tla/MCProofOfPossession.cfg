CONSTANTS
  Devices = {d1, d2}
  Ed25519Devices = {d1}
  Nonces = {n1, n2}
  Threads = {t1, t2}
  NonceTtl = 1
  ProofTtl = 1
  MaxClock = 2
  Garbled = Garbled
  None = None
SPECIFICATION Spec
SYMMETRY Symmetry
INVARIANTS NonceSingleUse ProofWithinNonceLife
PROPERTIES LiveNonceLeavesByUse ProofKept
