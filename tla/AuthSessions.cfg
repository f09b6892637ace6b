SPECIFICATION Spec
CONSTANTS
  Keys = {k1, k2}
  Trusted = {k2}
  Tokens = {s1, s2}
  TTL = 2
  GCPeriod = 1
  Limit = 2
  Window = 2
  Absent = Absent
INVARIANTS SlidingWindow LogoutIsFinal SessionsCollected SessionActs
PROPERTY NoUndueDenial
SYMMETRY Symmetry
