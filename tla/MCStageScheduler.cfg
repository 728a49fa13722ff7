SPECIFICATION Spec
CONSTANTS
  Requests = {r1, r2, r3}
  kMaximumDecodeBatch = 2
  kMaximumDecodeStreak = 3
  BatchSupported = TRUE
SYMMETRY RequestSymmetry
INVARIANTS TypeOK NoDanglingTicket NoLostTicket OnePass BoundedBypass
PROPERTIES ImplementsPassServer
CHECK_DEADLOCK FALSE
