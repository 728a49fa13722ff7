SPECIFICATION FairSpec
CONSTANTS
  Requests = {r1, r2}
  kMaximumDecodeBatch = 2
  kMaximumDecodeStreak = 2
  BatchSupported = TRUE
PROPERTIES EveryCallReturns
CHECK_DEADLOCK FALSE
