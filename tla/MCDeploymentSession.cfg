SPECIFICATION FairSpec
CONSTANTS
  Sessions = {a, b}
  Plans = {p, q}
  Assignments <- EitherPlan
  Measured = {b}
  StageCount = 2
  MaxRestarts = 1
  None = None
  a = a
  b = b
  p = p
  q = q
INVARIANTS OpenMeansLoaded DownstreamFirst ClosedMeansUnloaded
PROPERTIES EverySessionReturns
CHECK_DEADLOCK FALSE
