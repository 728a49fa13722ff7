SPECIFICATION Spec
CONSTANTS
  None = None
  Empty = Empty
  BoundaryPayload = 24
  PressureScale = 10
  Domains = {"host"}
  Candidates = {1, 2}
  Selected = 1
  Order <- MCOrder
  Specs <- MCSpecs
  Resampled <- MCResampled
  Warmups = 1
  Latencies = {10, 13}
  ProbeLines = {0, 3, 8, 9}
  JobLimits = {2, 99}
  MaxRounds = 2
  MaxFaults = 1
  MaxInvocations = 2
INVARIANTS PassIsEarned DecisionIsOfAllResults FreshWorkers
PROPERTIES ResultsAreImmutable
CHECK_DEADLOCK FALSE
