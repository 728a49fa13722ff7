SPECIFICATION Spec
CONSTANTS
  None = None
  Empty = Empty
  BoundaryPayload = 24
  PressureScale = 10
  Domains = {"host"}
  kLifecycleHistory = 3
  Backends <- MCBackends
  Pairs = 1
  Cycles = 1
  Weights = 20
  Cache = 10
  Workspace = 5
  Resident = 5
  AdmissionCap = 45
  Availability = {100, 50, 40}
  MaxFaults = 1
  FaultRounds = {"paired"}
INVARIANTS OverlapIsExact AcceptanceIsEarned
CHECK_DEADLOCK FALSE
