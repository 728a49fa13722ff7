SPECIFICATION Spec
CONSTANTS
  None = None
  Empty = Empty
  BoundaryPayload = 24
  PressureScale = 10
  Domains = {"host", "device", "unified"}
  Inputs <- MCInputs
  MaxNow = 2
  MaxTroubles = 1
  MaxReroutes = 2
  MaxMonitored = 1
  ProfileAge = 1
  SnapshotAge = 0
INVARIANTS PlanIsIndependentOfWorkerOrder WorkersAcceptPlan ActivatedOnItsEvidence EvidenceWasFresh RefusedForAReason QualifiedMeansSteady
CHECK_DEADLOCK FALSE
