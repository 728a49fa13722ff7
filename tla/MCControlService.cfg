SPECIFICATION Spec
CONSTANTS
  Ids = {a, b}
  Calls = {c1, c2}
  Objects = {o1, o2, o3}
  Deployments = {d1, d2}
  Short = Short
  Long = Long
  Shapes = {Short, Long}
  CacheBytes <- MCCacheBytes
  WorkspaceBytes <- MCWorkspaceBytes
  CachedTokens <- MCCachedTokens
  WeightBytes = 4
  Capacity = 10
  maximum_active_requests = 2
  maximum_cached_tokens = 0
  PassRows = 1
  None = None
SYMMETRY AddressSymmetry
INVARIANTS OwnedRequestsStay OneOwner ExecutesOnItsDeployment SequencesAreAccounted MemoryWithinCapacity
PROPERTIES RetirementsAreTrue
CHECK_DEADLOCK FALSE
