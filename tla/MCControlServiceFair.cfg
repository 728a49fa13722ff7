SPECIFICATION FairSpec
CONSTANTS
  Ids = {a, b}
  Calls = {c1, c2}
  Objects = {o1, o2}
  Deployments = {d1}
  Short = Short
  Long = Long
  Shapes = {Short}
  CacheBytes <- MCCacheBytes
  WorkspaceBytes <- MCWorkspaceBytes
  CachedTokens <- MCCachedTokens
  WeightBytes = 4
  Capacity = 10
  maximum_active_requests = 1
  maximum_cached_tokens = 0
  PassRows = 1
  None = None
INVARIANTS TypeOK
PROPERTIES EveryRequestRetires
CHECK_DEADLOCK FALSE
