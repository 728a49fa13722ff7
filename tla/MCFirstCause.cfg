SPECIFICATION Spec
CONSTANTS
  Ids = {a}
  Calls = {c1, c2}
  Objects = {o1, o2}
  Deployments = {d1}
  Short = Short
  Long = Long
  Shapes = {Short}
  CacheBytes <- MCCacheBytes
  WorkspaceBytes <- MCWorkspaceBytes
  CachedTokens <- MCCachedTokens
  WeightBytes = 4
  Capacity = 10
  maximum_active_requests = 2
  maximum_cached_tokens = 0
  PassRows = 1
  None = None
PROPERTIES FirstCauseWins
CHECK_DEADLOCK FALSE
