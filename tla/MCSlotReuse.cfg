SPECIFICATION Spec
CONSTANTS
  Requests = {r1, r2}
  maximum = 1
  QueueLimits = {1}
  Stages <- TwoStages
INVARIANTS RetiredBeforeSlotReuse
CHECK_DEADLOCK FALSE
