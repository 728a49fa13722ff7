SPECIFICATION FairSpec
CONSTANTS
  Requests = {r1, r2}
  maximum = 1
  QueueLimits = {0, 1}
  Stages <- TwoStages
INVARIANTS SlotsAreCounted ConfirmedMeansRetired
PROPERTIES FailClosed EveryRequestEnds
CHECK_DEADLOCK FALSE
