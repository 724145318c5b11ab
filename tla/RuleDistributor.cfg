SPECIFICATION DistributorSpec
CONSTANTS
  NumSensors = 2
  CanaryPercentage = {10}
  BatchSize = 1
  MaxFailures = 1
  RollbackOnFailure = TRUE
  MaxRollouts = 1
  MaxRestarts = 1
  MaxQueued = 1
  Deployment = {d1}
INVARIANTS BlastRadius DoneIsComplete PushedOnce
PROPERTY RolloutEnds
CHECK_DEADLOCK FALSE
