SPECIFICATION Spec
CONSTANTS
  NumSensors = 3
  CanaryPercentage = {10, 80}
  BatchSize = 1
  MaxFailures = 2
  RollbackOnFailure = TRUE
  MaxRollouts = 2
  MaxRestarts = 0
  MaxQueued = 2
INVARIANT RollbackRestores
CHECK_DEADLOCK FALSE
