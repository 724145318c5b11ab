SPECIFICATION FairSpec
CONSTANTS
  N = 2
  Strategy = {"canary", "rolling"}
  BatchSize = 2
  MAX_BATCH_SIZE = 2
  CONCURRENCY = 2
  FailurePercent = 67
  MaxAttempts = 2
  MaxStalledCount = 1
  MaxFaults = 1
  MaxCrashes = 1
INVARIANTS
  HaltsOnFailures
  CompletedIsSettled
PROPERTY RolloutEnds
CHECK_DEADLOCK FALSE
