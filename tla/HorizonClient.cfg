SPECIFICATION FairSpec
CONSTANTS
  NumSignals = 5
  MaxQueued = 2
  BatchSize = 2
  FailureThreshold = 2
  Cooldown = 2
  MaxAttempts = 2
  MaxFaults = 2
INVARIANTS
  NoSilentLoss
  AckedWasReceived
  BuffersInOrder
PROPERTIES
  SignalsSettle
CHECK_DEADLOCK FALSE
