SPECIFICATION FairSpec
CONSTANTS
  NumItems = 3
  MaxBufferSize = 2
  MaxRetries = 2
  RetryBatchSize = 2
  MaxShutdowns = 1
INVARIANTS
  LossIsLogged
  DuplicateHasCause
PROPERTIES
  BufferedIsSettled
CHECK_DEADLOCK FALSE
