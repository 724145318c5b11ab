SPECIFICATION FairAggregatorSpec
CONSTANTS
  g1 = g1
  g2 = g2
  g3 = g3
  g4 = g4
  Signal = {g1, g2, g3, g4}
  DedupeKey <- MCDedupeKey
  IdemKey <- MCIdemKey
  Idempotent = TRUE
  MaxQueueSize = 2
  BatchSize = 2
  MaxFlushRetries = 2
INVARIANTS
  AggregatorTypeOK
  AcceptedIsAccounted
PROPERTIES
  AcceptedIsSettled
CHECK_DEADLOCK FALSE
