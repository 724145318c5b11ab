SPECIFICATION FairSpec
CONSTANTS
  s1 = s1
  c1 = c1
  c2 = c2
  c3 = c3
  Sensor = {s1}
  Id = {c1, c2, c3}
  NoId = NoId
  SensorOf <- MCSensorOf
  MaxAttempts <- MCMaxAttempts
  Unsendable = {c3}
  Reusable = {c1}
  MaxQueueSize = 2
  MaxPerSensorQueueSize = 2
  MaxSends = 4
INVARIANTS
  TypeOK
  WithinLimits
  NothingStuck
  OneInFlight
PROPERTIES
  FirstInFirstOut
  OutcomeSticks
  SentIsResolved
CHECK_DEADLOCK FALSE
