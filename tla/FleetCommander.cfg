SPECIFICATION Spec
CONSTANTS
  s1 = s1
  c1 = c1
  c2 = c2
  Sensor = {s1}
  Id = {c1, c2}
  NoId = NoId
  SensorOf <- MCSensorOf
  TypeOf <- MCTypeOf
  MaxAttempts <- MCMaxAttempts
  Unsendable = {}
  MaxQueueSize = 2
  MaxPerSensorQueueSize = 1
  MaxSends = 2
  MaxRetries = 1
  MaxCrashes = 0
INVARIANTS
  SuccessWasAcked
  FailedWhenExhausted
PROPERTIES
  RowOutcomeSticks
CHECK_DEADLOCK FALSE
