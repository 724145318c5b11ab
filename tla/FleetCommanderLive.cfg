SPECIFICATION FairSpec
CONSTANTS
  s1 = s1
  c1 = c1
  c2 = c2
  Sensor = {s1}
  Id = {c1}
  NoId = NoId
  SensorOf <- MCSensorOf
  TypeOf <- MCTypeOf
  MaxAttempts <- MCMaxAttempts
  Unsendable = {}
  MaxQueueSize = 2
  MaxPerSensorQueueSize = 1
  MaxSends = 1
  MaxRetries = 2
  MaxCrashes = 1
PROPERTIES
  ImplementsLifecycle
CHECK_DEADLOCK FALSE
