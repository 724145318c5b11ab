SPECIFICATION FairSpec
CONSTANTS
  s1 = s1
  k1 = k1
  k2 = k2
  c1 = c1
  s2 = s2
  a1 = a1
  a2 = a2
  a3 = a3
  Sensor = {s1, s2}
  Id = {c1}
  NoId = NoId
  SensorOf <- MCSensorOf
  MaxAttempts <- MCMaxAttempts
  MaxQueueSize = 1
  MaxPerSensorQueueSize = 1
  MaxSends = 1
  Socket = {k1, k2}
  NoSocket = NoSocket
  AuthCall = {a1, a2, a3}
  NoSensor = NoSensor
  SocketOf <- MCSocketOf
  ClaimOf <- MCClaimOf
  MaxConnections = 2
INVARIANTS
  RegistrationIsAttended
PROPERTIES
  PreAuthIsDropped
  SentIsResolvedOrStranded
CHECK_DEADLOCK FALSE
