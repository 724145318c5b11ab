SPECIFICATION FairTunnelSpec
CONSTANTS
  SensorWs = {k1, k2}
  UserWs = {u1, u2}
  None = None
INVARIANTS
  OfThisTunnel
PROPERTIES
  LiveTunnelStays
  RequestSettles
  DeadIsDropped
CHECK_DEADLOCK FALSE
