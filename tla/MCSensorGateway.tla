-------------------------- MODULE MCSensorGateway --------------------------
(* An instance of SensorGateway for TLC: two sockets of one sensor, so that*)
(* its connections overlap, and a second auth message on the first socket  *)
(* that names another sensor.                                              *)
EXTENDS SensorGateway

CONSTANTS s1, s2, k1, k2, c1, a1, a2, a3

MCSensorOf == [id \in Id |-> s1]
MCSocketOf == [a \in AuthCall |-> IF a = a2 THEN k2 ELSE k1]
MCClaimOf == [a \in AuthCall |-> IF a = a3 THEN s2 ELSE s1]
MCMaxAttempts == [id \in Id |-> 2]
=============================================================================
