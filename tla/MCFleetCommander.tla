-------------------------- MODULE MCFleetCommander --------------------------
(* Instances of FleetCommander for TLC: all requests are for one sensor    *)
(* and of one type, so that they compete for its queue and are duplicates. *)
EXTENDS FleetCommander

CONSTANTS s1, c1, c2

MCSensorOf == [id \in Id |-> s1]
MCTypeOf == [id \in Id |-> "push_rules"]
MCMaxAttempts == [id \in Id |-> 1]
=============================================================================
