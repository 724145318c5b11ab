---------------------------- MODULE MCAggregator ----------------------------
(* Instances of Aggregator for TLC.  g1, g3 and g4 merge; g1 and g3 have   *)
(* the same content.                                                       *)
EXTENDS Aggregator

CONSTANTS g1, g2, g3, g4

MCDedupeKey == [s \in Signal |-> IF s = g2 THEN "b" ELSE "a"]
MCIdemKey == [s \in Signal |-> IF s = g3 THEN g1 ELSE s]
=============================================================================
