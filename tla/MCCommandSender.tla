-------------------------- MODULE MCCommandSender --------------------------
(* An instance of CommandSender for TLC: every command is for one sensor,  *)
(* so that they meet in its queue; c1 may be attempted twice.              *)
EXTENDS CommandSender

CONSTANTS s1, c1, c2, c3

MCSensorOf == [id \in Id |-> s1]
MCMaxAttempts == [id \in Id |-> IF id = c1 THEN 2 ELSE 1]
=============================================================================
