--------------------------- MODULE CircuitBreaker ---------------------------
(***************************************************************************)
(* The sensor's circuit breaker (utils/circuit_breaker.rs), as operators   *)
(* on its record: the state, the failures counted since the last success,  *)
(* and whether reset_timeout has passed since last_failure.                *)
(***************************************************************************)
EXTENDS Integers

CONSTANT FailureThreshold

ASSUME BreakerAssumption == FailureThreshold \in Nat \ {0}

CircuitState == {"Closed", "Open", "HalfOpen"}

IsBreaker(b) == /\ b.state \in CircuitState
                /\ b.failures \in Nat
                /\ b.elapsed \in BOOLEAN

NewBreaker == [state |-> "Closed", failures |-> 0, elapsed |-> FALSE]

(* state(): an open breaker that is looked at after the timeout is         *)
(* half-open from then on.                                                 *)
Observed(b) ==
  IF b.state = "Open" /\ b.elapsed THEN [b EXCEPT !.state = "HalfOpen"] ELSE b

record_success(b) ==
  [b EXCEPT !.failures = 0,
            !.state = IF @ = "HalfOpen" THEN "Closed" ELSE @]

record_failure(b) ==
  [b EXCEPT !.failures = @ + 1,
            !.elapsed = FALSE,
            !.state = IF b.failures + 1 >= FailureThreshold THEN "Open" ELSE @]

allow_request(b) == Observed(b).state \in {"Closed", "HalfOpen"}
=============================================================================
