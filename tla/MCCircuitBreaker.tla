-------------------------- MODULE MCCircuitBreaker --------------------------
(* Instances of CircuitBreaker for TLC. *)
EXTENDS CircuitBreaker

Powers == [a \in 0..Retries |-> 2^a]
=============================================================================
