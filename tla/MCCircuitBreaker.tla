-------------------------- MODULE MCCircuitBreaker --------------------------
(* Instances of CircuitBreaker for TLC: interchangeable callers. *)
EXTENDS CircuitBreaker, TLC

CallerSymmetry == Permutations(Callers)

=============================================================================
