--------------------------- MODULE MCBackpressure ---------------------------
(* Instances of Backpressure for TLC: interchangeable gates. *)
EXTENDS Backpressure, TLC

GateSymmetry == Permutations(Gates)

=============================================================================
