--------------------------- MODULE MCRateLimiter ---------------------------
(* Instances of RateLimiter for TLC: interchangeable devices. *)
EXTENDS RateLimiter, TLC

DeviceSymmetry == Permutations(Devices)

=============================================================================
