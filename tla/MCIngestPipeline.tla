-------------------------- MODULE MCIngestPipeline --------------------------
(***************************************************************************)
(* Instances of IngestPipeline for TLC.  Word is 4, so devices 1 and 5     *)
(* agree in their low bits as two u64 ids that differ by a multiple of     *)
(* 2^32 do.  Sealing adds 28 bytes (nonce and tag), the receive buffer     *)
(* holds 100.                                                              *)
(***************************************************************************)
EXTENDS IngestPipeline, TLC

MCWord == 4
MCCells == 0..2
MCCdnRoute == [c \in MCCells |-> IF c = 2 THEN NoNode ELSE <<"edge", c>>]

Sealed(d, v, len, key, c, s) ==
  [device |-> d, version |-> v, size |-> 40 + len, sealed |-> TRUE,
   keyTag |-> key, cell |-> c, sdf |-> s]

(* A full keyframe, a keyframe cut after its type byte and one more byte,  *)
(* a delta of the same device, a keyframe of another device.               *)
KeyframeA == Sealed(1, 1, 17, TRUE, 1, 7)
ShortA    == Sealed(1, 1, 2, TRUE, 1, 7)
DeltaA    == Sealed(1, 2, 9, FALSE, 0, 0)
KeyframeB == Sealed(2, 1, 13, TRUE, 2, 7)
DeltaB    == Sealed(2, 2, 0, TRUE, 0, 0)
DeltaC    == Sealed(5, 1, 9, FALSE, 0, 0)
Forged    == [DeltaB EXCEPT !.sealed = FALSE]
Truncated == Sealed(2, 1, 90, TRUE, 1, 7)
Stub      == [DeltaA EXCEPT !.size = 11]

InputPackets == {KeyframeA, ShortA, DeltaA, KeyframeB, DeltaB, DeltaC, Forged,
                 Truncated, Stub}
LivenessPackets == {KeyframeA, DeltaC, Forged, Stub}

TaskSymmetry == Permutations(Tasks)

=============================================================================
