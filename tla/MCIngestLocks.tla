--------------------------- MODULE MCIngestLocks ---------------------------
(***************************************************************************)
(* Instance of IngestLocks for TLC, with the packets of MCIngestPipeline.  *)
(***************************************************************************)
EXTENDS IngestLocks

MCWord == 4
MCCells == 0..1
MCCdnRoute == [c \in MCCells |-> <<"edge", c>>]

Keyframe == [device |-> 1, version |-> 1, size |-> 57, sealed |-> TRUE,
             keyTag |-> TRUE, cell |-> 1, sdf |-> 7]
Delta    == [device |-> 2, version |-> 1, size |-> 49, sealed |-> TRUE,
             keyTag |-> FALSE, cell |-> 0, sdf |-> 0]
Forged   == [Keyframe EXCEPT !.sealed = FALSE]
Stub     == [Delta EXCEPT !.size = 11]

InputPackets == {Keyframe, Delta, Forged, Stub}

=============================================================================
