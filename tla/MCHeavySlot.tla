---------------------------- MODULE MCHeavySlot ----------------------------
(***************************************************************************)
(* Instance of HeavySlot for TLC.                                          *)
(***************************************************************************)
EXTENDS HeavySlot
=============================================================================
