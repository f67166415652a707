---------------------------- MODULE MCReplaySlot ----------------------------
(***************************************************************************)
(* Instances of ReplaySlot for TLC.                                        *)
(***************************************************************************)
EXTENDS ReplaySlot
=============================================================================
