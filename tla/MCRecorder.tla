----------------------------- MODULE MCRecorder -----------------------------
(***************************************************************************)
(* Instances of Recorder for TLC.  Carts keep their names: the take        *)
(* somebody sent belongs to one of them.                                   *)
(***************************************************************************)
EXTENDS Recorder

CONSTANTS celeste, dusk, sent

TwoCarts == {celeste, dusk}
RecslotFails == {"recslot"}
=============================================================================
