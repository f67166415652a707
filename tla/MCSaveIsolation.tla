--------------------------- MODULE MCSaveIsolation ---------------------------
(***************************************************************************)
(* Instances of SaveIsolation for TLC.                                     *)
(***************************************************************************)
EXTENDS SaveIsolation

OneId == {"id"}
TwoVals == {"old", "new"}
==============================================================================
