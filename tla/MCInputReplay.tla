---------------------------- MODULE MCInputReplay ----------------------------
(***************************************************************************)
(* Instances of InputReplay for TLC.  Contents of files and words of the   *)
(* mouse are only compared for equality.                                   *)
(***************************************************************************)
EXTENDS InputReplay, TLC

OneButton == {"x"}
OneChar == {"a"}
NoneOrTwo == {<<>>, <<"a", "a">>}
TwoFiles == {"entry", "sibling"}

Alike == Permutations(Versions) \cup Permutations(Pointers)
==============================================================================
