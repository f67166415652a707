------------------------------ MODULE MCMenus ------------------------------
(***************************************************************************)
(* Instances of ReplayParity and of PauseMenu for TLC: the menus of a      *)
(* recording and its replay, or one menu and its buttons in every mode.    *)
(* The two have only the frame of MenuFrame in common: a behaviour is of   *)
(* one of them.                                                            *)
(***************************************************************************)
EXTENDS ReplayParity, PauseMenu

VARIABLE single  \* is it of PauseMenu?

\* One button at a time, and the pairs that meet in one frame of the menu.
OneOrTwo == {{}, {"down"}, {"o"}, {"x"}, {"start"}, {"o", "x"}}

MCInit == Init /\ PauseInit /\ single \in BOOLEAN /\ (~single => mode = 0)

MCNext ==
    /\ \/ single /\ PauseNext /\ UNCHANGED vars
       \/ ~single /\ Next /\ UNCHANGED pauseVars
    /\ UNCHANGED single

MCSpec == MCInit /\ [][MCNext]_<<vars, pauseVars, single>>
=============================================================================
