---------------------------- MODULE ReplayParity ----------------------------
(***************************************************************************)
(* A recorded run and its replay, side by side.  The replay is handed the  *)
(* buttons of the recorded frames, so that its pause menu must go through  *)
(* the same states although it has other rows.                             *)
(***************************************************************************)
EXTENDS MenuFrame

VARIABLES
    rec,    \* the menu of the run that is recorded (mode 1)
    play,   \* the menu of the replay (mode 2)
    did,    \* what each asked for in the last frame
    take    \* "open", "saved" or "lost"

vars == <<rec, play, did, take>>

TypeOK ==
    /\ rec \in Menus /\ play \in Menus
    /\ did \in [rec : Commands, play : Commands]
    /\ take \in {"open", "saved", "lost"}

Init ==
    /\ rec = Fresh /\ play = Fresh
    /\ did = [rec |-> "none", play |-> "none"]
    /\ take = "open"

\* What the recorded run asks for decides about the take: a stop may fail, and a
\* reset or a quit throws it away.
TakeAfter(command) ==
    CASE command = "stop" -> {"open", "saved"}
      [] command \in {"none", "item", "breadcrumb"} -> {"open"}
      [] OTHER -> {"lost"}

Frame(i) ==
    LET r == Tick(rec, 1, i)
        p == Tick(play, 2, i)
    IN  /\ take = "open"
        /\ rec' = [r EXCEPT !.command = "none"]
        /\ play' = [p EXCEPT !.command = "none"]
        /\ did' = [rec |-> r.command, play |-> p.command]
        /\ take' \in TakeAfter(r.command)

\* The take is written at the frame cap, before the frame reaches the menu.
FullTake ==
    /\ take = "open"
    /\ take' = "saved"
    /\ UNCHANGED <<rec, play, did>>

\* The next recording.
Again ==
    /\ take # "open"
    /\ rec' = Fresh /\ play' = Fresh
    /\ did' = [rec |-> "none", play |-> "none"]
    /\ take' = "open"

Next == (\E i \in Inputs : Frame(i)) \/ FullTake \/ Again

Spec == Init /\ [][Next]_vars
-----------------------------------------------------------------------------
(* Properties.                                                             *)

\* In every frame of a take the replay's menu is open, closed, masked and placed
\* as the recorded one; only inside the recording submenu may its cursor differ.
InStep ==
    take # "lost" =>
        /\ [rec EXCEPT !.subcursor = 0] = [play EXCEPT !.subcursor = 0]
        /\ rec.sub # "recording" => rec = play

\* The replay asks for what the recorded run asked for, and never for a stop.
SameCommands ==
    take # "lost" => did.play = IF did.rec = "stop" THEN "none" ELSE did.rec
=============================================================================
