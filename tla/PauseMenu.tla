----------------------------- MODULE PauseMenu -----------------------------
(***************************************************************************)
(* The pause menu while the program runs: the recorder's mode changes      *)
(* under it, sessions end, and its rows end the process.                   *)
(***************************************************************************)
EXTENDS MenuFrame

VARIABLES
    m,        \* the menu and the buttons, see Menus
    mode,     \* g_rec_mode: 0 idle, 1 recording, 2 playing
    echo      \* history: buttons down ever since the menu opened or closed

pauseVars == <<m, mode, echo>>

PauseTypeOK == m \in Menus /\ mode \in 0 .. 2 /\ echo \subseteq Buttons

-----------------------------------------------------------------------------
PauseInit == m = Fresh /\ mode \in 0 .. 2 /\ echo = {}

Echoes(i) == echo' = IF m.paused # m'.paused THEN i.held ELSE echo \cap i.held

\* A frame of this process whose menu asks for one of these.
MenuRuns(i, commands) ==
    LET after == Tick(m, mode, i)
    IN  /\ after.command \in commands
        /\ m' = [after EXCEPT !.command = "none"]
        /\ Echoes(i)

\* Nothing is asked of the recorder or the process, or the recorder refuses.
PlainFrame(i) ==
    /\ MenuRuns(i, {"none", "item", "breadcrumb", "record", "play"})
    /\ UNCHANGED mode

\* Stopping ends the session when the take could be written.
StopFrame(i) ==
    /\ MenuRuns(i, {"stop"})
    /\ mode' \in {0, mode}

\* The process ends, or the game does; the next cart starts with a fresh menu.
LastFrame(i) ==
    /\ Tick(m, mode, i).command \in {"record", "play", "reset", "quit"}
    /\ m' = Fresh
    /\ mode' \in 0 .. 2
    /\ echo' = {}

\* The take is full, the replay is over or taken over, a save state was loaded.
SessionEnds ==
    /\ mode # 0
    /\ mode' = 0
    /\ UNCHANGED <<m, echo>>

PauseNext ==
    \/ \E i \in Inputs : PlainFrame(i) \/ StopFrame(i) \/ LastFrame(i)
    \/ SessionEnds

PauseSpec == PauseInit /\ [][PauseNext]_pauseVars
-----------------------------------------------------------------------------
(* Properties.                                                             *)

\* The press that opens or closes the menu is no press on the other side of it,
\* for as long as the button stays down.
NoEcho ==
    [][m.paused = m'.paused /\ m'.pend = {} => \A b \in echo' : ~Btn(m', b)]_m
=============================================================================
