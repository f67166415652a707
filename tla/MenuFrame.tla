----------------------------- MODULE MenuFrame -----------------------------
(***************************************************************************)
(* One frame of the pause menu of bios.p8 and of the buttons it reads.     *)
(*                                                                         *)
(* The menu knows rows by position only, and which rows there are depends  *)
(* on the recorder's mode (stat 148).  A frame is a function of the menu,  *)
(* the mode and what comes in from outside: PauseMenu runs one menu,       *)
(* ReplayParity gives two of them the same frames.                         *)
(***************************************************************************)
EXTENDS Naturals, Sequences

CONSTANTS
    NItems,       \* rows the cart added with menuitem()
    Breadcrumb,   \* can the cart be gone back from?
    QuitConfirm,  \* stat(149): the cart asked for confirmations
    Pads          \* the sets of buttons a player holds

Buttons == {"up", "down", "o", "x", "start"}

ASSUME MenuConstants ==
    /\ NItems \in 0 .. 5
    /\ Breadcrumb \in BOOLEAN
    /\ QuitConfirm \in BOOLEAN
    /\ Pads \subseteq SUBSET Buttons

\* What one frame gets from outside the menu.
Inputs == [
    held : Pads,          \* buttons down
    repeats : BOOLEAN,    \* is this one of the frames held buttons repeat on?
    polls : BOOLEAN,      \* does the cart update the buttons this frame?
    suppress : BOOLEAN,   \* has the cart set 0x5f30?
    stays : BOOLEAN]      \* what the callback of a cart's row returns

Subs == {"main", "options", "recording", "prompt"}
Rows == {"continue", "item", "options", "recording", "reset", "breadcrumb", "quit",
         "stop", "slot", "record", "play", "music", "sfx", "fps", "back", "yes"}
Commands == {"none", "item", "stop", "record", "play", "reset", "breadcrumb", "quit"}

Menus == [
    paused : BOOLEAN,
    sub : Subs,                   \* inquitmsg, inrec, inoption
    cursor : 0 .. 9,              \* of the main menu
    subcursor : 0 .. 3,           \* of the submenu: each starts its own at 0
    asked : Rows \cup {"none"},   \* the row the prompt is about
    act : BOOLEAN,                \* pause_act
    start : BOOLEAN,              \* pause_btn
    count : [Buttons -> 0 .. 2],  \* m_state.buttons[0]; 2 is held
    pend : SUBSET Buttons,        \* buttons[1]: down since the last update
    free : SUBSET Buttons,        \* buttons[2]: not masked
    command : Commands]           \* what Tick asks for, "none" between frames

Fresh == [
    paused |-> FALSE, sub |-> "main", cursor |-> 0, subcursor |-> 0,
    asked |-> "none", act |-> FALSE, start |-> FALSE,
    count |-> [b \in Buttons |-> 0], pend |-> {}, free |-> {},
    command |-> "none"]
-----------------------------------------------------------------------------
(* Buttons.                                                                *)

\* A masked button reads as up until it has been up.
Poll(q) ==
    LET free == q.free \cup (Buttons \ q.pend)
        down == q.pend \cap free
    IN  [q EXCEPT !.free = free, !.pend = {},
                  !.count = [b \in Buttons |->
                      IF b \notin down THEN 0 ELSE IF q.count[b] = 0 THEN 1 ELSE 2]]

Mask(q) == [q EXCEPT !.free = {}]

Btn(q, b) == q.count[b] > 0

Btnp(q, b, i) == q.count[b] = 1 \/ (q.count[b] = 2 /\ i.repeats)
-----------------------------------------------------------------------------
(* The menu.                                                               *)

\* Mutant: opening the menu masks nothing.
EnterUnmasked(q) == [q EXCEPT !.paused = TRUE, !.cursor = 0]

\* __z8_enter_pause.
Enter(q) == [Mask(q) EXCEPT !.paused = TRUE, !.cursor = 0]

\* The menu returned false.
Leave(q) == [Mask(q) EXCEPT !.paused = FALSE]

\* A frame of the cart.  A press of start it did not claim opens the menu.
GameTick(q, i) ==
    LET polled == IF i.polls THEN Poll(q) ELSE q
        n == [polled EXCEPT !.start = Btn(polled, "start")]
    IN  IF ~n.start \/ q.start THEN n
        ELSE IF i.suppress THEN Mask(n) ELSE Enter(n)

\* Mutant: a replay has the rows of a recording.
RecordingRowsAlike(md) ==
    IF md = 0 THEN <<"slot", "record", "play", "back">> ELSE <<"stop", "back">>

RecordingRows(md) ==
    CASE md = 1 -> <<"stop", "back">>
      [] md = 2 -> <<"back">>
      [] OTHER -> <<"slot", "record", "play", "back">>

MainRows ==
    <<"continue">> \o [n \in 1 .. NItems |-> "item"] \o <<"options", "recording", "reset">>
    \o (IF Breadcrumb THEN <<"breadcrumb">> ELSE <<>>) \o <<"quit">>

RowsOf(sub, md) ==
    CASE sub = "main" -> MainRows
      [] sub = "options" -> <<"music", "sfx", "fps", "back">>
      [] sub = "recording" -> RecordingRows(md)
      [] OTHER -> <<"back", "yes">>

Cursor(q) == IF q.sub = "main" THEN q.cursor ELSE q.subcursor

SetCursor(q, at) ==
    IF q.sub = "main" THEN [q EXCEPT !.cursor = at] ELSE [q EXCEPT !.subcursor = at]

\* The cursor wraps over the rows there are.
Moved(q, i, rows) ==
    ((Cursor(q) + (IF Btnp(q, "down", i) THEN 1 ELSE 0) + Len(rows))
        - (IF Btnp(q, "up", i) THEN 1 ELSE 0)) % Len(rows)

ToMain(q) == [q EXCEPT !.sub = "main", !.subcursor = 0, !.asked = "none"]

\* Mutant: only a recording is asked about.
AsksWhenRecording(row, md) ==
    \/ QuitConfirm /\ row \in {"reset", "breadcrumb", "quit"}
    \/ md = 1 /\ row = "quit"

\* Is the row confirmed first?
Asks(row, md) ==
    \/ QuitConfirm /\ row \in {"reset", "breadcrumb", "quit"}
    \/ md # 0 /\ row = "quit"

\* The callback of a row.
Callback(q, row) ==
    CASE row \in {"options", "recording"} ->
             [q EXCEPT !.sub = row]
      [] row = "back" -> ToMain(q)
      [] row = "stop" -> [ToMain(q) EXCEPT !.command = "stop"]
      [] row = "yes" -> [ToMain(q) EXCEPT !.command = q.asked]
      [] row \in {"item", "record", "play", "reset", "breadcrumb", "quit"} ->
             [q EXCEPT !.command = row]
      [] OTHER -> q

\* Does the menu stay open after it?  Those of a submenu do.
StaysOpen(sub, row, i) ==
    \/ sub \in {"options", "recording"}
    \/ row \in {"options", "recording", "back"}
    \/ row = "item" /\ i.stays

\* btnp(5): out of the submenu, or out of the menu.  A row chosen in the same
\* frame still runs, but "yes" finds its prompt gone and raises an error.
Back(q, row, fired) ==
    IF q.sub = "main" THEN Leave(q)
    ELSE LET out == ToMain(q)
         IN  IF fired /\ row # "yes" THEN Callback(out, row) ELSE out

\* __z8_pause_menu.
MenuTick(q, md, i) ==
    LET n == Poll(q)
        rows == RowsOf(n.sub, md)
        at == Moved(n, i, rows)
        row == rows[at + 1]
        act == Btn(n, "o") \/ Btn(n, "start")
        fired == act /\ ~n.act
        now == [SetCursor(n, at) EXCEPT !.act = act]
    IN  IF Btnp(n, "x", i) THEN Back(now, row, fired)
        ELSE IF ~fired THEN now
        ELSE IF Asks(row, md)
        THEN [now EXCEPT !.sub = "prompt", !.asked = row]
        ELSE IF StaysOpen(n.sub, row, i) THEN Callback(now, row)
        ELSE Leave(Callback(now, row))

\* __z8_tick, after the frame's buttons were handed over.
Tick(q, md, i) ==
    LET fed == [q EXCEPT !.pend = @ \cup i.held]
    IN  IF fed.paused THEN MenuTick(fed, md, i) ELSE GameTick(fed, i)
=============================================================================
