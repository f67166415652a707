----------------------------- MODULE MenuProofs -----------------------------
(***************************************************************************)
(* ReplayParity and PauseMenu, for every number of rows a cart adds, with  *)
(* and without breadcrumbs and confirmations, and for every set of buttons *)
(* held.                                                                   *)
(***************************************************************************)
EXTENDS ReplayParity, PauseMenu, Integers, TLAPS

\* Menus, as far as the argument needs their types.
Shape == [
    paused : BOOLEAN, sub : Subs, cursor : Int, subcursor : Int,
    asked : Rows \cup {"none"}, act : BOOLEAN, start : BOOLEAN,
    count : [Buttons -> 0 .. 2], pend : SUBSET Buttons, free : SUBSET Buttons,
    command : Commands]

\* A menu between frames: nothing is asked for, a prompt is about a row that asks,
\* and a closed menu has no submenu.
Settled(q) ==
    /\ q \in Shape
    /\ q.command = "none"
    /\ q.asked \in {"none", "reset", "breadcrumb", "quit"}
    /\ ~q.paused => q.sub = "main"

\* Equal but for the place inside the recording submenu.
Alike(q, p) ==
    /\ p = [q EXCEPT !.subcursor = p.subcursor]
    /\ q.sub # "recording" => q = p

-----------------------------------------------------------------------------
(* The menu's helpers.                                                     *)

\* Updating the buttons changes only them.
LEMMA PollShape ==
    ASSUME NEW q \in Shape
    PROVE  /\ Poll(q) \in Shape
           /\ Poll(q).paused = q.paused /\ Poll(q).sub = q.sub
           /\ Poll(q).cursor = q.cursor /\ Poll(q).subcursor = q.subcursor
           /\ Poll(q).asked = q.asked /\ Poll(q).act = q.act /\ Poll(q).start = q.start
           /\ Poll(q).command = q.command
<1>1. [b \in Buttons |-> IF b \notin q.pend \cap (q.free \cup (Buttons \ q.pend)) THEN 0
                         ELSE IF q.count[b] = 0 THEN 1 ELSE 2] \in [Buttons -> 0 .. 2]
  OBVIOUS
<1>2. q.free \cup (Buttons \ q.pend) \in SUBSET Buttons
  BY DEF Shape
<1>. QED BY <1>1, <1>2 DEF Poll, Shape

\* A menu is left with all masked and nothing else changed.
LEMMA LeaveShape ==
    ASSUME NEW q \in Shape
    PROVE  /\ Leave(q) \in Shape
           /\ Leave(q).paused = FALSE /\ Leave(q).sub = q.sub
           /\ Leave(q).asked = q.asked /\ Leave(q).command = q.command
  BY DEF Leave, Mask, Shape

\* A menu is entered with all masked and the cursor on top.
LEMMA EnterShape ==
    ASSUME NEW q \in Shape
    PROVE  /\ Enter(q) \in Shape
           /\ Enter(q).paused = TRUE
           /\ Enter(q).asked = q.asked /\ Enter(q).command = q.command
<1> DEFINE a == Mask(q)
           b == [a EXCEPT !.paused = TRUE]
<1>1. a \in Shape /\ a.asked = q.asked /\ a.command = q.command
  BY DEF Mask, Shape
<1>. HIDE DEF a
<1>2. b \in Shape /\ b.paused = TRUE /\ b.asked = q.asked /\ b.command = q.command
  BY <1>1 DEF Shape
<1>3. Enter(q) = [b EXCEPT !.cursor = 0]
  BY DEF Enter, a
<1>. HIDE DEF b
<1>. QED BY <1>2, <1>3 DEF Shape

\* A submenu is left with nothing of it remembered.
LEMMA ToMainShape ==
    ASSUME NEW q \in Shape
    PROVE  /\ ToMain(q) \in Shape
           /\ ToMain(q).paused = q.paused /\ ToMain(q).command = q.command
           /\ ToMain(q).sub = "main" /\ ToMain(q).asked = "none"
<1> DEFINE a == [q EXCEPT !.sub = "main"]
           b == [a EXCEPT !.subcursor = 0]
<1>1. a \in Shape /\ a.paused = q.paused /\ a.command = q.command /\ a.sub = "main"
  BY DEF Shape, Subs
<1>. HIDE DEF a
<1>2. b \in Shape /\ b.paused = q.paused /\ b.command = q.command /\ b.sub = "main"
  BY <1>1 DEF Shape
<1>3. ToMain(q) = [b EXCEPT !.asked = "none"]
  BY DEF ToMain, a
<1>. HIDE DEF b
<1>. QED BY <1>2, <1>3 DEF Shape

\* The rows of the main menu: none of them stops a recording.
LEMMA MainRowsAre ==
    ASSUME NEW k \in 1 .. Len(MainRows)
    PROVE  MainRows[k] \in {"continue", "item", "options", "recording", "reset",
                            "breadcrumb", "quit"}
  BY MenuConstants DEF MainRows

\* A frame of the cart keeps the menu settled, open or closed.
LEMMA GameFrame ==
    ASSUME NEW q, Settled(q), ~q.paused, NEW i \in Inputs
    PROVE  Settled(GameTick(q, i))
<1> DEFINE polled == IF i.polls THEN Poll(q) ELSE q
           n == [polled EXCEPT !.start = Btn(polled, "start")]
<1>1. /\ polled \in Shape /\ polled.paused = FALSE /\ polled.sub = "main"
      /\ polled.asked = q.asked /\ polled.command = "none"
  <2>1. CASE i.polls
    BY <2>1, PollShape DEF Settled, Shape
  <2>2. CASE ~i.polls
    BY <2>2 DEF Settled, Shape
  <2>. QED BY <2>1, <2>2
<1>2. Btn(polled, "start") \in BOOLEAN
  BY DEF Btn
<1>3. /\ n \in Shape /\ n.paused = FALSE /\ n.sub = "main"
      /\ n.asked = q.asked /\ n.command = "none"
  BY <1>1, <1>2 DEF Shape
<1>. HIDE DEF n, polled
<1>4. Settled(n)
  BY <1>3 DEF Settled
<1>5. Settled(Mask(n))
  BY <1>3 DEF Settled, Mask, Shape
<1>6. Settled(Enter(n))
  BY <1>3, EnterShape DEF Settled
<1>. QED BY <1>4, <1>5, <1>6 DEF GameTick, n, polled

\* A row outside the recording submenu: its callback asks for no stop, and one
\* after which the menu closes is not in a submenu.
LEMMA OutsideRow ==
    ASSUME NEW q \in Shape, q.paused, q.sub # "recording", q.command = "none",
           q.asked \in {"none", "reset", "breadcrumb", "quit"}, NEW i \in Inputs,
           NEW row \in {"continue", "item", "options", "recording", "reset", "breadcrumb",
                        "quit", "music", "sfx", "fps", "back", "yes"},
           row = "yes" => q.sub = "prompt"
    PROVE  /\ Callback(q, row) \in Shape
           /\ Callback(q, row).paused
           /\ Callback(q, row).asked \in {"none", "reset", "breadcrumb", "quit"}
           /\ Callback(q, row).command # "stop"
           /\ ~StaysOpen(q.sub, row, i) /\ (q.sub = "prompt" => row \in {"back", "yes"})
                => Callback(q, row).sub = "main"
<1>1. /\ ToMain(q) \in Shape /\ ToMain(q).paused /\ ToMain(q).asked = "none"
      /\ ToMain(q).sub = "main" /\ ToMain(q).command = "none"
  BY ToMainShape
<1>2. CASE row \in {"options", "recording"}
  <2>1. Callback(q, row) = [q EXCEPT !.sub = row]
    BY <1>2 DEF Callback
  <2>. QED BY <1>2, <2>1 DEF Shape, Subs, StaysOpen
<1>3. CASE row = "back"
  BY <1>1, <1>3 DEF Callback
<1>4. CASE row = "yes"
  <2>1. Callback(q, row) = [ToMain(q) EXCEPT !.command = q.asked]
    BY <1>4 DEF Callback
  <2>. QED BY <1>1, <1>4, <2>1 DEF Shape, Commands
<1>5. CASE row \in {"item", "reset", "breadcrumb", "quit"}
  <2>1. Callback(q, row) = [q EXCEPT !.command = row]
    BY <1>5 DEF Callback
  <2>. QED BY <1>5, <2>1 DEF Shape, Commands, StaysOpen, Subs
<1>6. CASE row \in {"continue", "music", "sfx", "fps"}
  <2>1. Callback(q, row) = q
    BY <1>6 DEF Callback
  <2>. QED BY <1>6, <2>1 DEF Shape, StaysOpen, Subs
<1>. QED BY <1>2, <1>3, <1>4, <1>5, <1>6

\* The cursor is on a row.
LEMMA MovedRange ==
    ASSUME NEW q \in Shape, NEW i, NEW rows, Len(rows) \in Nat \ {0}
    PROVE  Moved(q, i, rows) \in 0 .. Len(rows) - 1
<1>1. Cursor(q) \in Int
  BY DEF Cursor, Shape
<1>. QED BY <1>1 DEF Moved

\* What the rows outside the recording submenu are; the mode does not matter.
LEMMA OutsideRows ==
    ASSUME NEW sub \in Subs, sub # "recording", NEW md \in {1, 2}
    PROVE  /\ RowsOf(sub, md) = RowsOf(sub, 1)
           /\ Len(RowsOf(sub, md)) \in Nat \ {0}
           /\ \A k \in 1 .. Len(RowsOf(sub, md)) :
                 /\ RowsOf(sub, md)[k] \in
                       {"continue", "item", "options", "recording", "reset", "breadcrumb",
                        "quit", "music", "sfx", "fps", "back", "yes"}
                 /\ sub = "prompt" => RowsOf(sub, md)[k] \in {"back", "yes"}
                 /\ RowsOf(sub, md)[k] = "yes" => sub = "prompt"
<1>1. CASE sub = "main"
  <2>1. RowsOf(sub, md) = MainRows /\ RowsOf(sub, 1) = MainRows
    BY <1>1 DEF RowsOf
  <2>2. Len(MainRows) \in Nat \ {0}
    BY MenuConstants DEF MainRows
  <2>. QED BY <1>1, <2>1, <2>2, MainRowsAre
<1>2. CASE sub = "options"
  <2>1. \A x \in {1, 2} : RowsOf(sub, x) = <<"music", "sfx", "fps", "back">>
    BY <1>2 DEF RowsOf
  <2>. QED BY <1>2, <2>1
<1>3. CASE sub = "prompt"
  <2>1. \A x \in {1, 2} : RowsOf(sub, x) = <<"back", "yes">>
    BY <1>3 DEF RowsOf
  <2>. QED BY <1>3, <2>1
<1>. QED BY <1>1, <1>2, <1>3 DEF Subs

\* A row that asks opens the prompt.
LEMMA PromptShape ==
    ASSUME NEW q \in Shape, NEW row \in {"reset", "breadcrumb", "quit"}
    PROVE  LET p == [q EXCEPT !.sub = "prompt", !.asked = row]
           IN  /\ p \in Shape /\ p.paused = q.paused /\ p.command = q.command
               /\ p.asked = row
<1> DEFINE a == [q EXCEPT !.sub = "prompt"]
<1>1. a \in Shape /\ a.paused = q.paused /\ a.command = q.command
  BY DEF Shape, Subs
<1>2. [q EXCEPT !.sub = "prompt", !.asked = row] = [a EXCEPT !.asked = row]
  OBVIOUS
<1>3. row \in Rows \cup {"none"}
  BY DEF Rows
<1>. HIDE DEF a
<1>. QED BY <1>1, <1>2, <1>3 DEF Shape

\* Placing the cursor and noting the press change nothing else.
LEMMA NowShape ==
    ASSUME NEW q \in Shape, NEW at \in Int, NEW act \in BOOLEAN
    PROVE  LET p == [SetCursor(q, at) EXCEPT !.act = act]
           IN  /\ p \in Shape /\ p.paused = q.paused /\ p.command = q.command
               /\ p.asked = q.asked /\ p.sub = q.sub
<1>1. /\ SetCursor(q, at) \in Shape /\ SetCursor(q, at).paused = q.paused
      /\ SetCursor(q, at).command = q.command /\ SetCursor(q, at).asked = q.asked
      /\ SetCursor(q, at).sub = q.sub
  BY DEF SetCursor, Shape
<1>. QED BY <1>1 DEF Shape

\* A menu with its command taken is settled.
Taken(q) == [q EXCEPT !.command = "none"]

LEMMA TakenSettled ==
    ASSUME NEW q \in Shape, q.asked \in {"none", "reset", "breadcrumb", "quit"},
           ~q.paused => q.sub = "main"
    PROVE  Settled(Taken(q))
  BY DEF Settled, Taken, Shape, Commands

\* A frame of the open menu outside the recording submenu.
LEMMA OutsideMenu ==
    ASSUME NEW q, Settled(q), q.paused, q.sub # "recording", NEW md \in {1, 2},
           NEW i \in Inputs
    PROVE  /\ Settled(Taken(MenuTick(q, md, i)))
           /\ MenuTick(q, md, i).command # "stop"
           /\ MenuTick(q, md, i) \in Shape
<1> DEFINE n == Poll(q)
           rows == RowsOf(n.sub, md)
           at == Moved(n, i, rows)
           row == rows[at + 1]
           act == Btn(n, "o") \/ Btn(n, "start")
           fired == act /\ ~n.act
           now == [SetCursor(n, at) EXCEPT !.act = act]
           Good(t) == /\ Settled(Taken(t))
                      /\ t.command # "stop"
                      /\ t \in Shape
<1>1. /\ n \in Shape /\ n.sub = q.sub /\ n.sub \in Subs \ {"recording"}
      /\ n.paused /\ n.asked = q.asked /\ n.command = "none"
  BY PollShape DEF Settled, Shape
<1>2. /\ Len(rows) \in Nat \ {0}
      /\ \A k \in 1 .. Len(rows) :
            /\ rows[k] \in
                  {"continue", "item", "options", "recording", "reset", "breadcrumb",
                   "quit", "music", "sfx", "fps", "back", "yes"}
            /\ n.sub = "prompt" => rows[k] \in {"back", "yes"}
            /\ rows[k] = "yes" => n.sub = "prompt"
  BY <1>1, OutsideRows
<1>3. at \in 0 .. Len(rows) - 1
  BY <1>1, <1>2, MovedRange
<1>4. /\ row \in {"continue", "item", "options", "recording", "reset", "breadcrumb",
                  "quit", "music", "sfx", "fps", "back", "yes"}
      /\ n.sub = "prompt" => row \in {"back", "yes"}
      /\ row = "yes" => n.sub = "prompt"
  BY <1>2, <1>3
<1>5. act \in BOOLEAN
  BY DEF Btn
<1>6. /\ now \in Shape /\ now.paused /\ now.command = "none"
      /\ now.asked \in {"none", "reset", "breadcrumb", "quit"} /\ now.sub = n.sub
  <2>1. at \in Int
    BY <1>2, <1>3
  <2>2. n.asked \in {"none", "reset", "breadcrumb", "quit"}
    BY <1>1 DEF Settled
  <2>. HIDE DEF n, at, act
  <2>3. /\ now \in Shape /\ now.paused = n.paused /\ now.command = n.command
        /\ now.asked = n.asked /\ now.sub = n.sub
    BY <1>1, <1>5, <2>1, NowShape
  <2>. HIDE DEF now
  <2>. QED BY <1>1, <2>2, <2>3
<1>7. MenuTick(q, md, i) =
         IF Btnp(n, "x", i) THEN Back(now, row, fired)
         ELSE IF ~fired THEN now
         ELSE IF Asks(row, md) THEN [now EXCEPT !.sub = "prompt", !.asked = row]
         ELSE IF StaysOpen(n.sub, row, i) THEN Callback(now, row)
         ELSE Leave(Callback(now, row))
  BY DEF MenuTick
<1>. HIDE DEF n, rows, at, row, act, fired, now
<1>8. Good(Back(now, row, fired))
  <2>1. CASE now.sub = "main"
    <3>1. Back(now, row, fired) = Leave(now)
      BY <2>1 DEF Back
    <3>. QED BY <1>6, <2>1, <3>1, LeaveShape, TakenSettled
  <2>2. CASE now.sub # "main" /\ ~(fired /\ row # "yes")
    <3>1. Back(now, row, fired) = ToMain(now)
      BY <2>2 DEF Back
    <3>. QED BY <1>6, <3>1, ToMainShape, TakenSettled
  <2>3. CASE now.sub # "main" /\ fired /\ row # "yes"
    <3>1. Back(now, row, fired) = Callback(ToMain(now), row)
      BY <2>3 DEF Back
    <3>2. /\ ToMain(now) \in Shape /\ ToMain(now).paused /\ ToMain(now).sub # "recording"
          /\ ToMain(now).command = "none" /\ ToMain(now).asked = "none"
      BY <1>6, ToMainShape
    <3>3. /\ Callback(ToMain(now), row) \in Shape
          /\ Callback(ToMain(now), row).paused
          /\ Callback(ToMain(now), row).asked \in {"none", "reset", "breadcrumb", "quit"}
          /\ Callback(ToMain(now), row).command # "stop"
      BY <1>4, <2>3, <3>2, OutsideRow
    <3>. QED BY <3>1, <3>3, TakenSettled
  <2>. QED BY <2>1, <2>2, <2>3
<1>9. Good(now)
  BY <1>6, TakenSettled
<1>10. ASSUME Asks(row, md)
       PROVE Good([now EXCEPT !.sub = "prompt", !.asked = row])
  <2>1. row \in {"reset", "breadcrumb", "quit"}
    BY <1>10 DEF Asks
  <2> DEFINE p == [now EXCEPT !.sub = "prompt", !.asked = row]
  <2>2. p \in Shape /\ p.paused = now.paused /\ p.command = now.command /\ p.asked = row
    BY <1>6, <2>1, PromptShape
  <2>. HIDE DEF p
  <2>3. Good(p)
    BY <1>6, <2>1, <2>2, TakenSettled
  <2>. QED BY <2>3 DEF p
<1>11. ASSUME StaysOpen(n.sub, row, i)
       PROVE Good(Callback(now, row))
  BY <1>1, <1>4, <1>6, OutsideRow, TakenSettled
<1>12. ASSUME ~StaysOpen(n.sub, row, i)
       PROVE Good(Leave(Callback(now, row)))
  <2>1. /\ Callback(now, row) \in Shape
        /\ Callback(now, row).asked \in {"none", "reset", "breadcrumb", "quit"}
        /\ Callback(now, row).command # "stop"
        /\ Callback(now, row).sub = "main"
    BY <1>1, <1>4, <1>6, <1>12, OutsideRow
  <2>. QED BY <2>1, LeaveShape, TakenSettled
<1>. QED BY <1>7, <1>8, <1>9, <1>10, <1>11, <1>12

-----------------------------------------------------------------------------
(* The two menus.                                                          *)

\* Outside the recording submenu a frame does not depend on the mode.
LEMMA SameMenuTick ==
    ASSUME NEW q \in Shape, q.sub # "recording", NEW i \in Inputs
    PROVE  MenuTick(q, 1, i) = MenuTick(q, 2, i)
<1>1. Poll(q).sub \in Subs \ {"recording"}
  BY PollShape DEF Shape
<1>2. RowsOf(Poll(q).sub, 1) = RowsOf(Poll(q).sub, 2)
  BY <1>1, OutsideRows
<1>3. \A row : Asks(row, 1) = Asks(row, 2)
  BY DEF Asks
<1>. QED BY <1>2, <1>3 DEF MenuTick

\* Updating the buttons does not look at the cursor.
LEMMA PollAlike ==
    ASSUME NEW q \in Shape, NEW c \in Int
    PROVE  Poll([q EXCEPT !.subcursor = c]) = [Poll(q) EXCEPT !.subcursor = c]
<1> DEFINE p == [q EXCEPT !.subcursor = c]
           free == q.free \cup (Buttons \ q.pend)
           count == [b \in Buttons |-> IF b \notin q.pend \cap free THEN 0
                                       ELSE IF q.count[b] = 0 THEN 1 ELSE 2]
<1>1. p \in Shape /\ p.free = q.free /\ p.pend = q.pend /\ p.count = q.count
  BY DEF Shape
<1>2. Poll(q) = [q EXCEPT !.free = free, !.pend = {}, !.count = count]
  BY DEF Poll
<1>. HIDE DEF p
<1>3. Poll(p) = [p EXCEPT !.free = free, !.pend = {}, !.count = count]
  BY <1>1 DEF Poll
<1>. HIDE DEF free, count
<1>4. [p EXCEPT !.free = free, !.pend = {}, !.count = count]
         = [[q EXCEPT !.free = free, !.pend = {}, !.count = count] EXCEPT !.subcursor = c]
  BY DEF p, Shape
<1>. QED BY <1>2, <1>3, <1>4 DEF p

\* Inside it the replay has only "back": whatever is chosen, both menus end alike,
\* and only the recorded run can ask for anything, which is a stop.
LEMMA RecordingMenu ==
    ASSUME NEW q, NEW p, Settled(q), Settled(p), Alike(q, p),
           q.paused, q.sub = "recording", NEW i \in Inputs
    PROVE  /\ Settled(Taken(MenuTick(q, 1, i))) /\ Settled(Taken(MenuTick(p, 2, i)))
           /\ Alike(Taken(MenuTick(q, 1, i)), Taken(MenuTick(p, 2, i)))
           /\ MenuTick(q, 1, i).command \in {"none", "stop"}
           /\ MenuTick(p, 2, i).command = "none"
<1> DEFINE n == Poll(q)
           o == Poll(p)
           atr == Moved(n, i, RecordingRows(1))
           atp == Moved(o, i, RecordingRows(2))
           act == Btn(n, "o") \/ Btn(n, "start")
           fired == act /\ ~n.act
           nowr == [SetCursor(n, atr) EXCEPT !.act = act]
           nowp == [SetCursor(o, atp) EXCEPT !.act = act]
           row == RecordingRows(1)[atr + 1]
<1>1. /\ n \in Shape /\ n.sub = "recording" /\ n.paused /\ n.command = "none"
      /\ n.asked \in {"none", "reset", "breadcrumb", "quit"}
  BY PollShape DEF Settled
<1>2. p.sub = "recording" /\ p.paused /\ p.asked = q.asked
  BY DEF Alike, Settled, Shape
<1>3. /\ o \in Shape /\ o.sub = "recording" /\ o.paused /\ o.command = "none"
      /\ o.asked \in {"none", "reset", "breadcrumb", "quit"}
  BY <1>2, PollShape DEF Settled
<1>4. o = [n EXCEPT !.subcursor = o.subcursor]
  <2>1. q \in Shape /\ p \in Shape /\ p.subcursor \in Int
    BY DEF Settled, Shape
  <2>2. Poll([q EXCEPT !.subcursor = p.subcursor]) = [Poll(q) EXCEPT !.subcursor = p.subcursor]
    BY <2>1, PollAlike
  <2>3. o.subcursor = p.subcursor
    BY <2>1, PollShape
  <2>. QED BY <2>2, <2>3 DEF Alike
<1>5. /\ RecordingRows(1) = <<"stop", "back">> /\ RecordingRows(2) = <<"back">>
      /\ RowsOf("recording", 1) = RecordingRows(1)
      /\ RowsOf("recording", 2) = RecordingRows(2)
  BY DEF RecordingRows, RowsOf
<1>6. atr \in 0 .. 1 /\ atp \in 0 .. 0
  <2>1. Len(RecordingRows(1)) = 2 /\ Len(RecordingRows(2)) = 1
    BY <1>5
  <2>2. Len(RecordingRows(1)) \in Nat \ {0} /\ Len(RecordingRows(2)) \in Nat \ {0}
    BY <2>1
  <2>3. /\ atr \in 0 .. Len(RecordingRows(1)) - 1
        /\ atp \in 0 .. Len(RecordingRows(2)) - 1
    BY <1>1, <1>3, <2>2, MovedRange
  <2>4. 2 - 1 = 1 /\ 1 - 1 = 0
    OBVIOUS
  <2>. QED BY <2>1, <2>3, <2>4, Zenon
<1>7. row \in {"stop", "back"} /\ RecordingRows(2)[atp + 1] = "back"
  BY <1>5, <1>6
<1>8. /\ \A b \in Buttons : Btn(o, b) = Btn(n, b) /\ Btnp(o, b, i) = Btnp(n, b, i)
      /\ o.act = n.act
  BY <1>1, <1>4 DEF Btn, Btnp, Shape
<1>9. act \in BOOLEAN
  BY DEF Btn
<1>10. MenuTick(q, 1, i) = IF Btnp(n, "x", i) THEN Back(nowr, row, fired)
                           ELSE IF ~fired THEN nowr ELSE Callback(nowr, row)
  BY <1>1, <1>5, <1>7 DEF MenuTick, Asks, StaysOpen
<1>11. MenuTick(p, 2, i) = IF Btnp(n, "x", i) THEN Back(nowp, "back", fired)
                           ELSE IF ~fired THEN nowp ELSE Callback(nowp, "back")
  <2>1. (Btn(o, "o") \/ Btn(o, "start")) = act /\ Btnp(o, "x", i) = Btnp(n, "x", i)
    BY <1>8 DEF Buttons
  <2>2. MenuTick(p, 2, i) =
           LET fr == (Btn(o, "o") \/ Btn(o, "start")) /\ ~o.act
               nw == [SetCursor(o, atp) EXCEPT !.act = (Btn(o, "o") \/ Btn(o, "start"))]
           IN  IF Btnp(o, "x", i) THEN Back(nw, "back", fr)
               ELSE IF ~fr THEN nw ELSE Callback(nw, "back")
    BY <1>3, <1>5, <1>7 DEF MenuTick, Asks, StaysOpen
  <2>. QED BY <1>8, <2>1, <2>2
<1>12. /\ nowr \in Shape /\ nowr.sub = "recording" /\ nowr.paused /\ nowr.command = "none"
       /\ nowr.asked \in {"none", "reset", "breadcrumb", "quit"}
  <2>1. atr \in Int
    BY <1>6
  <2>. HIDE DEF n, atr, act
  <2>. QED BY <1>1, <1>9, <2>1, NowShape
<1>13. /\ nowp \in Shape /\ nowp.sub = "recording" /\ nowp.paused /\ nowp.command = "none"
       /\ nowp.asked \in {"none", "reset", "breadcrumb", "quit"}
  <2>1. atp \in Int
    BY <1>6
  <2>. HIDE DEF o, atp, act
  <2>. QED BY <1>3, <1>9, <2>1, NowShape
<1>14. nowp = [nowr EXCEPT !.subcursor = nowp.subcursor]
  BY <1>1, <1>3, <1>4 DEF SetCursor, Shape
<1>. HIDE DEF n, o, atr, atp, act, fired, nowr, nowp, row
<1> DEFINE out == ToMain(nowr)
<1>15. ToMain(nowp) = out
  BY <1>12, <1>14 DEF ToMain, Shape
<1>16. /\ out \in Shape /\ out.paused /\ out.command = "none" /\ out.asked = "none"
       /\ out.sub = "main"
  BY <1>12, ToMainShape
<1>. HIDE DEF out
<1>17. /\ ToMain(out) \in Shape /\ ToMain(out).paused /\ ToMain(out).command = "none"
       /\ ToMain(out).asked = "none" /\ ToMain(out).sub = "main"
  BY <1>16, ToMainShape
<1>18. /\ Callback(out, "back") = ToMain(out) /\ Callback(nowp, "back") = out
       /\ Callback(nowr, "back") = out
       /\ Callback(out, "stop") = [ToMain(out) EXCEPT !.command = "stop"]
       /\ Callback(nowr, "stop") = [out EXCEPT !.command = "stop"]
  BY <1>15 DEF Callback, out
<1>19. /\ Back(nowr, row, fired) = IF fired THEN Callback(out, row) ELSE out
       /\ Back(nowp, "back", fired) = IF fired THEN ToMain(out) ELSE out
  BY <1>7, <1>12, <1>13, <1>15, <1>18 DEF Back, out
\* Left, the menus are equal once a stop is taken.
<1>20. ASSUME NEW t \in {out, ToMain(out)}, NEW r \in {t, [t EXCEPT !.command = "stop"]}
       PROVE  /\ Settled(Taken(r)) /\ Settled(Taken(t)) /\ Alike(Taken(r), Taken(t))
              /\ r.command \in {"none", "stop"} /\ t.command = "none"
  <2>1. /\ t \in Shape /\ t.paused /\ t.command = "none" /\ t.asked = "none"
        /\ t.sub = "main"
    BY <1>16, <1>17
  <2>2. Taken(r) = Taken(t) /\ r.command \in {"none", "stop"}
    BY <2>1 DEF Taken, Shape
  <2>3. Settled(Taken(t))
    BY <2>1, TakenSettled
  <2>4. Alike(Taken(t), Taken(t))
    BY <2>1 DEF Alike, Taken, Shape
  <2>. QED BY <2>1, <2>2, <2>3, <2>4
\* Stayed in, they differ in the place of the cursor.
<1>21. /\ Settled(Taken(nowr)) /\ Settled(Taken(nowp)) /\ Alike(Taken(nowr), Taken(nowp))
  <2>1. Settled(Taken(nowr)) /\ Settled(Taken(nowp))
    BY <1>12, <1>13, TakenSettled
  <2>2. Taken(nowr) = nowr /\ Taken(nowp) = nowp
    BY <1>12, <1>13 DEF Taken, Shape
  <2>. QED BY <1>12, <1>14, <2>1, <2>2 DEF Alike
<1> DEFINE Both(r, t) ==
       /\ Settled(Taken(r)) /\ Settled(Taken(t)) /\ Alike(Taken(r), Taken(t))
       /\ r.command \in {"none", "stop"} /\ t.command = "none"
<1>22. Both(Back(nowr, row, fired), Back(nowp, "back", fired))
  BY <1>7, <1>18, <1>19, <1>20
<1>23. Both(nowr, nowp)
  BY <1>12, <1>13, <1>21
<1>24. Both(Callback(nowr, row), Callback(nowp, "back"))
  BY <1>7, <1>18, <1>20
<1>. QED BY <1>10, <1>11, <1>22, <1>23, <1>24

\* One frame of both.
Outcome(r, t) ==
    /\ Settled(Taken(r)) /\ Settled(Taken(t)) /\ Alike(Taken(r), Taken(t))
    /\ t.command = IF r.command = "stop" THEN "none" ELSE r.command

LEMMA OneFrame ==
    ASSUME NEW q, NEW p, Settled(q), Settled(p), Alike(q, p), NEW i \in Inputs
    PROVE  Outcome(Tick(q, 1, i), Tick(p, 2, i))
<1> DEFINE a == [q EXCEPT !.pend = @ \cup i.held]
           b == [p EXCEPT !.pend = @ \cup i.held]
<1>1. i.held \in SUBSET Buttons
  BY MenuConstants DEF Inputs
<1>2. Settled(a) /\ a.paused = q.paused /\ a.sub = q.sub
  BY <1>1 DEF Settled, Shape
<1>3. Settled(b) /\ b.subcursor = p.subcursor
  BY <1>1 DEF Settled, Shape
<1>4. Alike(a, b)
  <2>1. b = [a EXCEPT !.subcursor = b.subcursor]
    BY <1>3 DEF Alike, Settled, Shape
  <2>. QED BY <1>2, <2>1 DEF Alike
<1>5. /\ Tick(q, 1, i) = IF a.paused THEN MenuTick(a, 1, i) ELSE GameTick(a, i)
      /\ Tick(p, 2, i) = IF b.paused THEN MenuTick(b, 2, i) ELSE GameTick(b, i)
  BY DEF Tick
<1>6. b.paused = a.paused
  BY <1>2, <1>4 DEF Alike, Settled, Shape
<1>. HIDE DEF a, b
<1>7. CASE ~a.paused
  <2>1. a = b
    BY <1>2, <1>4, <1>7 DEF Alike, Settled
  <2>2. Settled(GameTick(a, i))
    BY <1>2, <1>7, GameFrame
  <2>3. Outcome(GameTick(a, i), GameTick(a, i))
    BY <2>2 DEF Outcome, Settled, Alike, Taken, Shape
  <2>. QED BY <1>5, <1>6, <1>7, <2>1, <2>3
<1>8. CASE a.paused /\ a.sub # "recording"
  <2>1. a = b /\ a \in Shape
    BY <1>2, <1>4, <1>8 DEF Alike, Settled
  <2>2. MenuTick(a, 1, i) = MenuTick(a, 2, i)
    BY <1>8, <2>1, SameMenuTick
  <2> DEFINE r == MenuTick(a, 1, i)
  <2>3. Settled(Taken(r)) /\ r.command # "stop" /\ r \in Shape
    BY <1>2, <1>8, OutsideMenu
  <2>. HIDE DEF r
  <2>4. Outcome(r, r)
    BY <2>3 DEF Outcome, Alike, Taken, Shape
  <2>. QED BY <1>5, <1>6, <1>8, <2>1, <2>2, <2>4 DEF r
<1>9. CASE a.paused /\ a.sub = "recording"
  <2>1. /\ Settled(Taken(MenuTick(a, 1, i))) /\ Settled(Taken(MenuTick(b, 2, i)))
        /\ Alike(Taken(MenuTick(a, 1, i)), Taken(MenuTick(b, 2, i)))
        /\ MenuTick(a, 1, i).command \in {"none", "stop"}
        /\ MenuTick(b, 2, i).command = "none"
    BY <1>2, <1>3, <1>4, <1>9, RecordingMenu
  <2>. QED BY <1>5, <1>6, <1>9, <2>1 DEF Outcome
<1>. QED BY <1>7, <1>8, <1>9

-----------------------------------------------------------------------------
(* The invariant.                                                          *)

\* The parity properties alone say nothing of the next frame: that needs both menus
\* settled, with only the rows that ask behind a prompt.
IInv ==
    take # "lost" =>
        /\ Settled(rec) /\ Settled(play) /\ Alike(rec, play)
        /\ SameCommands

LEMMA FreshSettled == Settled(Fresh) /\ Alike(Fresh, Fresh)
<1>1. [b \in Buttons |-> 0] \in [Buttons -> 0 .. 2]
  OBVIOUS
<1>2. Fresh \in Shape
  BY <1>1 DEF Fresh, Shape, Subs, Rows, Commands
<1>3. Fresh.command = "none" /\ Fresh.asked = "none" /\ Fresh.sub = "main"
  BY DEF Fresh
<1>. HIDE DEF Fresh
<1>. QED BY <1>2, <1>3 DEF Settled, Alike, Shape

LEMMA Inductive == Spec => []IInv
<1>1. Init => IInv
  BY FreshSettled DEF Init, IInv, SameCommands
<1>2. IInv /\ [Next]_vars => IInv'
  <2>. SUFFICES ASSUME IInv, [Next]_vars PROVE IInv'
    OBVIOUS
  <2>1. ASSUME NEW i \in Inputs, Frame(i) PROVE IInv'
    <3> DEFINE r == Tick(rec, 1, i)
               t == Tick(play, 2, i)
    <3>1. Settled(rec) /\ Settled(play) /\ Alike(rec, play)
      BY <2>1 DEF Frame, IInv
    <3>2. Outcome(r, t)
      BY <3>1, OneFrame
    <3>3. /\ rec' = Taken(r) /\ play' = Taken(t)
          /\ did' = [rec |-> r.command, play |-> t.command]
      BY <2>1 DEF Frame, Taken
    <3>. HIDE DEF r, t
    <3>. QED BY <3>2, <3>3 DEF Outcome, IInv, SameCommands
  <2>2. CASE FullTake
    BY <2>2 DEF FullTake, IInv, SameCommands
  <2>3. CASE Again
    BY <2>3, FreshSettled DEF Again, IInv, SameCommands
  <2>4. CASE UNCHANGED vars
    BY <2>4 DEF vars, IInv, SameCommands
  <2>. QED BY <2>1, <2>2, <2>3, <2>4 DEF Next
<1>. QED BY <1>1, <1>2, PTL DEF Spec

\* The menu of a replay is in step with the menu of the run it replays.
THEOREM MenusInStep == Spec => []InStep
<1>1. IInv => InStep
  BY DEF IInv, InStep, Settled, Alike, Shape
<1>. QED BY <1>1, Inductive, PTL

\* A replay asks for what the recorded run asked for, stops excepted.
THEOREM CommandsAgree == Spec => []SameCommands
<1>1. IInv => SameCommands
  BY DEF IInv, SameCommands
<1>. QED BY <1>1, Inductive, PTL
-----------------------------------------------------------------------------
(* PauseMenu.                                                              *)

Asked == {"none", "reset", "breadcrumb", "quit"}

\* The buttons of both are the same, and the menu is open in both or in none.
SameButtons(q, r) ==
    r.paused = q.paused /\ r.count = q.count /\ r.pend = q.pend /\ r.free = q.free

LEMMA PollButtons ==
    ASSUME NEW q \in Shape
    PROVE  /\ Poll(q) \in Shape /\ Poll(q).paused = q.paused /\ Poll(q).asked = q.asked
           /\ Poll(q).pend = {} /\ Poll(q).free = q.free \cup (Buttons \ q.pend)
           /\ \A b \in q.pend \ q.free : Poll(q).count[b] = 0
<1>1. Poll(q).pend = {} /\ Poll(q).free = q.free \cup (Buttons \ q.pend)
  BY DEF Poll, Shape
<1>2. Poll(q).count = [b \in Buttons |->
        IF b \notin q.pend \cap (q.free \cup (Buttons \ q.pend)) THEN 0
        ELSE IF q.count[b] = 0 THEN 1 ELSE 2]
  BY DEF Poll, Shape
<1>3. q.pend \subseteq Buttons
  BY DEF Shape
<1> QED
  BY <1>1, <1>2, <1>3, PollShape

LEMMA ToMainButtons ==
    ASSUME NEW q \in Shape
    PROVE  ToMain(q) \in Shape /\ ToMain(q).asked = "none" /\ SameButtons(q, ToMain(q))
<1>1. SameButtons(q, ToMain(q))
  BY DEF SameButtons, ToMain, Shape
<1> QED
  BY <1>1, ToMainShape

\* No callback touches the buttons.
LEMMA CallbackButtons ==
    ASSUME NEW q \in Shape, q.asked \in Asked, NEW row
    PROVE  /\ Callback(q, row) \in Shape /\ Callback(q, row).asked \in Asked
           /\ SameButtons(q, Callback(q, row))
<1> DEFINE r == Callback(q, row)
           t == ToMain(q)
<1>0. t \in Shape /\ t.asked = "none" /\ SameButtons(q, t)
  BY ToMainButtons
<1>1. CASE row \in {"options", "recording"}
  <2>1. r = [q EXCEPT !.sub = row]
    BY <1>1 DEF Callback
  <2> QED
    BY <1>1, <2>1 DEF SameButtons, Shape, Subs
<1>2. CASE row = "back"
  BY <1>0, <1>2 DEF Callback, Asked
<1>3. CASE row = "stop"
  <2>1. r = [t EXCEPT !.command = "stop"]
    BY <1>3 DEF Callback
  <2> HIDE DEF t, r
  <2>2. r \in Shape /\ r.asked \in Asked /\ SameButtons(q, r)
    BY <1>0, <2>1 DEF SameButtons, Shape, Commands, Asked
  <2> QED
    BY <2>2 DEF r
<1>4. CASE row = "yes"
  <2>1. r = [t EXCEPT !.command = q.asked]
    BY <1>4 DEF Callback
  <2> HIDE DEF t, r
  <2>2. r \in Shape /\ r.asked \in Asked /\ SameButtons(q, r)
    BY <1>0, <2>1 DEF SameButtons, Shape, Commands, Asked
  <2> QED
    BY <2>2 DEF r
<1>5. CASE row \in {"item", "record", "play", "reset", "breadcrumb", "quit"}
  <2>1. r = [q EXCEPT !.command = row]
    BY <1>5 DEF Callback
  <2> QED
    BY <1>5, <2>1 DEF SameButtons, Shape, Commands
<1>6. CASE row \notin {"options", "recording", "back", "stop", "yes", "item", "record", "play",
                       "reset", "breadcrumb", "quit"}
  BY <1>6 DEF Callback, SameButtons
<1> QED
  BY <1>1, <1>2, <1>3, <1>4, <1>5, <1>6

LEMMA LeaveButtons ==
    ASSUME NEW q \in Shape
    PROVE  /\ Leave(q) \in Shape /\ Leave(q).asked = q.asked /\ ~Leave(q).paused
           /\ Leave(q).free = {} /\ Leave(q).count = q.count /\ Leave(q).pend = q.pend
<1>1. Leave(q).free = {} /\ Leave(q).count = q.count /\ Leave(q).pend = q.pend
  BY DEF Leave, Mask, Shape
<1> QED
  BY <1>1, LeaveShape

\* Every menu has rows, in every mode.
LEMMA HasRows ==
    ASSUME NEW sub \in Subs, NEW md \in 0 .. 2
    PROVE  Len(RowsOf(sub, md)) \in Nat \ {0}
<1>1. CASE sub = "main"
  BY <1>1, MenuConstants DEF RowsOf, MainRows
<1>2. CASE sub = "options"
  BY <1>2 DEF RowsOf
<1>3. CASE sub = "recording"
  <2>1. RowsOf(sub, md) \in {<<"slot", "record", "play", "back">>, <<"stop", "back">>, <<"back">>}
    BY <1>3 DEF RowsOf, RecordingRows
  <2> QED
    BY <2>1
<1>4. CASE sub = "prompt"
  BY <1>4 DEF RowsOf
<1> QED
  BY <1>1, <1>2, <1>3, <1>4 DEF Subs

\* After a frame: the buttons of n, unless the menu was opened or closed and all are
\* masked.
After(n, r) ==
    /\ r \in Shape /\ r.asked \in Asked
    /\ r.count = n.count /\ r.pend = n.pend
    /\ r.free = n.free \/ r.free = {}
    /\ r.paused # n.paused => r.free = {}

\* A frame of the open menu reads the buttons once, and then only masks them.
LEMMA MenuButtons ==
    ASSUME NEW q \in Shape, q.asked \in Asked, NEW md \in 0 .. 2, NEW i \in Inputs
    PROVE  After(Poll(q), MenuTick(q, md, i))
<1> DEFINE n == Poll(q)
           rows == RowsOf(n.sub, md)
           at == Moved(n, i, rows)
           row == rows[at + 1]
           act == Btn(n, "o") \/ Btn(n, "start")
           fired == act /\ ~n.act
           moved == SetCursor(n, at)
           now == [moved EXCEPT !.act = act]
           call == Callback(now, row)
<1>1. n \in Shape /\ n.asked \in Asked
  BY PollButtons
<1>2. at \in Int
  <2>1. n.sub \in Subs
    BY <1>1 DEF Shape
  <2>2. Len(rows) \in Nat \ {0}
    BY <2>1, HasRows
  <2> HIDE DEF n, rows
  <2>3. at \in 0 .. Len(rows) - 1
    BY <1>1, <2>2, MovedRange
  <2> HIDE DEF at
  <2> QED
    BY <2>2, <2>3
<1>3. act \in BOOLEAN
  BY DEF Btn
<1>4. MenuTick(q, md, i) =
        IF Btnp(n, "x", i) THEN Back(now, row, fired)
        ELSE IF ~fired THEN now
        ELSE IF Asks(row, md) THEN [now EXCEPT !.sub = "prompt", !.asked = row]
        ELSE IF StaysOpen(n.sub, row, i) THEN call ELSE Leave(call)
  BY DEF MenuTick
<1> HIDE DEF n, rows, at, row, act, fired
<1>5. moved \in Shape /\ moved.asked = n.asked /\ SameButtons(n, moved)
  BY <1>1, <1>2 DEF SetCursor, SameButtons, Shape
<1> HIDE DEF moved
<1>6. now \in Shape /\ now.asked \in Asked /\ SameButtons(n, now)
  BY <1>1, <1>3, <1>5 DEF SameButtons, Shape
<1> HIDE DEF now
<1>7. call \in Shape /\ call.asked \in Asked /\ SameButtons(n, call)
  BY <1>6, CallbackButtons DEF SameButtons
<1> HIDE DEF call
<1>8. After(n, now) /\ After(n, call) /\ After(n, Leave(call))
  BY <1>6, <1>7, LeaveButtons DEF After, SameButtons
<1>9. After(n, Back(now, row, fired))
  <2> DEFINE out == ToMain(now)
  <2>1. out \in Shape /\ out.asked \in Asked /\ SameButtons(n, out)
    BY <1>6, ToMainButtons DEF SameButtons, Asked
  <2>2. Back(now, row, fired) \in {Leave(now), out, Callback(out, row)}
    BY DEF Back
  <2> HIDE DEF out
  <2>3. After(n, Leave(now))
    BY <1>6, LeaveButtons DEF After, SameButtons
  <2>4. After(n, Callback(out, row))
    BY <2>1, CallbackButtons DEF After, SameButtons
  <2> QED
    BY <2>1, <2>2, <2>3, <2>4 DEF After, SameButtons
<1>10. ASSUME Asks(row, md) PROVE After(n, [now EXCEPT !.sub = "prompt", !.asked = row])
  <2>1. row \in {"reset", "breadcrumb", "quit"}
    BY <1>10 DEF Asks
  <2> DEFINE p == [now EXCEPT !.sub = "prompt", !.asked = row]
  <2>2. p \in Shape /\ p.asked = row
    BY <1>6, <2>1, PromptShape
  <2>3. SameButtons(now, p)
    BY <1>6 DEF SameButtons, Shape
  <2> HIDE DEF p
  <2>4. After(n, p)
    BY <1>6, <2>1, <2>2, <2>3 DEF After, SameButtons, Asked
  <2> QED
    BY <2>4 DEF p
<1> QED
  BY <1>4, <1>8, <1>9, <1>10 DEF n

\* A frame of the cart reads them at most once.
LEMMA GameButtons ==
    ASSUME NEW q \in Shape, q.asked \in Asked, ~q.paused, NEW i \in Inputs
    PROVE  After(IF i.polls THEN Poll(q) ELSE q, GameTick(q, i))
<1> DEFINE polled == IF i.polls THEN Poll(q) ELSE q
           n == [polled EXCEPT !.start = Btn(polled, "start")]
<1>1. polled \in Shape /\ polled.asked \in Asked /\ ~polled.paused
  BY PollButtons DEF Shape
<1>2. Btn(polled, "start") \in BOOLEAN
  BY DEF Btn
<1>3. GameTick(q, i) = IF ~n.start \/ q.start THEN n ELSE IF i.suppress THEN Mask(n) ELSE Enter(n)
  BY DEF GameTick
<1> HIDE DEF polled
<1>4. n \in Shape /\ n.asked \in Asked /\ SameButtons(polled, n)
  BY <1>1, <1>2 DEF SameButtons, Shape
<1> HIDE DEF n
<1>5. After(polled, n)
  BY <1>4 DEF After, SameButtons
<1>6. After(polled, Mask(n))
  <2>1. Mask(n) \in Shape /\ Mask(n).asked = n.asked /\ Mask(n).free = {}
        /\ Mask(n).count = n.count /\ Mask(n).pend = n.pend /\ Mask(n).paused = n.paused
    BY <1>4 DEF Mask, Shape
  <2> QED
    BY <1>4, <2>1 DEF After, SameButtons
<1>7. After(polled, Enter(n))
  <2>1. Enter(n).free = {} /\ Enter(n).count = n.count /\ Enter(n).pend = n.pend
    BY <1>4 DEF Enter, Mask, Shape
  <2> QED
    BY <1>4, <2>1, EnterShape DEF After, SameButtons
<1> QED
  BY <1>3, <1>5, <1>6, <1>7 DEF polled

\* A button that is down ever since the menu opened or closed is still masked.
Echoing ==
    /\ m \in Shape /\ m.asked \in Asked
    /\ mode \in 0 .. 2
    /\ echo \subseteq Buttons
    /\ echo \cap m.free = {}

\* What one frame does to the buttons that are still down.
LEMMA FrameEcho ==
    ASSUME Echoing, NEW i \in Inputs, NEW C, MenuRuns(i, C)
    PROVE  /\ m' \in Shape /\ m'.asked \in Asked /\ echo' \subseteq Buttons
           /\ echo' \cap m'.free = {}
           /\ m.paused = m'.paused /\ m'.pend = {} => \A b \in echo' : ~Btn(m', b)
<1> DEFINE fed == [m EXCEPT !.pend = @ \cup i.held]
           after == Tick(m, mode, i)
           read == IF fed.paused \/ i.polls THEN Poll(fed) ELSE fed
<1>1. i.held \subseteq Buttons
  BY MenuConstants DEF Inputs
<1>2. /\ fed \in Shape /\ fed.asked \in Asked /\ fed.paused = m.paused /\ fed.free = m.free
      /\ i.held \subseteq fed.pend
  BY <1>1 DEF Echoing, Shape
<1>3. after = IF fed.paused THEN MenuTick(fed, mode, i) ELSE GameTick(fed, i)
  BY DEF Tick
<1>4. /\ m' = [after EXCEPT !.command = "none"]
      /\ echo' = IF m.paused # m'.paused THEN i.held ELSE echo \cap i.held
  BY DEF MenuRuns, Echoes
<1> HIDE DEF fed, after
<1>5. After(read, after)
  BY <1>2, <1>3, MenuButtons, GameButtons DEF Echoing
<1>6. m' \in Shape /\ m'.asked \in Asked /\ SameButtons(after, m')
  BY <1>4, <1>5 DEF After, SameButtons, Shape, Commands
<1>7. read.paused = m.paused /\ read.free \subseteq m.free \cup (Buttons \ i.held)
  BY <1>2, PollButtons
<1>8. echo' \subseteq Buttons /\ echo' \subseteq i.held
  BY <1>1, <1>4 DEF Echoing
<1>9. echo' \cap m'.free = {}
  <2>1. CASE m.paused # m'.paused
    BY <1>5, <1>6, <1>7, <2>1 DEF After, SameButtons
  <2>2. CASE m.paused = m'.paused
    BY <1>4, <1>5, <1>6, <1>7, <2>2 DEF After, SameButtons, Echoing
  <2> QED
    BY <2>1, <2>2
<1>10. ASSUME m.paused = m'.paused, m'.pend = {}, NEW b \in echo' PROVE ~Btn(m', b)
  <2>1. b \in fed.pend \ fed.free
    BY <1>2, <1>4, <1>8, <1>10 DEF Echoing
  <2>2. m'.count = read.count /\ m'.pend = read.pend
    BY <1>5, <1>6 DEF After, SameButtons
  <2>3. CASE read = Poll(fed)
    BY <1>2, <2>1, <2>2, <2>3, PollButtons DEF Btn
  <2>4. CASE read = fed
    BY <1>10, <2>1, <2>2, <2>4
  <2> QED
    BY <2>3, <2>4
<1> QED
  BY <1>6, <1>8, <1>9, <1>10

\* The press that opens or closes the menu is no press on the other side of it
\* (__z8_enter_pause and the mask of buttons[2]), whatever the cart polls and in
\* every mode.
THEOREM NoPressEchoes == PauseSpec => NoEcho
<1> DEFINE Heeded == m.paused = m'.paused /\ m'.pend = {} => \A b \in echo' : ~Btn(m', b)
<1>0. Fresh \in Shape /\ Fresh.asked \in Asked /\ Fresh.free = {}
  BY FreshSettled DEF Settled, Fresh, Asked
<1>1. PauseInit => Echoing
  BY <1>0 DEF PauseInit, Echoing
<1>2. ASSUME Echoing, [PauseNext]_pauseVars PROVE Echoing' /\ [Heeded]_m
  <2>1. ASSUME NEW i \in Inputs, PlainFrame(i) PROVE Echoing' /\ Heeded
    BY <1>2, <2>1, FrameEcho DEF PlainFrame, Echoing
  <2>2. ASSUME NEW i \in Inputs, StopFrame(i) PROVE Echoing' /\ Heeded
    <3>1. mode' \in 0 .. 2
      BY <1>2, <2>2 DEF StopFrame, Echoing
    <3> QED
      BY <1>2, <2>2, <3>1, FrameEcho DEF StopFrame, Echoing
  <2>3. ASSUME NEW i \in Inputs, LastFrame(i) PROVE Echoing' /\ Heeded
    BY <1>0, <2>3 DEF LastFrame, Echoing
  <2>4. CASE SessionEnds
    BY <1>2, <2>4 DEF SessionEnds, Echoing
  <2>5. CASE UNCHANGED pauseVars
    BY <1>2, <2>5 DEF pauseVars, Echoing
  <2> QED
    BY <1>2, <2>1, <2>2, <2>3, <2>4, <2>5 DEF PauseNext
<1> QED
  BY <1>1, <1>2, PTL DEF PauseSpec, NoEcho
=============================================================================
