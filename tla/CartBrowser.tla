----------------------------- MODULE CartBrowser -----------------------------
(***************************************************************************)
(* The list of carts the engine shows when none is mounted.                *)
(*                                                                         *)
(* A folder is read when it is entered or gone back to, and only then: a   *)
(* card may have changed since.  The cursor walks round the list, which    *)
(* scrolls under it in a window of VISIBLE_ITEMS rows; a direction that is *)
(* held repeats, and when is left open here.  With a gamepad the keyboard  *)
(* is not read; two axes stand for each direction, the stick and the hat.  *)
(***************************************************************************)
EXTENDS Integers, Sequences, FiniteSets

CONSTANTS
    Visible,   \* VISIBLE_ITEMS
    Root,      \* carts_dir
    Items,     \* what a folder may hold: [name, folder, cart]
    Contents,  \* Contents[d]: what may be found in d, a set of sets of items
    NoChoice,  \* run_cart_browser has not returned
    Left,      \* it returned ""
    MaxDepth

Folders == {i \in Items : i.folder}

ASSUME BrowserConstants ==
    /\ Visible \in Nat \ {0}
    /\ Items \subseteq [name : Nat, folder : BOOLEAN, cart : BOOLEAN]
    /\ {Root, NoChoice, Left} \cap Items = {} /\ NoChoice # Left
    /\ \A d \in Folders \cup {Root} : \A c \in Contents[d] : IsFiniteSet(c) /\ c \subseteq Items
    /\ MaxDepth \in Nat

VARIABLES
    stack,    \* dir_stack
    entries,  \* entries
    cursor, scroll,
    held,     \* held_dir_y
    pad,      \* joy_fd >= 0
    axes,     \* prev_axis_y1, _y7, _x0, _x6
    keys,     \* the arrow keys that are held
    result    \* what run_cart_browser returned: NoChoice, Left or a cart

browser == <<stack, entries, cursor, scroll, held, pad, axes, keys, result>>
input == <<held, pad, axes, keys>>

Axes == {"y1", "y7", "x0", "x6"}
Arrows == {"up", "down", "left", "right"}
Turns == {-1, 0, 1}

-----------------------------------------------------------------------------
(* The list.                                                               *)

\* entry_sort: folders first, then by name.
Before(a, b) == IF a.folder # b.folder THEN a.folder ELSE a.name < b.name

\* scan_directory: the folders and the carts, in an order entry_sort allows.
Sorted(shown) ==
    {s \in [1 .. Cardinality(shown) -> shown] :
        \A j, k \in DOMAIN s : j < k => s[j] # s[k] /\ ~Before(s[k], s[j])}

Listings ==
    [d \in Folders \cup {Root} |-> UNION {Sorted({i \in c : i.folder \/ i.cart}) : c \in Contents[d]}]

BrowserInit ==
    /\ stack = <<Root>> /\ entries \in Listings[Root]
    /\ cursor = 0 /\ scroll = 0
    /\ held = 0 /\ pad \in BOOLEAN /\ axes = [a \in Axes |-> 0] /\ keys = {} /\ result = NoChoice

\* Mutant: the window stays where it was in the folder before.
OpenUnscrolled(d) == entries' \in Listings[d] /\ cursor' = 0 /\ UNCHANGED scroll

Open(d) == entries' \in Listings[d] /\ cursor' = 0 /\ scroll' = 0

\* go_back
GoBack ==
    /\ IF Len(stack) > 1
       THEN /\ stack' = SubSeq(stack, 1, Len(stack) - 1)
            /\ Open(stack'[Len(stack')])
       ELSE UNCHANGED <<stack, entries, cursor, scroll>>
    /\ UNCHANGED result

\* enter_folder
EnterFolder ==
    IF entries = << >> THEN UNCHANGED <<stack, entries, cursor, scroll, result>>
    ELSE LET item == entries[cursor + 1]
         IN  IF item.folder
             THEN /\ Len(stack) < MaxDepth
                  /\ stack' = Append(stack, item)
                  /\ Open(item)
                  /\ UNCHANGED result
             ELSE result' = item /\ UNCHANGED <<stack, entries, cursor, scroll>>

Wrapped(c) ==
    IF c < 0 THEN Len(entries) - 1 ELSE IF c >= Len(entries) THEN 0 ELSE c

\* The window that shows row c.
Window(c) ==
    IF c < scroll THEN c ELSE IF c >= scroll + Visible THEN c - Visible + 1 ELSE scroll

\* move_cursor
MoveCursor(dir) ==
    /\ cursor' = IF entries = << >> THEN 0 ELSE Wrapped(cursor + dir)
    /\ scroll' = Window(cursor')
    /\ UNCHANGED <<stack, entries, result>>

Stay == UNCHANGED <<stack, entries, cursor, scroll, result>>
Quit == result' = Left /\ UNCHANGED <<stack, entries, cursor, scroll>>
-----------------------------------------------------------------------------
(* The keyboard, without a gamepad.                                        *)

Turn(arrow) == IF arrow = "up" THEN -1 ELSE 1

\* An arrow that is held already is a repetition of the system's.
ArrowDown(arrow) ==
    /\ ~pad
    /\ keys' = keys \cup {arrow}
    /\ UNCHANGED <<axes, pad>>
    /\ \/ arrow \in keys /\ Stay /\ UNCHANGED held
       \/ arrow \notin keys /\ arrow \in {"up", "down"} /\ MoveCursor(Turn(arrow)) /\ held' = Turn(arrow)
       \/ arrow \notin keys /\ arrow = "right" /\ EnterFolder /\ UNCHANGED held
       \/ arrow \notin keys /\ arrow = "left" /\ GoBack /\ UNCHANGED held

ArrowUp(arrow) ==
    /\ ~pad /\ arrow \in keys
    /\ keys' = keys \ {arrow}
    /\ held' = IF arrow \in {"up", "down"} /\ keys' \cap {"up", "down"} = {} THEN 0 ELSE held
    /\ UNCHANGED <<axes, pad>> /\ Stay

OtherKey == ~pad /\ (EnterFolder \/ GoBack \/ Quit) /\ UNCHANGED input
-----------------------------------------------------------------------------
(* The gamepad.                                                            *)

Button == pad /\ (EnterFolder \/ GoBack \/ Quit) /\ UNCHANGED input

Combined(first, second) == IF first # 0 THEN first ELSE second
Vertical(a) == Combined(a["y1"], a["y7"])
Horizontal(a) == Combined(a["x0"], a["x6"])

\* Mutant: each axis by itself, as if there were no other.
VerticalAxisAlone(a, turn) ==
    /\ pad /\ a \in {"y1", "y7"} /\ turn # axes[a]
    /\ axes' = [axes EXCEPT ![a] = turn]
    /\ held' = turn
    /\ IF turn # 0 THEN MoveCursor(turn) ELSE Stay
    /\ UNCHANGED <<keys, pad>>

VerticalAxis(a, turn) ==
    /\ pad /\ a \in {"y1", "y7"} /\ turn # axes[a]
    /\ axes' = [axes EXCEPT ![a] = turn]
    /\ LET now == Vertical(axes')
       IN  IF now = Vertical(axes) THEN Stay /\ UNCHANGED held
           ELSE /\ held' = now
                /\ IF now # 0 THEN MoveCursor(now) ELSE Stay
    /\ UNCHANGED <<keys, pad>>

HorizontalAxis(a, turn) ==
    /\ pad /\ a \in {"x0", "x6"} /\ turn # axes[a]
    /\ axes' = [axes EXCEPT ![a] = turn]
    /\ LET now == Horizontal(axes')
       IN  IF now = Horizontal(axes) \/ now = 0 THEN Stay
           ELSE IF now = 1 THEN EnterFolder ELSE GoBack
    /\ UNCHANGED <<held, keys, pad>>

Repeat == held # 0 /\ MoveCursor(held) /\ UNCHANGED input

BrowserNext ==
    /\ result = NoChoice
    /\ \/ \E arrow \in Arrows : ArrowDown(arrow) \/ ArrowUp(arrow)
       \/ OtherKey \/ Button
       \/ \E a \in Axes, turn \in Turns : VerticalAxis(a, turn) \/ HorizontalAxis(a, turn)
       \/ Repeat

BrowserSpec == BrowserInit /\ [][BrowserNext]_browser
-----------------------------------------------------------------------------
(* Properties.                                                             *)

\* The row under the cursor exists and is on the screen, and the screen has no
\* empty row below the list while there are rows above it.
CursorShown ==
    /\ cursor \in 0 .. (IF entries = << >> THEN 0 ELSE Len(entries) - 1)
    /\ scroll \in 0 .. cursor /\ cursor < scroll + Visible
    /\ scroll = 0 \/ scroll + Visible <= Len(entries)

\* With a gamepad, what repeats is what the stick and the hat say together: letting
\* go of one does not leave the list running, nor stop it under the other.
RepeatFollowsPad == pad => held = Vertical(axes)
=============================================================================
