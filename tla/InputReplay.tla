---------------------------- MODULE InputReplay ----------------------------
(***************************************************************************)
(* What a replay feeds the cart.                                           *)
(*                                                                         *)
(* Once per frame the game loop collects the buttons, the mouse and the    *)
(* typed characters.  A recording stores what it hands to the cart; a      *)
(* replay hands over what was stored, until it is used up, a button is     *)
(* pressed, or the run opens a cart file that is not the one recorded.     *)
(* A cart is a function of what it is handed: in a replay it opens the     *)
(* files that the recorded run opened, when it opened them.  How sessions  *)
(* start and where takes go is in Recorder; here is one take.              *)
(***************************************************************************)
EXTENDS Naturals, Sequences

CONSTANTS
    Buttons,    \* what live has bits for
    Pointers,   \* words of the mouse
    Chars,      \* characters that can be typed
    Texts,      \* what may be typed in a frame
    Files,      \* cart files a run may open
    Entry,      \* the one it starts with
    Versions,   \* contents of a cart file
    Unreadable, \* a file that cannot be hashed
    Missing,    \* no such file
    NoPointer,  \* the mouse was not read yet
    NoTake,     \* nothing recorded yet
    MaxFrames,  \* P8REC_MAX_FRAMES
    TextMax,    \* P8REC_TEXT_MAX
    IdentMax,   \* P8REC_IDENT_MAX
    MaxOpens,   \* bound: files a recorded run opens
    SplitOom    \* may memory run out between the pushes of one frame?

\* What the cart is handed in a frame; the motion of the mouse is to at.
Inputs == [held : SUBSET Buttons, from : Pointers, at : Pointers, typed : Seq(Chars)]

\* The cart files as the card holds them, and as a manifest does.
Cards == [Files -> Versions \cup {Unreadable, Missing}]
Manifests == [Files -> Versions \cup {Unreadable}]

\* A file the run opened after so many frames.
Opens == [file : Files, version : Versions \cup {Unreadable}, frame : Nat]

\* An .inp; the last two are histories of the recorded run, not in the file.
Takes == [frames : Seq(SUBSET Buttons), mouse : Seq(Pointers), text : Seq(Seq(Chars)),
          chars : Nat, ident : Manifests, named : Nat,
          saw : Seq(Inputs), opened : Seq(Opens)]

ASSUME InputConstants ==
    /\ Texts \subseteq Seq(Chars)
    /\ Entry \in Files
    /\ Unreadable \notin Versions /\ Missing \notin Versions \cup {Unreadable}
    /\ NoPointer \notin Pointers
    /\ NoTake \notin Takes
    /\ MaxFrames \in Nat \ {0} /\ IdentMax \in Nat \ {0}
    /\ TextMax \in Nat /\ MaxOpens \in Nat \ {0}
    /\ SplitOom \in BOOLEAN

VARIABLES
    mode,      \* g_rec_mode
    frames,    \* g_rec_frames
    mouse,     \* g_rec_mouse
    text,      \* g_rec_text, by frame
    chars,     \* g_rec_text.size()
    ident,     \* g_rec_ident: the content stored for a file, Unreadable if none
    named,     \* g_rec_ident.size()
    identOk,   \* g_rec_ident_ok
    pos,       \* g_rec_pos
    prevLive,  \* prev_live
    prevMouse, \* prev_mx, prev_my, prev_wheel; NoPointer is ~mouse_primed
    card,      \* the cart files
    take,      \* the take on the card
    saw,       \* history: what the recorded run was handed, frame by frame
    opened,    \* history: the files it opened
    fed,       \* history: what the cart was handed last
    reopened,  \* history: how many of the recorded files the replay has opened
    drift,     \* history: was one of them another than the take vouches for?
    resting    \* history: buttons held since the first frame of the replay

streams == <<frames, mouse, text, chars>>
manifest == <<ident, named, identOk>>
run == <<saw, opened>>
rerun == <<reopened, drift, resting>>
vars == <<mode, streams, manifest, pos, prevLive, prevMouse, card, take, run, fed, rerun>>

NoFed == [held |-> {}, from |-> NoPointer, at |-> NoPointer, typed |-> <<>>]
NoNames == [f \in Files |-> Unreadable]

TypeOK ==
    /\ mode \in 0 .. 2
    /\ frames \in Seq(SUBSET Buttons) /\ Len(frames) <= MaxFrames
    /\ mouse \in Seq(Pointers) /\ text \in Seq(Seq(Chars)) /\ chars \in Nat
    /\ ident \in Manifests /\ named \in Nat /\ identOk \in BOOLEAN
    /\ pos \in 0 .. MaxFrames
    /\ prevLive \subseteq Buttons
    /\ prevMouse \in Pointers \cup {NoPointer}
    /\ card \in Cards
    /\ take \in Takes \cup {NoTake}
    /\ saw \in Seq(Inputs) /\ opened \in Seq(Opens)
    /\ fed \in Inputs \cup {NoFed}
    /\ reopened \in Nat /\ drift \in BOOLEAN /\ resting \subseteq Buttons

Init ==
    /\ mode = 0
    /\ frames = <<>> /\ mouse = <<>> /\ text = <<>> /\ chars = 0
    /\ ident = NoNames /\ named = 0 /\ identOk = TRUE
    /\ pos = 0 /\ prevLive = {} /\ prevMouse = NoPointer
    /\ card \in [Files -> Versions]
    /\ take = NoTake
    /\ saw = <<>> /\ opened = <<>> /\ fed = NoFed
    /\ reopened = 0 /\ drift = FALSE /\ resting = Buttons
-----------------------------------------------------------------------------
(* Helpers of the C++ code.                                                *)

\* The VM gets buttons, text and mouse; the first frame of a process moves
\* nothing.
Handed(held, at, typed) ==
    [held |-> held, at |-> at, typed |-> typed,
     from |-> IF prevMouse = NoPointer THEN at ELSE prevMouse]

Feed(held, at, typed) ==
    /\ fed' = Handed(held, at, typed)
    /\ prevMouse' = at

\* p8rec_reset.  Sessions start in fresh processes, so what the process
\* remembers is forgotten here as well, with the histories.
EndSession ==
    /\ mode' = 0
    /\ frames' = <<>> /\ mouse' = <<>> /\ text' = <<>> /\ chars' = 0
    /\ ident' = NoNames /\ named' = 0 /\ identOk' = TRUE
    /\ pos' = 0 /\ prevLive' = {} /\ prevMouse' = NoPointer
    /\ saw' = <<>> /\ opened' = <<>> /\ fed' = NoFed
    /\ reopened' = 0 /\ drift' = FALSE /\ resting' = Buttons

\* Mutant: no limit.
StoredUnlimited(typed) == typed

\* Typed characters beyond the limit are not stored.
Stored(typed) ==
    IF chars + Len(typed) <= TextMax THEN typed ELSE SubSeq(typed, 1, TextMax - chars)

\* p8rec_note_cart_file in a recording: a file is vouched for once, unless it
\* cannot be hashed or the manifest is full.
Names(f) ==
    IF card[f] # Unreadable /\ ident[f] = Unreadable /\ named < IdentMax
    THEN ident' = [ident EXCEPT ![f] = card[f]] /\ named' = named + 1
    ELSE UNCHANGED <<ident, named>>

\* Mutant: the last file decides.
ChecksLast(f) == identOk' = (ident[f] \in {card[f], Unreadable})

\* p8rec_note_cart_file in a replay.
Checks(f) == identOk' = (identOk /\ ident[f] \in {card[f], Unreadable})

\* p8rec_write, where every write works.
Written ==
    take' = [frames |-> frames, mouse |-> mouse, text |-> text, chars |-> chars,
             ident |-> ident, named |-> named, saw |-> saw, opened |-> opened]

\* What p8rec_load asks of the sizes in a file.
Sound(t) ==
    /\ Len(t.frames) \in 1 .. MaxFrames
    /\ Len(t.mouse) <= Len(t.frames)
    /\ t.chars <= TextMax
    /\ t.named <= IdentMax
-----------------------------------------------------------------------------
(* Recording.                                                              *)

RecordOpens(f) ==
    /\ card[f] # Missing
    /\ opened' = Append(opened, [file |-> f, version |-> card[f], frame |-> Len(saw)])
    /\ Names(f)

\* A fresh process armed a recording and loads the cart.  The entry cart can be
\* hashed.  Bound: until a take was written.
StartRecording ==
    /\ mode = 0 /\ take = NoTake
    /\ mode' = 1
    /\ card[Entry] \in Versions
    /\ ident' = [NoNames EXCEPT ![Entry] = card[Entry]] /\ named' = 1
    /\ saw' = <<>>
    /\ opened' = <<[file |-> Entry, version |-> card[Entry], frame |-> 0]>>
    /\ UNCHANGED <<streams, identOk, pos, prevLive, prevMouse, card, take, fed, rerun>>

\* load(), reload(): part of a frame, and of the next one's past.
OpenSibling(f) ==
    /\ mode = 1
    /\ Len(opened) < MaxOpens
    /\ RecordOpens(f)
    /\ UNCHANGED <<mode, streams, identOk, pos, prevLive, prevMouse, card, take, saw, fed,
                   rerun>>

RecordFrame(held, at, typed) ==
    /\ mode = 1 /\ Len(frames) < MaxFrames
    /\ frames' = Append(frames, held)
    /\ mouse' = Append(mouse, at)
    /\ text' = Append(text, Stored(typed))
    /\ chars' = chars + Len(Stored(typed))
    /\ Feed(held, at, typed)
    /\ saw' = Append(saw, fed')
    /\ UNCHANGED <<mode, manifest, pos, prevLive, card, take, opened, rerun>>

\* push_back throws, at the buttons or after them: what there is gets written,
\* or is lost.
RecordFrameOom(held, at, typed, pushed) ==
    /\ mode = 1 /\ Len(frames) < MaxFrames
    /\ pushed => SplitOom
    /\ LET all == IF pushed THEN Append(frames, held) ELSE frames
       IN  \/ UNCHANGED take
           \/ /\ all # <<>>
              /\ take' = [frames |-> all, mouse |-> mouse, text |-> text, chars |-> chars,
                          ident |-> ident, named |-> named, opened |-> opened,
                          saw |-> IF pushed THEN Append(saw, Handed(held, at, typed))
                                  ELSE saw]
    /\ EndSession
    /\ UNCHANGED card

\* At the cap a frame is not recorded, and the take written if it can be.
RecordFrameAtCap(held, at, typed) ==
    /\ mode = 1 /\ Len(frames) = MaxFrames
    /\ \/ Written /\ EndSession
       \/ /\ Feed(held, at, typed)
          /\ UNCHANGED <<mode, streams, manifest, pos, prevLive, take, run, rerun>>
    /\ UNCHANGED card

\* Stop Recording.
StopRecording ==
    /\ mode = 1
    /\ IF frames = <<>> THEN UNCHANGED take ELSE Written
    /\ EndSession
    /\ UNCHANGED card
-----------------------------------------------------------------------------
(* Replay.                                                                 *)

\* A fresh process loads the take, if the sizes are sound and the cart is its own.
StartReplay ==
    /\ mode = 0 /\ take # NoTake
    /\ Sound(take) /\ card[Entry] = take.ident[Entry]
    /\ mode' = 2
    /\ frames' = take.frames /\ mouse' = take.mouse
    /\ text' = take.text /\ chars' = take.chars
    /\ ident' = take.ident /\ named' = take.named
    /\ UNCHANGED <<identOk, pos, prevLive, prevMouse, card, take, run, fed, rerun>>

\* Has the run a file to open before its next frame?
OpensNext ==
    reopened < Len(take.opened) /\ take.opened[reopened + 1].frame <= pos

\* A file that is missing fails to load, and nobody is told.
ReplayOpens ==
    /\ mode = 2 /\ OpensNext
    /\ LET o == take.opened[reopened + 1]
       IN  IF card[o.file] = Missing THEN UNCHANGED <<identOk, drift>>
           ELSE /\ Checks(o.file)
                /\ drift' = (drift \/ (/\ take.ident[o.file] # Unreadable
                                         /\ card[o.file] # o.version))
    /\ reopened' = reopened + 1
    /\ UNCHANGED <<mode, streams, ident, named, pos, prevLive, prevMouse, card, take, run,
                   fed, resting>>

Playing == mode = 2 /\ ~OpensNext

\* Mutant: the first frame is compared with no buttons.
BaselineNone(live) == prevLive

\* prev_live, which starts with what is held in the first frame.
Baseline(live) == IF pos = 0 THEN live ELSE prevLive

\* A button that was up is down: this frame is the human's already.
TakeOver(live) ==
    /\ Playing /\ identOk /\ pos < Len(frames)
    /\ live \ Baseline(live) # {}
    /\ EndSession
    /\ UNCHANGED <<card, take>>

\* Mutant: the buttons of the human are added.
PlayFrameMixed(live, at) ==
    /\ Playing /\ identOk /\ pos < Len(frames)
    /\ live \ Baseline(live) = {}
    /\ prevLive' = live
    /\ Feed(frames[pos + 1] \cup live, mouse[pos + 1], text[pos + 1])
    /\ pos' = pos + 1
    /\ resting' = resting \cap live
    /\ UNCHANGED <<mode, streams, manifest, card, take, run, reopened, drift>>

\* The frame comes from the take; a take with no word for the mouse leaves it live.
PlayFrame(live, at) ==
    /\ Playing /\ identOk /\ pos < Len(frames)
    /\ live \ Baseline(live) = {}
    /\ prevLive' = live
    /\ Feed(frames[pos + 1],
            IF pos < Len(mouse) THEN mouse[pos + 1] ELSE at,
            IF pos < Len(text) THEN text[pos + 1] ELSE <<>>)
    /\ pos' = pos + 1
    /\ resting' = resting \cap live
    /\ UNCHANGED <<mode, streams, manifest, card, take, run, reopened, drift>>

\* The take is used up, or a cart file was another one.
ReplayEnds ==
    /\ Playing /\ (identOk => pos = Len(frames))
    /\ EndSession
    /\ UNCHANGED <<card, take>>
-----------------------------------------------------------------------------
\* A save state, a hot-swap, a quit, a crash.
SessionEnds ==
    /\ mode # 0
    /\ EndSession
    /\ UNCHANGED <<card, take>>

\* The user replaces or removes a cart file.  Bound: not while recording.
CardChanges(f, content) ==
    /\ mode # 1
    /\ card' = [card EXCEPT ![f] = content]
    /\ UNCHANGED <<mode, streams, manifest, pos, prevLive, prevMouse, take, run, fed, rerun>>

Next ==
    \/ StartRecording \/ StopRecording
    \/ StartReplay \/ ReplayOpens \/ ReplayEnds
    \/ SessionEnds
    \/ \E f \in Files : OpenSibling(f)
    \/ \E f \in Files, c \in Versions \cup {Unreadable, Missing} : CardChanges(f, c)
    \/ \E held \in SUBSET Buttons, at \in Pointers, typed \in Texts :
          \/ RecordFrame(held, at, typed)
          \/ \E pushed \in BOOLEAN : RecordFrameOom(held, at, typed, pushed)
          \/ RecordFrameAtCap(held, at, typed)
    \/ \E live \in SUBSET Buttons : TakeOver(live) \/ \E at \in Pointers : PlayFrame(live, at)

Spec == Init /\ [][Next]_vars
-----------------------------------------------------------------------------
(* Properties.                                                             *)

\* In every frame of a replay the cart is handed what the recorded run was
\* handed in that frame, the motion of the mouse and, as far as there was room
\* for it, the typed text included, whatever the human does meanwhile.
SameInputs ==
    mode = 2 /\ pos > 0 =>
        /\ [fed EXCEPT !.typed = <<>>] = [take.saw[pos] EXCEPT !.typed = <<>>]
        /\ (take.chars < TextMax => fed.typed = take.saw[pos].typed)

\* What a recording writes, a replay can read: no limit is laxer for the writer.
TakeIsSound == take # NoTake => Sound(take)

\* No frame is handed to a run that has opened a file the take vouches for and
\* found another content.
NoFrameAfterDrift == [][mode = 2 /\ pos' = pos + 1 => ~drift]_vars

\* Buttons that were held all along do not end a replay, also not in its first
\* frame.
RestingHandsLetItPlay ==
    [][\A live \in SUBSET Buttons : TakeOver(live) => ~(live \subseteq resting)]_vars
=============================================================================
