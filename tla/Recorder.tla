------------------------------ MODULE Recorder ------------------------------
(***************************************************************************)
(* Life of a recorder session across processes.                            *)
(*                                                                         *)
(* Record, Play, Load Replay and a Reset while recording do not arm        *)
(* anything in the process the user is looking at: they leave marker files *)
(* in /tmp and _exit(0).  Master_Daemon respawns _handler.sh, which sorts  *)
(* out the markers and execs a fresh binary, which re-mounts the cart from *)
(* PICO-8.s0 and arms itself from what it finds.  This module is that      *)
(* hand-over, the in-process ends of a session, and the eight slots of     *)
(* takes that sessions write and read.  Save data is in SaveIsolation, the *)
(* slot display in ReplaySlot; of an input stream only its length is here. *)
(***************************************************************************)
EXTENDS Naturals, Sequences

CONSTANTS
    Carts,           \* cart files on the card; equal names hash equal
    NoCart,          \* an empty cart_path, an absent .s0
    NSlots,          \* P8REC_SLOTS
    MaxFrames,       \* P8REC_MAX_FRAMES
    NoTake,          \* no .inp at that path
    NoFile,          \* no path
    Shared,          \* path of an .inp somebody sent, outside the slots
    SharedCart,      \* the cart that take was recorded on
    Unwritable,      \* the markers whose write may fail
    SwitchInRespawn  \* may the user leave the core while it is respawning?

Slots == 1 .. NSlots
SlotPaths == Carts \X Slots
Paths == SlotPaths \cup {Shared}
Markers == {"recslot", "recmode", "playfile", "warn", "reset"}
Takes == [cart : Carts, frames : 1 .. MaxFrames]
NoAsk == [kind |-> "none"]

ASSUME RecorderConstants ==
    /\ NSlots \in Nat \ {0}
    /\ MaxFrames \in Nat \ {0}
    /\ NoCart \notin Carts
    /\ NoTake \notin Takes
    /\ NoFile \notin Paths
    /\ Shared \notin SlotPaths
    /\ SharedCart \in Carts
    /\ Unwritable \subseteq Markers
    /\ SwitchInRespawn \in BOOLEAN

VARIABLES
    pc,         \* where the process is; "down" while there is none
    s0,         \* config/PICO-8.s0, the cart the OSD mounted
    s1,         \* an .s1 pick newer than g_s1_seen
    tmp,        \* the marker files
    takes,      \* the slot library on the card
    cart,       \* cart_path
    recCart,    \* g_cart_path_for_rec: the cart the running VM was started on
    mode,       \* g_rec_mode
    slot,       \* g_rec_slot
    frames,     \* g_rec_frames.size()
    capFailed,  \* g_rec_cap_failed
    playing,    \* g_rec_file while mode = 2
    seedEnv,    \* is Z8_TEST_SEED set
    leaving,    \* m_exit_requested
    notice,     \* the notice last put on screen, by what it says
    todo,       \* marker writes left before _exit(0)
    ask         \* history: the request the next session has to answer

disk == <<s0, s1, takes>>
carts == <<cart, recCart>>
session == <<mode, frames, capFailed, playing, seedEnv, ask>>
screen == <<leaving, notice>>
vars == <<pc, disk, tmp, carts, slot, session, screen, todo>>

Notices == {"none", "restarted", "stopped", "saved", "nothing captured",
            "not saved", "lost", "discarded", "refused"}

NoMarkers == [recslot |-> 0, recmode |-> "none", playfile |-> NoFile,
              warn |-> "none", reset |-> FALSE]

\* What fopen("w") leaves behind when the write after it fails.
Truncated == [NoMarkers EXCEPT !.recmode = "empty", !.reset = TRUE]

MarkerValues ==
    [recslot : 0 .. NSlots, recmode : {"none", "empty", "REC", "PLAY"},
     playfile : Paths \cup {NoFile}, warn : {"none", "restarted", "stopped"},
     reset : BOOLEAN]

Writes == [file : {"recslot"}, value : Slots]
          \cup [file : {"recmode"}, value : {"REC", "PLAY"}]
          \cup [file : {"playfile"}, value : Paths \cup {NoFile}]
          \cup [file : {"warn"}, value : {"restarted", "stopped"}]
          \cup [file : {"reset"}, value : {TRUE}]

Asks == [kind : {"REC", "PLAY"}, cart : Carts, slot : Slots,
         file : Paths \cup {NoFile}]

TypeOK ==
    /\ pc \in {"down", "wait", "start", "game", "arming", "swap", "quit"}
    /\ s0 \in Carts \cup {NoCart}
    /\ s1 \in Paths \cup {NoFile}
    /\ tmp \in MarkerValues
    /\ takes \in [SlotPaths -> Takes \cup {NoTake}]
    /\ cart \in Carts \cup {NoCart}
    /\ recCart \in Carts \cup {NoCart}
    /\ mode \in 0 .. 2
    /\ slot \in 0 .. NSlots
    /\ frames \in 0 .. MaxFrames
    /\ capFailed \in BOOLEAN
    /\ playing \in Paths \cup {NoFile}
    /\ seedEnv \in BOOLEAN
    /\ leaving \in BOOLEAN
    /\ notice \in Notices
    /\ todo \in Seq(Writes)
    /\ ask \in Asks \cup {NoAsk}

-----------------------------------------------------------------------------
(* Helpers of the C++ code.                                                *)

\* p8rec_slot_now: an unset slot reads as slot 1.
SlotNow == IF slot \in Slots THEN slot ELSE 1

TakeAt(path) == IF path = Shared
                THEN [cart |-> SharedCart, frames |-> 1]
                ELSE takes[path]

\* The file opens and its first manifest entry is cart c.
BelongsTo(path, c) ==
    /\ TakeAt(path) # NoTake
    /\ TakeAt(path).cart = c

\* p8rec_probe, asked before anything irreversible is done.
ProbeOk(path) == BelongsTo(path, recCart)

\* Mutant: the load trusts the probe the previous process made.
LoadTrustsProbe(path, c, bodyOk) == TakeAt(path) # NoTake /\ bodyOk

\* p8rec_load asks again and reads on: the body may still be damaged.
LoadOk(path, c, bodyOk) == BelongsTo(path, c) /\ bodyOk

\* Writing a marker; an unlink (the absent value) does not fail.
WriteMarker(w, ok) ==
    IF ok THEN tmp' = [tmp EXCEPT ![w.file] = w.value]
    ELSE /\ w.file \in Unwritable
         /\ w.value # NoMarkers[w.file]
         /\ tmp' \in {tmp, [tmp EXCEPT ![w.file] = Truncated[w.file]]}

\* What the process held in memory is gone with it.
FreshMemory ==
    /\ cart' = NoCart /\ recCart' = NoCart
    /\ mode' = 0 /\ slot' = 0
    /\ frames' = 0 /\ capFailed' = FALSE
    /\ playing' = NoFile /\ seedEnv' = FALSE
    /\ leaving' = FALSE /\ notice' = "none"
    /\ todo' = << >>

\* p8rec_reset: the single teardown of a session.
EndSession ==
    /\ mode' = 0
    /\ frames' = 0
    /\ capFailed' = FALSE
    /\ playing' = NoFile
    /\ seedEnv' = FALSE
    /\ ask' = NoAsk

EndSessionIfAny == IF mode # 0 THEN EndSession ELSE UNCHANGED session

\* Mutant: the take is written over the slot in place, with no .part file.
WriteTakeInPlace(n, ok) ==
    /\ slot' = IF n > 0 THEN SlotNow ELSE slot
    /\ takes' = IF n = 0 THEN takes
                ELSE [takes EXCEPT ![<<recCart, SlotNow>>] =
                         IF ok THEN [cart |-> recCart, frames |-> n] ELSE NoTake]

\* p8rec_write with n frames in the buffer: the take goes to a .part file that
\* is renamed over the slot, so a failed write leaves the old take.
WriteTake(n, ok) ==
    /\ slot' = IF n > 0 THEN SlotNow ELSE slot
    /\ takes' = IF n > 0 /\ ok
                THEN [takes EXCEPT ![<<recCart, SlotNow>>] =
                                      [cart |-> recCart, frames |-> n]]
                ELSE takes

WriteNotice(n, ok) ==
    IF n = 0 THEN "nothing captured" ELSE IF ok THEN "saved" ELSE "not saved"

\* With nothing captured there is nothing to write, and that is no failure.
WriteTakeOk(n, ok) == n = 0 \/ ok
-----------------------------------------------------------------------------
(* Respawn: the handler, the wait loop, the arm block.                     *)

Init ==
    /\ pc = "down"
    /\ s0 = NoCart /\ s1 = NoFile
    /\ tmp = NoMarkers
    /\ takes = [p \in SlotPaths |-> NoTake]
    /\ cart = NoCart /\ recCart = NoCart
    /\ mode = 0 /\ slot = 0
    /\ frames = 0 /\ capFailed = FALSE
    /\ playing = NoFile /\ seedEnv = FALSE
    /\ leaving = FALSE /\ notice = "none"
    /\ todo = << >>
    /\ ask = NoAsk

\* A recmode without a reset marker beside it was not asked for.
StaleRecmode == tmp.recmode # "none" /\ ~tmp.reset

\* Mutant: the handler clears .s0 on every launch, a reset's included.
HandlerClearsS0 ==
    /\ pc = "down"
    /\ tmp' = IF StaleRecmode THEN NoMarkers ELSE [tmp EXCEPT !.reset = FALSE]
    /\ s0' = NoCart
    /\ pc' = "wait"
    /\ UNCHANGED <<s1, takes, carts, slot, session, screen, todo>>

Handler ==
    /\ pc = "down"
    /\ tmp' = [recslot  |-> IF StaleRecmode THEN 0 ELSE tmp.recslot,
               recmode  |-> IF StaleRecmode THEN "none" ELSE tmp.recmode,
               playfile |-> IF StaleRecmode THEN NoFile ELSE tmp.playfile,
               warn     |-> IF tmp.reset THEN tmp.warn ELSE "none",
               reset    |-> FALSE]
    /\ s0' = IF tmp.reset THEN s0 ELSE NoCart
    /\ pc' = "wait"
    /\ UNCHANGED <<s1, takes, carts, slot, session, screen, todo>>

Mount ==
    /\ pc = "wait"
    /\ s0 # NoCart
    /\ cart' = s0
    /\ pc' = "start"
    /\ UNCHANGED <<disk, tmp, recCart, slot, session, screen, todo>>

\* The arm block.  The request is answered for the cart mounted by now;
\* savesOk is whether the save scratch could be prepared.
Arm(m, path) ==
    /\ mode' = m
    /\ frames' = 0
    /\ playing' = path
    /\ seedEnv' = TRUE
    /\ ask' = IF ask = NoAsk THEN NoAsk ELSE [ask EXCEPT !.cart = cart]
    /\ UNCHANGED capFailed

ArmNone ==
    /\ tmp.recmode \notin {"REC", "PLAY"}
    /\ ask' = NoAsk
    /\ UNCHANGED <<mode, frames, capFailed, playing, seedEnv>>

ArmRec ==
    /\ tmp.recmode = "REC"
    /\ \E savesOk \in BOOLEAN : IF savesOk THEN Arm(1, NoFile) ELSE EndSession

PlayPath(slotNow) == IF tmp.playfile # NoFile THEN tmp.playfile
                     ELSE <<cart, slotNow>>

ArmPlay(slotNow) ==
    /\ tmp.recmode = "PLAY"
    /\ \E bodyOk, savesOk \in BOOLEAN :
          IF LoadOk(PlayPath(slotNow), cart, bodyOk) /\ savesOk
          THEN Arm(2, PlayPath(slotNow)) ELSE EndSession

StartCart ==
    LET found == IF tmp.recslot \in Slots THEN tmp.recslot ELSE slot
        slotNow == IF found \in Slots THEN found ELSE 1
        bySlot == tmp.recmode = "PLAY" /\ tmp.playfile = NoFile
    IN  /\ pc = "start"
        /\ ArmNone \/ ArmRec \/ ArmPlay(slotNow)
        /\ slot' = IF bySlot THEN slotNow ELSE found
        /\ tmp' = [tmp EXCEPT !.recslot = 0, !.warn = "none", !.recmode = "none",
                              !.playfile = IF tmp.recmode = "PLAY" THEN NoFile ELSE @]
        /\ notice' = tmp.warn
        /\ recCart' = cart
        /\ s1' = NoFile
        /\ pc' = "game"
        /\ UNCHANGED <<s0, takes, cart, leaving, todo>>
-----------------------------------------------------------------------------
(* Requests that end in _exit(0).                                          *)

Rec       == [file |-> "recmode", value |-> "REC"]
Play      == [file |-> "recmode", value |-> "PLAY"]
Pick(p)   == [file |-> "playfile", value |-> p]
Warn(t)   == [file |-> "warn", value |-> t]
ResetMark == [file |-> "reset", value |-> TRUE]
SlotMark(s) == [file |-> "recslot", value |-> s]

Asking(kind, s, file) ==
    [kind |-> kind, cart |-> recCart, slot |-> s, file |-> file]

BeginArming(writes, what) ==
    /\ todo' = writes
    /\ ask' = what
    /\ pc' = "arming"

\* p8rec_save_slot_marker comes first and is the one write that is checked.
MarkSlotThen(s, writes, what) ==
    /\ slot' = s
    /\ \E ok \in BOOLEAN :
          /\ WriteMarker(SlotMark(s), ok)
          /\ IF ok THEN BeginArming(writes, what) /\ UNCHANGED notice
             ELSE notice' = "refused" /\ UNCHANGED <<pc, todo, ask>>

Requesting == UNCHANGED <<s0, takes, carts, mode, frames, capFailed, playing,
                          seedEnv, leaving>>

\* The pause menu runs inside vm::step, the last step of a cart that is being
\* swapped out included.
Menu == pc \in {"game", "swap"} /\ ~leaving

RecordTake ==   \* z8_rec_record, offered by the idle Recording menu
    /\ Menu /\ mode = 0
    /\ MarkSlotThen(SlotNow, <<Rec, ResetMark>>, Asking("REC", SlotNow, NoFile))
    /\ UNCHANGED s1 /\ Requesting

\* Mutant: Play does not remove the playfile an earlier pick left behind.
PlaySlotKeepsPlayfile ==
    /\ Menu /\ mode = 0
    /\ ProbeOk(<<recCart, SlotNow>>)
    /\ MarkSlotThen(SlotNow, <<Play, ResetMark>>, Asking("PLAY", SlotNow, NoFile))
    /\ UNCHANGED s1 /\ Requesting

PlaySlot ==     \* z8_rec_play
    /\ Menu /\ mode = 0
    /\ ProbeOk(<<recCart, SlotNow>>)
    /\ MarkSlotThen(SlotNow, <<Pick(NoFile), Play, ResetMark>>,
                    Asking("PLAY", SlotNow, NoFile))
    /\ UNCHANGED s1 /\ Requesting

\* OSD "Play Replay": the slot the request named is committed before the marker.
OsdPlay(s) ==
    /\ pc = "game" /\ mode # 1
    /\ ProbeOk(<<recCart, s>>)
    /\ MarkSlotThen(s, <<Pick(NoFile), Play, ResetMark>>, Asking("PLAY", s, NoFile))
    /\ UNCHANGED s1 /\ Requesting

\* The .s1 poll: a newer mtime is consumed whether or not the pick is accepted.
LoadReplay ==
    /\ pc = "game" /\ s1 # NoFile
    /\ s1' = NoFile
    /\ IF mode # 1 /\ ProbeOk(s1)
       THEN MarkSlotThen(SlotNow, <<Pick(s1), Play, ResetMark>>,
                         Asking("PLAY", SlotNow, s1))
       ELSE notice' = "refused" /\ UNCHANGED <<tmp, slot, pc, todo, ask>>
    /\ Requesting

\* extcmd("reset"): a recording is restarted, a replay is ended.
RestartRecording ==
    /\ Menu /\ mode = 1
    /\ slot' = SlotNow
    /\ \E ok \in BOOLEAN :
          /\ WriteMarker(SlotMark(SlotNow), ok)
          /\ IF ok THEN BeginArming(<<Rec, Warn("restarted"), ResetMark>>,
                                    Asking("REC", SlotNow, NoFile))
             ELSE BeginArming(<<ResetMark>>, NoAsk)
    /\ UNCHANGED <<s1, notice>> /\ Requesting

ResetCart ==
    /\ Menu /\ mode # 1
    /\ BeginArming(IF mode = 2 THEN <<Warn("stopped"), ResetMark>>
                   ELSE <<ResetMark>>, NoAsk)
    /\ UNCHANGED <<s1, slot, tmp, notice>> /\ Requesting

\* One marker write nobody checks, or the _exit(0) after the last of them.
ArmWrite ==
    /\ pc = "arming" /\ todo # << >>
    /\ \E ok \in BOOLEAN : WriteMarker(Head(todo), ok)
    /\ todo' = Tail(todo)
    /\ UNCHANGED <<pc, disk, carts, slot, session, screen>>

ArmExit ==
    /\ pc = "arming" /\ todo = << >>
    /\ pc' = "down"
    /\ FreshMemory
    /\ UNCHANGED <<disk, tmp, ask>>

\* extcmd("shutdown") and z8_cart_browser.
Shutdown ==
    /\ Menu
    /\ s0' = NoCart
    /\ pc' = "down"
    /\ FreshMemory
    /\ ask' = NoAsk
    /\ UNCHANGED <<s1, tmp, takes>>
-----------------------------------------------------------------------------
(* The game loop.                                                          *)

InGame == pc = "game"

RecordFrame ==
    /\ InGame /\ mode = 1 /\ frames < MaxFrames
    /\ frames' = frames + 1
    /\ UNCHANGED <<pc, disk, tmp, carts, slot, mode, capFailed, playing, seedEnv,
                   ask, screen, todo>>

\* bad_alloc in one of the push_backs: flush what there is, then end.
RecordFrameOom ==
    /\ InGame /\ mode = 1 /\ frames < MaxFrames
    /\ \E n \in {frames, frames + 1}, ok \in BOOLEAN :
          /\ WriteTake(n, ok)
          /\ notice' = IF WriteTakeOk(n, ok) THEN "stopped" ELSE "lost"
    /\ EndSession
    /\ UNCHANGED <<pc, s0, s1, tmp, carts, leaving, todo>>

\* The frame at the cap: p8rec_write is attempted on every one of them.
RecordFrameAtCap ==
    /\ InGame /\ mode = 1 /\ frames = MaxFrames
    /\ \E ok \in BOOLEAN :
          /\ WriteTake(frames, ok)
          /\ notice' = WriteNotice(frames, ok)
          /\ IF ok THEN EndSession
             ELSE /\ capFailed' = TRUE
                  /\ UNCHANGED <<mode, frames, playing, seedEnv, ask>>
    /\ UNCHANGED <<pc, s0, s1, tmp, carts, leaving, todo>>

\* Mutant: Stop ends the session although the take could not be written.
StopEndsAnyway ==
    /\ Menu /\ mode = 1
    /\ \E ok \in BOOLEAN :
          /\ WriteTake(frames, ok)
          /\ notice' = WriteNotice(frames, ok)
          /\ EndSession
    /\ UNCHANGED <<pc, s0, s1, tmp, carts, leaving, todo>>

\* z8_rec_stop: a failed write keeps the buffer and stays armed.
StopRecording ==
    /\ Menu /\ mode = 1
    /\ \E ok \in BOOLEAN :
          /\ WriteTake(frames, ok)
          /\ notice' = WriteNotice(frames, ok)
          /\ IF WriteTakeOk(frames, ok) THEN EndSession ELSE UNCHANGED session
    /\ UNCHANGED <<pc, s0, s1, tmp, carts, leaving, todo>>

\* Take-over, the last frame, or a sibling cart that differs.
PlaybackEnds ==
    /\ InGame /\ mode = 2
    /\ EndSession
    /\ notice' = "stopped"
    /\ UNCHANGED <<pc, disk, tmp, carts, slot, leaving, todo>>

\* A savestate load is not part of the input stream.
LoadState ==
    /\ InGame /\ mode # 0
    /\ EndSession
    /\ notice' = IF mode = 1 THEN "discarded" ELSE "stopped"
    /\ UNCHANGED <<pc, disk, tmp, carts, slot, leaving, todo>>

\* z8_rec_slot_prev / z8_rec_slot_next; the row exists in the idle menu only.
SlotPrev ==
    /\ Menu /\ mode = 0
    /\ slot' = IF SlotNow <= 1 THEN NSlots ELSE SlotNow - 1
    /\ UNCHANGED <<pc, disk, tmp, carts, session, screen, todo>>

SlotNext ==
    /\ Menu /\ mode = 0
    /\ slot' = IF SlotNow >= NSlots THEN 1 ELSE SlotNow + 1
    /\ UNCHANGED <<pc, disk, tmp, carts, session, screen, todo>>

\* The OSD moved its picker: adopted when idle, and left in a marker.
AdoptOsdSlot(s) ==
    /\ InGame /\ mode = 0 /\ s # SlotNow
    /\ slot' = s
    /\ \E ok \in BOOLEAN : WriteMarker(SlotMark(s), ok)
    /\ UNCHANGED <<pc, disk, carts, session, screen, todo>>

\* The .s0 poll sees another cart: discard the session, reload in process.
HotSwap ==
    /\ InGame
    /\ s0 # NoCart /\ s0 # cart
    /\ EndSessionIfAny
    /\ notice' = CASE mode = 1 -> "discarded"
                   [] mode = 2 -> "stopped"
                   [] OTHER -> notice
    /\ cart' = s0
    /\ pc' = "swap"
    /\ UNCHANGED <<disk, tmp, recCart, slot, leaving, todo>>

\* pause-menu Quit: z8_app_requestexit, acted on by the next steps.
RequestExit ==
    /\ Menu
    /\ leaving' = TRUE
    /\ UNCHANGED <<pc, disk, tmp, carts, slot, session, notice, todo>>

LeaveGame ==
    /\ InGame /\ leaving
    /\ pc' = "quit"
    /\ UNCHANGED <<disk, tmp, carts, slot, session, screen, todo>>

\* "Game ended": the VM is destroyed; a hot-swap goes straight on to the next
\* cart, a quit drops the session and the mount and waits for the OSD.
GameEndedBySwap ==
    /\ pc = "swap"
    /\ leaving' = FALSE
    /\ pc' = "start"
    /\ UNCHANGED <<disk, tmp, carts, slot, session, notice, todo>>

GameEndedByQuit ==
    /\ pc = "quit"
    /\ EndSessionIfAny
    /\ cart' = NoCart
    /\ s0' = NoCart
    /\ leaving' = FALSE
    /\ pc' = "wait"
    /\ UNCHANGED <<s1, tmp, takes, recCart, slot, notice, todo>>
-----------------------------------------------------------------------------
(* The world outside the process.                                          *)

\* MiSTer Main writes the cart the user picked in the OSD into .s0.
OsdMount(c) ==
    /\ pc \in {"wait", "game"}
    /\ s0' = c
    /\ UNCHANGED <<pc, s1, tmp, takes, carts, slot, session, screen, todo>>

\* MiSTer Main touches .s1 on every Load Replay pick.
OsdPick(p) ==
    /\ pc = "game"
    /\ s1' = p
    /\ UNCHANGED <<pc, s0, tmp, takes, carts, slot, session, screen, todo>>

\* The process dies on its own.  A request whose reset marker is already down
\* is complete; any other is void.
Crash ==
    /\ pc # "down"
    /\ pc' = "down"
    /\ FreshMemory
    /\ ask' = IF tmp.reset THEN ask ELSE NoAsk
    /\ UNCHANGED <<disk, tmp>>

\* Master_Daemon kills it because the user loaded another core; whatever was
\* asked for is over.  .s0 is cleared, or restored by Main's auto-resume.
CoreSwitch ==
    /\ SwitchInRespawn \/ ~tmp.reset
    /\ pc' = "down"
    /\ FreshMemory
    /\ ask' = NoAsk
    /\ s0' \in {NoCart, s0}
    /\ UNCHANGED <<s1, tmp, takes>>
-----------------------------------------------------------------------------
Requests == \/ RecordTake \/ PlaySlot \/ LoadReplay \/ RestartRecording \/ ResetCart
            \/ \E s \in Slots : OsdPlay(s)

Loop == \/ RecordFrame \/ RecordFrameOom \/ RecordFrameAtCap \/ StopRecording
        \/ PlaybackEnds \/ LoadState \/ SlotPrev \/ SlotNext
        \/ \E s \in Slots : AdoptOsdSlot(s)
        \/ HotSwap \/ RequestExit \/ LeaveGame
        \/ GameEndedBySwap \/ GameEndedByQuit \/ Shutdown

Respawn == ArmWrite \/ ArmExit \/ Handler \/ Mount \/ StartCart

World == \/ \E c \in Carts : OsdMount(c)
         \/ \E p \in Paths : OsdPick(p)
         \/ Crash \/ CoreSwitch

Next == Requests \/ Loop \/ Respawn \/ World

\* The process runs on and Master_Daemon respawns it; the user and the world
\* owe nothing.
Fairness == WF_vars(Respawn)

Spec == Init /\ [][Next]_vars
FairSpec == Spec /\ Fairness
-----------------------------------------------------------------------------
(* Properties.                                                             *)

\* A session that is running answers the request that was made: Stop writes
\* the slot Record named, and Play plays the slot or the file that was picked,
\* whatever crashed, was left over in /tmp or was moved in between.
SessionAsAsked ==
    pc = "game" =>
        /\ mode = 1 => /\ ask.kind = "REC"
                       /\ ask.cart = recCart
                       /\ ask.slot = slot
        /\ mode = 2 => /\ ask.kind = "PLAY"
                       /\ ask.cart = recCart
                       /\ playing = IF ask.file # NoFile THEN ask.file
                                    ELSE <<ask.cart, ask.slot>>

\* The recording that was asked for writes its slot with what it captured.
WrittenAsAsked(p) ==
    /\ mode = 1 /\ ask.kind = "REC"
    /\ p = <<ask.cart, ask.slot>>
    /\ takes'[p] \in {[cart |-> ask.cart, frames |-> n] : n \in {frames, frames + 1}}

\* A take on the card changes only under a recording that was asked for with
\* that cart and that slot, and then to what that recording captured: a write
\* that fails does not cost the take that was there.
TakesWrittenAsAsked ==
    [][\A p \in SlotPaths : takes'[p] # takes[p] => WrittenAsAsked(p)]_vars

\* A replay never runs over a take of another cart, although the cart can be
\* changed between the probe in one process and the load in the next.
PlaysOwnTake == pc = "game" /\ mode = 2 => BelongsTo(playing, recCart)

\* The fixed random seed is set exactly while a session runs: no teardown path
\* leaves the next game on a recorded seed.
SeedOnlyInSession ==
    /\ pc \in {"game", "swap", "quit"} => seedEnv = (mode # 0)
    /\ pc \in {"wait", "start"} => ~seedEnv

\* While the process lives, what was captured leaves memory onto the card or
\* the screen says that it is lost.  (Quit asks first, in the pause menu.)
NoSilentLoss ==
    [][mode = 1 /\ frames > 0 /\ mode' = 0 /\ pc = "game" /\ pc' \in {"game", "swap"} =>
           \/ \E n \in {frames, frames + 1} :
                 takes'[<<recCart, slot>>] = [cart |-> recCart, frames |-> n]
           \/ notice' \in {"lost", "discarded"}]_vars

\* After a failed write at the cap the whole take is still held by a recording
\* that Stop can retry, and no later session starts out as failed.
CapFailedCanRetry == capFailed => mode = 1 /\ frames = MaxFrames

\* Once a request has killed the process, the session starts or the request
\* is refused: the respawn does not wait for the user to mount the cart again.
RequestAnswered == pc = "down" /\ ask # NoAsk ~> ask = NoAsk \/ mode # 0

(* What comments in the source claim and the code does not do.             *)

\* "armed a recording nobody asked for": every armed recording was asked for.
RecordingWasAsked == pc = "game" /\ mode = 1 => ask.kind = "REC"
=============================================================================
