----------------------------- MODULE ReplaySlot -----------------------------
(***************************************************************************)
(* One slot number, shown twice.                                           *)
(*                                                                         *)
(* The pause menu (on the ARM) and the OSD (MiSTer Main) each have a       *)
(* picker for the replay slot.  The FPGA core sits between them: it tells  *)
(* the ARM its slot, and the presses of the OSD's Play, in a DDR3 word it  *)
(* writes once a frame; it learns of a pause-menu press from another word, *)
(* read once a frame and compared by a sequence number; and it asks Main   *)
(* to write that slot into the OSD.  The two words outlive processes and   *)
(* cores, and so does the marker file that carries the ARM's slot from one *)
(* process to the next.                                                    *)
(***************************************************************************)
EXTENDS Naturals

CONSTANTS
    NSlots,     \* P8REC_SLOTS
    SeqMod,     \* both sequence numbers wrap here
    MinFrames,  \* frames the FPGA finishes between two polls
    NoSlot,     \* none: nothing pushed, no marker, nothing chosen
    TwiceUnderReset, \* may the OSD's slot change twice under one RESET?
    Plays       \* is Play Replay ever chosen?

Slots == 1 .. NSlots
Seqs == 0 .. SeqMod - 1
\* An 8-bit counter.
Following(seq) == (seq + 1) % SeqMod
Unseen(seq, last) == (seq + SeqMod - last) % SeqMod

ASSUME SlotConstants ==
    /\ NSlots \in Nat \ {0}
    /\ SeqMod \in Nat /\ SeqMod > 2
    /\ MinFrames \in Nat \ {0}
    /\ NoSlot \notin Slots
    /\ TwiceUnderReset \in BOOLEAN /\ Plays \in BOOLEAN

VARIABLES
    osd,      \* the OSD's picker: status[3:1], in Main and in hps_io
    push,     \* status_req: a slot Main has still to take into the OSD
    \* replay_slot_ui and pico8_video_reader
    reset,    \* is RESET held?
    slot,     \* slot
    lastOsd,  \* lastOSDsetting
    armed,    \* arm_valid, armed
    armSeq,   \* last_arm_seq
    rsSeq,    \* rs_seq
    rsCmd,    \* rs_cmd_lat: 1 is play
    phase,    \* what the reader does next in a frame
    \* DDR3
    word,     \* 0x0C, for the ARM
    ctrl,     \* 0x04, for the FPGA
    marker,   \* /tmp/pico8_recslot, which outlives the process
    \* the ARM process
    rslot,    \* g_rec_slot, as p8rec_slot_now reads it
    mode,     \* g_rec_mode
    fresh,    \* g_rec_pub_fresh
    primed,   \* rs_primed
    lastSeq,  \* rs_last_seq
    waited,   \* frames since the last poll, up to MinFrames
    \* histories
    mover,    \* "menu" if a press in the pause menu moved a picker last, and
              \* no RESET ate it; else "osd"
    pressed,  \* the slot last chosen in the pause menu, or NoSlot
    asked     \* has Play been pressed since the ARM last saw a press?

main == <<osd, push>>
fpga == <<reset, slot, lastOsd, armed, armSeq, rsSeq, rsCmd, phase>>
arm == <<rslot, mode, fresh, primed, lastSeq, waited>>
history == <<mover, pressed, asked>>
vars == <<main, fpga, word, ctrl, marker, arm, history>>

Words == [slot : Slots, seq : Seqs, cmd : 0 .. 1]
Ctrls == [slot : Slots, seq : Seqs]

TypeOK ==
    /\ osd \in Slots /\ push \in Slots \cup {NoSlot}
    /\ reset \in BOOLEAN
    /\ slot \in Slots /\ lastOsd \in Slots
    /\ armed \in BOOLEAN /\ armSeq \in Seqs
    /\ rsSeq \in Seqs /\ rsCmd \in 0 .. 1
    /\ phase \in {"write", "read"}
    /\ word \in Words /\ ctrl \in Ctrls
    /\ marker \in Slots \cup {NoSlot}
    /\ rslot \in Slots /\ mode \in 0 .. 2
    /\ fresh \in BOOLEAN /\ primed \in BOOLEAN
    /\ lastSeq \in Seqs /\ waited \in 0 .. MinFrames
    /\ mover \in {"osd", "menu"}
    /\ pressed \in Slots \cup {NoSlot} /\ asked \in BOOLEAN

\* The core was just loaded, with Main's saved slot; DDR3 holds anything.
Init ==
    /\ osd \in Slots /\ push = NoSlot
    /\ reset = FALSE
    /\ slot = osd /\ lastOsd = osd
    /\ armed = FALSE /\ armSeq = 0
    /\ rsSeq = 0 /\ rsCmd = 0
    /\ phase = "write"
    /\ word \in Words /\ ctrl \in Ctrls
    /\ marker = NoSlot
    /\ rslot = 1 /\ mode = 0
    /\ fresh = FALSE /\ primed = FALSE
    /\ lastSeq = 0 /\ waited = 0
    /\ mover = "osd" /\ pressed = NoSlot /\ asked = FALSE
-----------------------------------------------------------------------------
(* MiSTer Main and the OSD.                                                *)

\* Mutant: the core goes on tracking the OSD under RESET.
StatusTracked(s) ==
    /\ osd' = s
    /\ lastOsd' = s
    /\ slot' = IF reset \/ lastOsd = s THEN slot ELSE s

\* The status word reaches the core at once; under RESET the core leaves it
\* unread.
Status(s) ==
    /\ osd' = s
    /\ lastOsd' = IF reset THEN lastOsd ELSE s
    /\ slot' = IF reset \/ lastOsd = s THEN slot ELSE s

OsdMove(s) ==
    /\ s # osd
    /\ reset => osd = lastOsd \/ TwiceUnderReset
    /\ Status(s)
    /\ mover' = "osd"
    /\ UNCHANGED <<push, reset, armed, armSeq, rsSeq, rsCmd, phase, word, ctrl, marker,
                   arm, pressed, asked>>

\* Main takes the slot the core pushed, and sends the status word as ever.
TakePush ==
    /\ push # NoSlot
    /\ Status(push)
    /\ push' = NoSlot
    /\ UNCHANGED <<reset, armed, armSeq, rsSeq, rsCmd, phase, word, ctrl, marker, arm,
                   history>>

\* Play Replay.  Bound: fewer presses between two polls than would wrap.
OsdPlay ==
    /\ Plays /\ ~reset
    /\ primed => Unseen(rsSeq, lastSeq) < SeqMod - 1
    /\ rsSeq' = Following(rsSeq)
    /\ rsCmd' = 1
    /\ asked' = TRUE
    /\ UNCHANGED <<main, reset, slot, lastOsd, armed, armSeq, phase, word, ctrl, marker,
                   arm, mover, pressed>>
-----------------------------------------------------------------------------
(* The core.                                                               *)

\* ST_WRITE_JOY0.
FrameWrite ==
    /\ ~reset /\ phase = "write"
    /\ word' = [slot |-> slot, seq |-> rsSeq, cmd |-> rsCmd]
    /\ phase' = "read"
    /\ UNCHANGED <<main, reset, slot, lastOsd, armed, armSeq, rsSeq, rsCmd, ctrl, marker,
                   arm, history>>

\* Mutant: the first sample after a reset counts as a press.
FrameReadUnarmed ==
    /\ ~reset /\ phase = "read"
    /\ armSeq' = ctrl.seq
    /\ armed' = TRUE
    /\ IF ctrl.seq # armSeq THEN slot' = ctrl.slot /\ push' = ctrl.slot
       ELSE UNCHANGED <<slot, push>>
    /\ phase' = "write"
    /\ waited' = IF waited < MinFrames THEN waited + 1 ELSE waited
    /\ UNCHANGED <<osd, reset, lastOsd, rsSeq, rsCmd, word, ctrl, marker, rslot, mode,
                   fresh, primed, lastSeq, history>>

\* ST_WAIT_CTRL and what replay_slot_ui makes of it: a sequence number that is
\* not the last one is a press in the pause menu, but for the first sample.
FrameRead ==
    /\ ~reset /\ phase = "read"
    /\ armSeq' = ctrl.seq
    /\ armed' = TRUE
    /\ IF armed /\ ctrl.seq # armSeq THEN slot' = ctrl.slot /\ push' = ctrl.slot
       ELSE UNCHANGED <<slot, push>>
    /\ phase' = "write"
    /\ waited' = IF waited < MinFrames THEN waited + 1 ELSE waited
    /\ UNCHANGED <<osd, reset, lastOsd, rsSeq, rsCmd, word, ctrl, marker, rslot, mode,
                   fresh, primed, lastSeq, history>>

\* The slot chosen in the pause menu is on its way back to the ARM.
Answered == ctrl.seq = armSeq /\ slot = pressed /\ word.slot = pressed

\* Mutant: the first poll of a process compares too.
SeesPlayUnprimed == word.cmd = 1 /\ word.seq # lastSeq

\* The ARM sees a press of Play.
SeesPlay == primed /\ word.cmd = 1 /\ word.seq # lastSeq

\* RESET: the sequence numbers, the slot and DDR3 survive, a press on its way in
\* either direction does not.
ResetOn ==
    /\ ~reset
    /\ reset' = TRUE
    /\ armed' = FALSE
    /\ rsCmd' = 0
    /\ phase' = "write"
    /\ mover' = IF mover = "menu" /\ ~Answered THEN "osd" ELSE mover
    /\ asked' = (asked /\ SeesPlay)
    /\ UNCHANGED <<main, slot, lastOsd, armSeq, rsSeq, word, ctrl, marker, arm, pressed>>

ResetOff ==
    /\ reset
    /\ reset' = FALSE
    /\ slot' = IF lastOsd # osd THEN osd ELSE slot
    /\ lastOsd' = osd
    /\ UNCHANGED <<main, armed, armSeq, rsSeq, rsCmd, phase, word, ctrl, marker, arm,
                   history>>
-----------------------------------------------------------------------------
(* The ARM.                                                                *)

\* z8_rec_slot_prev and z8_rec_slot_next, in the idle pause menu.  Bound: fewer
\* presses in a frame of the core than would wrap.
SlotPress(s) ==
    /\ mode = 0
    /\ Unseen(ctrl.seq, armSeq) < SeqMod - 1
    /\ rslot' = s
    /\ ctrl' = [slot |-> s, seq |-> Following(ctrl.seq)]
    /\ fresh' = TRUE
    /\ mover' = IF armed THEN "menu" ELSE "osd"
    /\ pressed' = s
    /\ UNCHANGED <<main, fpga, word, marker, mode, primed, lastSeq, waited, asked>>

Neighbours(s) ==
    {IF s = 1 THEN NSlots ELSE s - 1, IF s = NSlots THEN 1 ELSE s + 1}

\* Every 30 frames of the game; the core makes some meanwhile, unless it is held.
Due == reset \/ waited = MinFrames

StillAsked == IF primed /\ ~SeesPlay THEN asked ELSE asked /\ rsSeq # word.seq

\* Mutant: the poll after a press adopts what it finds.
AdoptsEvenFresh == primed /\ mode = 0 /\ word.slot # rslot

\* The poll takes over the slot of the OSD.  After a press it leaves the word unread
\* once, for the word may be older.
Adopts == primed /\ ~fresh /\ mode = 0 /\ word.slot # rslot

\* What writing a slot to the marker may leave: it, the old file, an empty one.
Noted(s) == {s, marker, NoSlot}

\* What every poll does, whether or not it sees a Play.
Polled ==
    /\ Due
    /\ fresh' = FALSE
    /\ primed' = TRUE
    /\ lastSeq' = word.seq
    /\ waited' = 0
    /\ asked' = StillAsked
    /\ UNCHANGED <<main, fpga, word, ctrl, mode, mover, pressed>>

\* The poll, if it sees no Play or refuses it: a recording runs, the probe fails.
Poll ==
    /\ Polled
    /\ rslot' = IF Adopts THEN word.slot ELSE rslot
    /\ marker' \in IF Adopts THEN Noted(word.slot) ELSE {marker}

\* The poll accepts a Play and cannot write the marker: no replay, but the recorder
\* has taken the slot the OSD shows.
PollCommits ==
    /\ SeesPlay /\ mode # 1
    /\ Polled
    /\ rslot' = word.slot
    /\ marker' \in IF Adopts THEN Noted(word.slot) ELSE {marker, NoSlot}

\* A new process.  It takes the slot from the marker, which it removes, and arms
\* only for a request, which has written the marker before.
Started(m) ==
    /\ rslot' = IF m.slot \in Slots THEN m.slot ELSE 1
    /\ mode' = m.mode
    /\ marker' = NoSlot
    /\ fresh' = FALSE /\ primed' = FALSE
    /\ lastSeq' = 0 /\ waited' = 0

\* The poll sees Play and restarts the process to replay the slot shown.
PollPlays ==
    /\ Due /\ SeesPlay /\ mode # 1
    /\ \E m \in {0, 2} : Started([slot |-> word.slot, mode |-> m])
    /\ asked' = StillAsked
    /\ UNCHANGED <<main, fpga, word, ctrl, mover, pressed>>

\* Record, Play, Reset, a crash.
Respawn ==
    /\ \E s \in Noted(rslot), m \in 0 .. 2 :
          (m # 0 => s = rslot) /\ Started([slot |-> s, mode |-> m])
    /\ UNCHANGED <<main, fpga, word, ctrl, history>>

\* A cart picked on the OSD replaces the running one in the process, which ends the
\* session and passes the marker a second time.
Swap ==
    /\ rslot' = IF marker \in Slots THEN marker ELSE rslot
    /\ mode' = 0
    /\ marker' = NoSlot
    /\ UNCHANGED <<main, fpga, word, ctrl, fresh, primed, lastSeq, waited, history>>

SessionEnds ==
    /\ mode # 0
    /\ mode' = 0
    /\ UNCHANGED <<main, fpga, word, ctrl, marker, rslot, fresh, primed, lastSeq, waited,
                   history>>
-----------------------------------------------------------------------------
Moves ==
    \/ \E s \in Slots : OsdMove(s)
    \/ \E s \in Neighbours(rslot) : SlotPress(s)
    \/ ResetOn \/ Respawn \/ Swap

AnyPoll == Poll \/ PollCommits \/ PollPlays

Next ==
    \/ Moves \/ OsdPlay
    \/ TakePush \/ FrameWrite \/ FrameRead \/ ResetOff
    \/ AnyPoll \/ SessionEnds

Spec == Init /\ [][Next]_vars

\* The core makes frames, Main and the ARM poll, a RESET is let go of.
FairSpec ==
    /\ Spec
    /\ WF_vars(FrameWrite) /\ WF_vars(FrameRead) /\ WF_vars(ResetOff)
    /\ WF_vars(TakePush) /\ WF_vars(AnyPoll)
-----------------------------------------------------------------------------
(* Properties.                                                             *)

\* A slot chosen in the pause menu stays chosen: no poll takes the recorder back to
\* the one before it, unless the user moved the OSD's picker since, or pressed Play
\* there before the OSD could show the choice.
PressNotReverted ==
    [][AnyPoll /\ mover = "menu" /\ rslot' # rslot =>
           rslot' = pressed \/ (fresh /\ SeesPlay)]_vars

\* The core rewrites the user's saved OSD setting only with the slot last chosen
\* in the pause menu: never with what another core left in DDR3, never for a
\* reset or a respawn.
PushWasPressed == [][push' \in Slots => push' \in {push, pressed}]_vars

\* The ARM sees no Play that was not pressed, and none twice: not after a respawn,
\* not after a reset, not from what another core left in DDR3.
PlayWasPressed == [][AnyPoll /\ SeesPlay => asked]_vars

\* When nobody moves a picker any more, the two show the same slot, and with no
\* session it is the one the recorder uses.
PickersAgree ==
    <>[][~Moves]_vars => <>[](osd = slot /\ (mode = 0 => rslot = slot))
=============================================================================
