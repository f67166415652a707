--------------------------- MODULE SaveIsolation ---------------------------
(***************************************************************************)
(* Whose save data a cart reads and writes.                                *)
(*                                                                         *)
(* A cart keeps 256 bytes under a cartdata id (<id>.p8d.txt) and may write *)
(* over its own file with cstore() (<cart>.p8 in the saves directory, read *)
(* back over the ROM when the cart loads).  Both paths are resolved when   *)
(* they are used, from the environment variable Z8_SAVES_DIR.  A recording *)
(* runs on a scratch copy of the real saves and carries the files it       *)
(* opened, as they were when it started; a replay runs on a scratch that   *)
(* holds just those.  One cart's files stand for them all, a content is a  *)
(* single value, and who asks for a session is in Recorder.                *)
(***************************************************************************)
EXTENDS Naturals

CONSTANTS
    Ids,         \* cartdata ids the cart may claim
    Overlay,     \* the file its cstore() writes
    Vals,        \* contents of a file, and of the 256 bytes in memory
    Zero,        \* the content of memory at power-on
    Absent,      \* no such file
    Unseen,      \* not opened by this run
    NoId,        \* m_cartdata is empty
    NoTake,      \* nothing recorded yet
    MinFrames,   \* m_min_frames_between_saves
    CopyFails,   \* may a file fail to copy while a session is prepared?
    WriteFails   \* may writing cartdata fail?

Files == Ids \cup {Overlay}
Dirs == [Files -> Vals \cup {Absent}]
Seen == [Files -> Vals \cup {Absent, Unseen}]
Takes == [snap : Dirs, seen : Seen]

ASSUME SaveConstants ==
    /\ Overlay \notin Ids
    /\ Zero \in Vals
    /\ Absent \notin Vals
    /\ Unseen \notin Vals \cup {Absent}
    /\ NoId \notin Files
    /\ NoTake \notin Takes
    /\ MinFrames \in Nat \ {0}
    /\ CopyFails \in BOOLEAN
    /\ WriteFails \in BOOLEAN

VARIABLES
    real,      \* /media/fat/saves/PICO-8
    armsnap,   \* .armsnap, the real saves as they were at the arm
    scratch,   \* .scratch, what a session reads and writes
    take,      \* the take last recorded
    pc,        \* "off" no process, "idle" no cart, "game", "swap"
    mode,      \* g_rec_mode
    env,       \* is Z8_SAVES_DIR set?
    used,      \* g_rec_used
    bound,     \* m_cartdata
    ram,       \* m_ram.persistent
    dirty,     \* m_is_dirty
    age,       \* m_frames_since_last_save, up to MinFrames
    isolated,  \* history: this cart was started by a session
    seen       \* history: what the session found in each file it opened

dirs == <<real, armsnap, scratch>>
recorder == <<mode, env, used>>
data == <<bound, ram, dirty, age>>
history == <<isolated, seen>>
vars == <<dirs, take, pc, recorder, data, history>>

TypeOK ==
    /\ real \in Dirs /\ armsnap \in Dirs /\ scratch \in Dirs
    /\ take \in Takes \cup {NoTake}
    /\ pc \in {"off", "idle", "game", "swap"}
    /\ mode \in 0 .. 2
    /\ env \in BOOLEAN
    /\ used \subseteq Files
    /\ bound \in Ids \cup {NoId}
    /\ ram \in Vals
    /\ dirty \in BOOLEAN
    /\ age \in 0 .. MinFrames
    /\ isolated \in BOOLEAN
    /\ seen \in Seen

Empty == [f \in Files |-> Absent]
Nothing == [f \in Files |-> Unseen]

Init ==
    /\ real = Empty /\ armsnap = Empty /\ scratch = Empty
    /\ take = NoTake
    /\ pc = "off"
    /\ mode = 0 /\ env = FALSE /\ used = {}
    /\ bound = NoId /\ ram = Zero /\ dirty = FALSE /\ age = 0
    /\ isolated = FALSE /\ seen = Nothing
-----------------------------------------------------------------------------
(* Helpers of the C++ code.                                                *)

\* get_path_save, get_path_cstore: resolved at every call.
SaveDir == IF env THEN scratch ELSE real

WriteFile(f, v) ==
    IF env THEN scratch' = [scratch EXCEPT ![f] = v] /\ UNCHANGED <<real, armsnap>>
    ELSE real' = [real EXCEPT ![f] = v] /\ UNCHANGED <<scratch, armsnap>>

\* The files of dir that a copy loop gets across, into a wiped directory.
CopyOf(dir) ==
    LET present == {f \in Files : dir[f] # Absent}
    IN  {[f \in Files |-> IF f \in got THEN dir[f] ELSE Absent] :
            got \in IF CopyFails THEN SUBSET present ELSE {present}}

\* Mutant: the payload is taken from the scratch, as the run left it.
PayloadOfScratch ==
    [f \in Files |-> IF f \in used THEN scratch[f] ELSE Absent]

\* p8snap_from_dir: of the saves at the arm, those the run opened.
Payload == [f \in Files |-> IF f \in used THEN armsnap[f] ELSE Absent]

\* p8rec_note_save_file, called wherever a path is resolved.
Opens(f, found) ==
    /\ used' = IF mode = 1 THEN used \cup {f} ELSE used
    /\ seen' = IF mode # 0 /\ seen[f] = Unseen THEN [seen EXCEPT ![f] = found]
               ELSE seen

\* textfile::write_save opens the file truncating: a write that fails leaves the
\* old file (it could not be opened) or an empty one, which reads as none.
TryWrite(f, v) ==
    \/ WriteFile(f, v)
    \/ WriteFails /\ (WriteFile(f, Absent) \/ UNCHANGED dirs)

\* save_cartdata(true).
Flush == IF bound = NoId THEN UNCHANGED dirs ELSE TryWrite(bound, ram)

\* textfile::tick: counts the frame, and says whether the file is due.
Due == dirty /\ age + 1 >= MinFrames

\* save_cartdata(false): a file that is due counts as written before the write
\* is tried.
SaveIfDue ==
    IF bound = NoId THEN UNCHANGED <<dirs, dirty, age>>
    ELSE IF Due THEN Flush /\ dirty' = FALSE /\ age' = 0
    ELSE /\ age' = IF age < MinFrames THEN age + 1 ELSE age
         /\ UNCHANGED <<dirs, dirty>>

\* Mutant: the teardown hands the real saves back while the cart still runs.
EndSessionRestoresSaves == mode' = 0 /\ used' = {} /\ env' = FALSE

\* p8rec_reset leaves Z8_SAVES_DIR as it is.
EndSession == mode' = 0 /\ used' = {} /\ UNCHANGED env

\* The memory of a VM that is gone.
NoVm ==
    /\ bound' = NoId /\ ram' = Zero /\ dirty' = FALSE /\ age' = 0
    /\ isolated' = FALSE /\ seen' = Nothing
-----------------------------------------------------------------------------
(* Starting a cart.                                                        *)

\* The cart is loaded: its overlay is looked up first thing.
Run(m, dir) ==
    /\ pc' = "game"
    /\ mode' = m
    /\ used' = IF m = 1 THEN {Overlay} ELSE {}
    /\ isolated' = (m # 0)
    /\ seen' = IF m = 0 THEN Nothing
               ELSE [Nothing EXCEPT ![Overlay] = dir[Overlay]]
    /\ UNCHANGED data

StartPlain ==
    /\ pc \in {"off", "idle"}
    /\ Run(0, SaveDir)
    /\ UNCHANGED <<dirs, take, env>>

\* Mutant: the saves are redirected although the arm was refused.
StartRecordingRedirects ==
    /\ pc = "off"
    /\ armsnap' \in CopyOf(real)
    /\ scratch' \in CopyOf(armsnap')
    /\ env' = TRUE
    /\ Run(IF scratch' = armsnap' THEN 1 ELSE 0, scratch')
    /\ UNCHANGED <<real, take>>

\* real -> armsnap -> scratch; refused when the second copy is short.
StartRecording ==
    /\ pc = "off"
    /\ armsnap' \in CopyOf(real)
    /\ scratch' \in CopyOf(armsnap')
    /\ env' = (scratch' = armsnap')
    /\ Run(IF scratch' = armsnap' THEN 1 ELSE 0, scratch')
    /\ UNCHANGED <<real, take>>

\* p8snap_to_dir: refused when a carried file could not be put back.
StartReplay ==
    /\ pc = "off" /\ take # NoTake
    /\ scratch' \in CopyOf(take.snap)
    /\ env' = (scratch' = take.snap)
    /\ Run(IF scratch' = take.snap THEN 2 ELSE 0, scratch')
    /\ UNCHANGED <<real, armsnap, take>>
-----------------------------------------------------------------------------
(* The running cart.  In "swap" it is in the last step before it goes.     *)

InVm == pc \in {"game", "swap"}

\* cartdata(id), once; an absent file leaves the memory as it is.
BindCart(id) ==
    /\ InVm /\ bound = NoId
    /\ bound' = id
    /\ ram' = IF SaveDir[id] # Absent THEN SaveDir[id] ELSE ram
    /\ Opens(id, SaveDir[id])
    /\ UNCHANGED <<dirs, take, pc, mode, env, dirty, age, isolated>>

\* dset(), or any poke into 0x5e00..0x5eff.
Poke(v) ==
    /\ InVm
    /\ ram' = v
    /\ dirty' = TRUE
    /\ UNCHANGED <<dirs, take, pc, recorder, bound, age, history>>

\* The end of vm::step.
Tick ==
    /\ InVm
    /\ SaveIfDue
    /\ UNCHANGED <<take, pc, recorder, bound, ram, history>>

\* load("sibling"): saved first; the sibling has to claim an id of its own.
LoadSibling ==
    /\ InVm
    /\ Flush
    /\ bound' = NoId
    /\ IF bound = NoId THEN UNCHANGED <<dirty, age>> ELSE dirty' = FALSE /\ age' = 0
    /\ UNCHANGED <<take, pc, recorder, ram, history>>

Cstore(v) ==
    /\ InVm
    /\ TryWrite(Overlay, v)
    /\ Opens(Overlay, SaveDir[Overlay])
    /\ UNCHANGED <<take, pc, mode, env, data, isolated>>

\* A save state brings back all of the memory, these bytes included.
LoadState(v) ==
    /\ pc = "game"
    /\ ram' = v
    /\ IF mode # 0 THEN EndSession ELSE UNCHANGED recorder
    /\ UNCHANGED <<dirs, take, pc, bound, dirty, age, history>>

StopRecording ==
    /\ InVm /\ mode = 1
    /\ take' = [snap |-> Payload, seen |-> seen]
    /\ EndSession
    /\ UNCHANGED <<dirs, pc, data, history>>

\* Take-over, the end of the take, the frame cap without a take.
SessionEnds ==
    /\ pc = "game" /\ mode # 0
    /\ EndSession
    /\ UNCHANGED <<dirs, take, pc, data, history>>
-----------------------------------------------------------------------------
(* Ends.                                                                   *)

\* Record, Play, Load Replay and Reset: _exit(0), which runs no destructor.
Request ==
    /\ InVm
    /\ pc' = "off"
    /\ mode' = 0 /\ env' = FALSE /\ used' = {}
    /\ NoVm
    /\ UNCHANGED <<dirs, take>>

\* A crash, or Master_Daemon killing the process on a core switch.
Killed ==
    /\ pc # "off"
    /\ pc' = "off"
    /\ mode' = 0 /\ env' = FALSE /\ used' = {}
    /\ NoVm
    /\ UNCHANGED <<dirs, take>>

\* The OSD mounted another cart: Z8_SAVES_DIR goes, then the last step runs.
HotSwap ==
    /\ pc = "game"
    /\ mode' = 0 /\ env' = FALSE /\ used' = {}
    /\ pc' = "swap"
    /\ UNCHANGED <<dirs, take, data, history>>

\* ~vm saves what is in memory.
SwapEnds ==
    /\ pc = "swap"
    /\ Flush
    /\ pc' = "idle"
    /\ NoVm
    /\ UNCHANGED <<take, recorder>>

\* Mutant: a quit leaves Z8_SAVES_DIR to the next cart.
QuitKeepsDir ==
    /\ pc = "game"
    /\ Flush
    /\ mode' = 0 /\ used' = {} /\ UNCHANGED env
    /\ pc' = "idle"
    /\ NoVm
    /\ UNCHANGED take

\* Quit: saved by the last step and by ~vm, and only then handed back.
Quit ==
    /\ pc = "game"
    /\ Flush
    /\ mode' = 0 /\ env' = FALSE /\ used' = {}
    /\ pc' = "idle"
    /\ NoVm
    /\ UNCHANGED take
-----------------------------------------------------------------------------
Next ==
    \/ StartPlain \/ StartRecording \/ StartReplay
    \/ \E id \in Ids : BindCart(id)
    \/ \E v \in Vals : Poke(v) \/ Cstore(v) \/ LoadState(v)
    \/ Tick \/ LoadSibling
    \/ StopRecording \/ SessionEnds
    \/ Request \/ Killed \/ HotSwap \/ SwapEnds \/ Quit

Spec == Init /\ [][Next]_vars
-----------------------------------------------------------------------------
(* Properties.                                                             *)

\* A replay finds in every file it opens what the recorded run found there,
\* whatever either run writes and whatever became of the real saves between.
PlaysRecordedWorld ==
    mode = 2 => \A f \in Files :
        seen[f] # Unseen /\ take.seen[f] # Unseen => seen[f] = take.seen[f]

\* A take carries no save of a cart the run did not open.
TakeCarriesOwnSaves ==
    take # NoTake => \A f \in Files : take.snap[f] # Absent => take.seen[f] # Unseen

\* A cart reads and writes one saves directory for as long as it runs: its
\* session's scratch if it was started by one, the real saves otherwise, also
\* when the session was refused or ends before the cart does.
OneSaveDir == pc = "game" => env = isolated

(* What the documentation claims and the code does not do.                 *)

\* "yours are never modified": nothing a session's cart leaves in memory is
\* written into the real saves.
RealSavesOnlyRead == [][real' # real => ~isolated]_vars
=============================================================================
