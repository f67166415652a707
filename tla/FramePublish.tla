---------------------------- MODULE FramePublish ----------------------------
(***************************************************************************)
(* How a finished picture gets from the ARM to the screen.                 *)
(*                                                                         *)
(* The game thread draws into one of two DDR3 buffers and then names it in *)
(* the control word, next to a frame counter.  A keepalive thread names    *)
(* the buffer last finished again every 150 ms, so that the picture stays  *)
(* up while the game thread loads or waits.  The FPGA reads the control    *)
(* word once per frame: a counter that changed makes it follow the word, a *)
(* counter that did not change for half a second blanks the screen.        *)
(*                                                                         *)
(* Both threads take their counter from one atomic increment, so that no   *)
(* two stores carry the same one in 2^30; all the reader asks of it is     *)
(* whether it is another than the last it saw, and that is all there is of *)
(* it here.                                                                *)
(***************************************************************************)
EXTENDS Naturals

CONSTANTS
    StaleMax,  \* vblanks without a new counter that blank the screen
    TickGap    \* vblanks between two stores of the keepalive, at most

Bufs == 0 .. 1
Other(b) == 1 - b

ASSUME PublishConstants ==
    /\ StaleMax \in Nat \ {0}
    /\ TickGap \in 1 .. StaleMax

VARIABLES
    named,    \* DDR3: the buffer the control word names
    news,     \* is the word's counter not the reader's prev_frame_counter?
    active,   \* active_buf
    lastPub,  \* nv_last_published
    main,     \* where the game thread is in WriteFrame or ClearScreen
    full,     \* is this buffer a whole picture?
    tick,     \* the keepalive: the buffer it is about to name, or Asleep
    shown,    \* active_buffer of the reader
    synced,   \* synced
    loaded,   \* first_frame_loaded
    stale,    \* stale_vblank_count
    ready,    \* frame_ready: the screen is not blank
    quiet,    \* vblanks since the keepalive stored
    done,     \* history: the buffer last finished
    fresh     \* history: has the reader followed this process since its reset?

Asleep == 2

word == <<named, news>>
game == <<active, lastPub, main, full, done>>
reader == <<shown, synced, loaded, stale, ready, fresh>>
vars == <<word, game, tick, reader, quiet>>

TypeOK ==
    /\ named \in Bufs /\ news \in BOOLEAN
    /\ active \in Bufs /\ lastPub \in Bufs
    /\ main \in {"idle", "drawing", "handed"}
    /\ full \in [Bufs -> BOOLEAN]
    /\ tick \in Bufs \cup {Asleep}
    /\ shown \in Bufs
    /\ synced \in BOOLEAN /\ loaded \in BOOLEAN
    /\ stale \in 0 .. StaleMax
    /\ ready \in BOOLEAN
    /\ quiet \in 0 .. TickGap
    /\ done \in Bufs /\ fresh \in BOOLEAN

\* NativeVideoWriter_Init has cleared the buffers and the words, and the wait loop
\* is in its first ClearScreen.  The reader may have been reset, or be where the
\* process before this one left it.
Init ==
    /\ named = 0 /\ news \in BOOLEAN
    /\ active = 0 /\ lastPub = 0
    /\ main = "drawing"
    /\ full = [b \in Bufs |-> TRUE]
    /\ tick = Asleep
    /\ shown \in Bufs
    /\ synced \in BOOLEAN /\ loaded \in BOOLEAN /\ (loaded => synced)
    /\ stale \in 0 .. StaleMax
    /\ ready = (loaded /\ stale < StaleMax)
    /\ quiet = 0
    /\ done = 0 /\ fresh = FALSE
-----------------------------------------------------------------------------
(* The game thread: WriteFrame and ClearScreen.                            *)

Draw ==
    /\ main = "idle"
    /\ full' = [full EXCEPT ![active] = FALSE]
    /\ main' = "drawing"
    /\ UNCHANGED <<word, active, lastPub, done, tick, reader, quiet>>

\* ClearScreen zeroes both buffers: whole pictures, black.
Clear ==
    /\ main = "idle"
    /\ full' = [b \in Bufs |-> TRUE]
    /\ main' = "drawing"
    /\ UNCHANGED <<word, active, lastPub, done, tick, reader, quiet>>

\* The picture is finished; the keepalive may name it before the game thread does.
Hand ==
    /\ main = "drawing"
    /\ full' = [full EXCEPT ![active] = TRUE]
    /\ done' = active
    /\ lastPub' = active
    /\ main' = "handed"
    /\ UNCHANGED <<word, active, tick, reader, quiet>>

Publish ==
    /\ main = "handed"
    /\ named' = active /\ news' = TRUE
    /\ active' = Other(active)
    /\ main' = "idle"
    /\ UNCHANGED <<lastPub, full, done, tick, reader, quiet>>
-----------------------------------------------------------------------------
(* The keepalive thread: NativeVideoWriter_KeepaliveTick, then a sleep.    *)

\* Mutant: the tick takes the buffer from active_buf.
TickReadActive ==
    /\ tick = Asleep
    /\ tick' = active
    /\ UNCHANGED <<word, game, reader, quiet>>

TickRead ==
    /\ tick = Asleep
    /\ tick' = lastPub
    /\ UNCHANGED <<word, game, reader, quiet>>

\* Mutant: the counter is left as it is.
TickStoresOld ==
    /\ tick # Asleep
    /\ named' = tick
    /\ tick' = Asleep
    /\ quiet' = 0
    /\ UNCHANGED <<news, game, reader>>

TickStore ==
    /\ tick # Asleep
    /\ named' = tick /\ news' = TRUE
    /\ tick' = Asleep
    /\ quiet' = 0
    /\ UNCHANGED <<game, reader>>
-----------------------------------------------------------------------------
(* The reader, once a frame: ST_CHECK_CTRL.                                *)

\* The first read after a reset only tells what is old.
Sync ==
    /\ ~synced
    /\ synced' = TRUE
    /\ UNCHANGED <<shown, loaded, stale, ready, fresh>>

Follow ==
    /\ synced /\ news
    /\ shown' = named
    /\ stale' = 0
    /\ loaded' = TRUE /\ ready' = TRUE /\ fresh' = TRUE
    /\ UNCHANGED synced

Repeat ==
    /\ synced /\ ~news
    /\ stale' = IF loaded /\ stale < StaleMax THEN stale + 1 ELSE stale
    /\ ready' = (loaded /\ stale < StaleMax - 1)
    /\ UNCHANGED <<shown, synced, loaded, fresh>>

Vblank ==
    /\ quiet < TickGap
    /\ Sync \/ Follow \/ Repeat
    /\ news' = FALSE
    /\ quiet' = quiet + 1
    /\ UNCHANGED <<named, game, tick>>

\* The first read may well find another counter than 0.
Reset ==
    /\ shown' = 0 /\ synced' = FALSE /\ loaded' = FALSE
    /\ stale' = 0 /\ ready' = FALSE /\ fresh' = FALSE
    /\ UNCHANGED <<word, game, tick, quiet>>
-----------------------------------------------------------------------------
Next ==
    \/ Draw \/ Clear \/ Hand \/ Publish
    \/ TickRead \/ TickStore
    \/ Vblank \/ Reset

Spec == Init /\ [][Next]_vars

\* The keepalive is a thread with nothing to wait for, the FPGA has a clock, and
\* once it has begun a picture the game thread runs on to its publication.
FairSpec ==
    /\ Spec
    /\ WF_vars(TickRead \/ TickStore) /\ WF_vars(Vblank)
    /\ WF_vars(Hand \/ Publish)
-----------------------------------------------------------------------------
(* Properties.                                                             *)

\* The buffer the keepalive is told about is a whole picture, at whatever point of
\* WriteFrame or ClearScreen its tick falls.
HandedIsWhole == full[lastPub]

\* A game thread that publishes nothing for half a second, or never again, blanks
\* nothing: a screen that follows this process goes on showing a picture.
NotBlanked == [][Vblank /\ fresh => ready']_vars

\* When the game thread stops drawing for a load or a wait, the screen settles on
\* the picture it finished last, whatever its last store and a tick's did to each
\* other.
SettlesOnLastPicture ==
    <>[][~Draw /\ ~Clear /\ ~Reset]_vars => <>[](ready /\ shown = done)

=============================================================================
