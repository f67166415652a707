# A verified model of the PICO-8 core for MiSTer

The program is a PICO-8 emulator in two halves. An ARM process (`src/src`, zepto8 under a
MiSTer wrapper) runs the cart; an FPGA core (`src/fpga`) shows the picture, plays the sound
and reads the pads. They share a region of DDR3. This directory holds TLA+ models of the parts
in which several actors, processes or restarts meet and of the calculations with the most special cases, the TLC
configurations that check them and proofs that TLAPS checks. Paths below are relative to `src/`, and the sources are abbreviated:
MM `src/mister_main.cpp`, VM `src/pico8/vm.cpp`, NV `src/native_video_writer.c`, RD
`fpga/rtl/pico8_video_reader.sv`, UI `fpga/rtl/replay_slot_ui.sv`, HS
`games/PICO-8/_handler.sh`, BIOS `games/PICO-8/bios.p8`.

## 1. The system

### Components, state and operations

| Component | Where | State it keeps | Operations | Model |
|---|---|---|---|---|
| Recorder sessions | MM 157-225, 897-1605, 2413-2821, 2937-3228, 3239-3767; HS | mode, slot, frames, path of the take; marker files in `/tmp`; `.inp` files on the card; `Z8_TEST_SEED` | Record, Stop, Play, Load Replay, Play Replay, reset, quit, shutdown, hot-swap, respawn, arm, capture, cap | `Recorder` |
| Save isolation | MM 455-541, 775-896; VM 1179-1276; `src/textfile.cpp`; `src/pico8/private.cpp` | real saves, `.armsnap`, `.scratch`, payload of a take, `Z8_SAVES_DIR`; cartdata in memory with dirty flag and age | arm a recording or a replay, cartdata, poke, tick, cstore, load a sibling, stop, end, swap, quit | `SaveIsolation` |
| Pause menu | BIOS 120-330, 590-1010 | open or closed, submenu, prompt, cursor, button masks | a frame of the menu; its rows | `MenuFrame`, `PauseMenu` |
| Replay of the menu | BIOS, MM | the same, twice | one recorded input drives both runs | `ReplayParity` |
| Replay slot pickers | UI, RD, NV 830-860, MM 916-940, 3379-3460 | the OSD's setting, the core's slot, two DDR3 words, sequence numbers, the recorder's slot and its marker file | OSD move, press in the pause menu, push to Main, poll, Play Replay, RESET, respawn, hot-swap | `ReplaySlot` |
| Frame publication | NV 41-110, 600-760; RD 795-860; MM (keepalive thread) | two buffers, control word, `nv_last_published`, the reader's count of stale frames | write a frame, clear, keepalive tick, vertical blank, RESET | `FramePublish` |
| Input streams | MM 2937-3228, 384-452 | buttons, mouse and text of every frame, identity manifest | capture, inject, take over, open a cart file | `InputReplay`; length only in `Recorder` |
| Savestates | VM 1264-1672, MM 2848-2900, `fpga/rtl/savestate_ui.sv` | `.ss` files per base name and slot; the request word and its number | request, RESET, save section by section, stage, apply, start another cart | `SaveState` |
| Cart files | VM 495-628, 2330-2348; BIOS 308-422, 511-598; `src/pico8/cart.cpp` | the file object and its name, breadcrumbs, the entry cart, the sandbox of globals | mount, `load()`, go back, `run()`, a frame | `CartFiles` |
| Notice band | NV 394-505, 585-640 | text, deadline, generation, what each buffer has painted | post, paint, expire, wipe | `NoticeBand` |
| Audio ring | NV 862-889, MM 1820-1832, RD 650-715 | samples, a pointer for each side, copies of it | render, write, poll, burst read, tell, time out, RESET, respawn | `AudioRing`, `SampleQueue` |
| Cart browser | `src/cart_browser.h` | folders, entries, cursor, window, held direction | keys, buttons, axes, repeat, enter, go back | `CartBrowser`, `Console` |
| Sound | `src/pico8/sfx.cpp` | four channels, the music | `sfx()`, `music()`, the audio thread's steps | `Sound` |
| Graphics | `src/pico8/gfx.cpp` | screen, sheet, map, draw state | calls that set, calls that draw | `Shapes`, `Drawing` |
| Code formats | `src/pico8/code.cpp` | none | compress, decompress | `CodeCodec` |
| Cart parsing, dialect, synthesis of waves, Lua | `src/pico8/*`, `src/synth.cpp` | single-threaded data | | not modelled |
| Video timing, memory controllers, framework, libraries, tools, CI | `fpga/`, `src/3rdparty`, `tools/`, `.github` | | | not modelled |

### How they interact

- *Process to process.* Record, Play, Load Replay, Play Replay and a reset leave marker files
  (`recmode`, `recslot`, `playfile`, `recwarn`, reset marker), then `_exit(0)`. A daemon runs the handler, which
  sorts the markers out and execs a new binary; that one waits for a cart, mounts it and arms itself.
- *ARM to FPGA.* The ARM writes pictures, a control word (buffer, frame counter), a status word
  (replay slot, sequence number) and audio samples; nothing is acknowledged.
- *FPGA to ARM.* The core writes pads, its slot with a sequence number, savestate and Play events
  once per frame; the ARM polls some of them every frame and some every 30.
- *Core to Main.* MiSTer's Main keeps the OSD settings; the core can push a setting back.
- *Within the process.* The game thread, the keepalive thread and the audio thread share
  `nv_last_published`, the frame counter and the control word; the game and the audio thread share the sound
  channels, with no lock. The rest belongs to one thread.
- *Menu to recorder.* The pause menu is Lua in the cart's VM. It reads the recorder's mode, and its
  rows call back into MM by name (`extcmd`).

### What is hard here

Requests live longer than the process that took them; any process can die between two writes; any
write can fail; the same menu runs in two modes that show different rows and must agree button for
button; two pickers on two machines each echo the other; memory shared with the FPGA survives both the
process and a reset of the core; two threads and a reader meet on one word without a lock; a RESET of the core forgets half of what the two sides
have agreed on; two threads set one piece of music at the same time; a load may be refused
half way up a list of names; a file may end anywhere; fast paths of the drawing calls must do what the slow ones do. The list, line
by line, is `hazards` in `PROJECT.json`.

### What makes each part correct

- Recorder: a session is the one that was asked for, on its cart, slot and file; a take changes only
  under its own recording; nothing captured is lost without a word; a request is answered.
- Save isolation: a replay sees the saves the recording saw; a cart uses one directory while it
  runs; a take carries only what its run opened; a session does not touch the user's saves.
- Menu: a press that opens or closes it does nothing on the other side; nothing stays half open; a
  replay goes through the menu as the recorded run did.
- Slot pickers: a press is not reverted, invented, or seen twice; left alone, all show the same.
- Input streams: a replay hands the cart what the recorded run was handed, or stops; what is written can be read.
- Frame publication: what a keepalive shows is whole; a screen with a live process does not blank;
  it settles on the last picture.
- Savestates: a load brings back the whole of the moment last saved, or nothing; of another cart's state a second load does; a command is taken up once, by the process it was given to.
- Cart files: the running program has its own globals; going back lands in the cart that was left, or the mounted one.
- Notice band: a picture that is handed over has the whole of the notice, and nothing of an older one.
- Audio ring: what is rendered is heard, in order, and again so after a RESET; the two sides do not wait for each other.
- Cart browser: the cursor is on a row that is shown; what repeats is what is held.
- Sound: an effect has one voice; an effect that has an end comes to it; a pattern that one thread has set, alone, has something to play and ends.
- Graphics: nothing outside the window or in other bitplanes changes; ways of drawing the same thing agree.
- Code formats: a text comes back; the packer's prices are real.

## 2. The modules

Each specification has its properties at the end; `SoundInvariants` the two inductive invariants of `Sound`; `MC*` modules give the constants of a
TLC instance, some of them of two specifications that share nothing (a behaviour is of one of them, which spares a run
and no behaviour); `*Proofs` modules hold the theorems. A definition that is marked *Mutant* is a plausible bug,
not part of the specification: putting it in place of the definition after it breaks the property that
`PROJECT.json` pairs it with.

**Recorder.** `pc` says where the process is: `down` (none), `wait` (no cart), `start` (cart chosen, before the
arm block), `game`, `arming` (writing markers), `swap`, `quit`. `tmp` are the markers, `todo` the marker writes still due
before `_exit(0)`, one action (`ArmWrite`) each, so that a crash can fall between any two. `Handler`, `Mount` and
`StartCart` are the respawn; `StartCart` is the arm block (MM 2595-2821) as one action, for it is one thread and nobody
looks at its middle. `takes` is the slot library. `ask` is a history variable: the request the next session has to
answer. Markers named in `Unwritable` may fail to be written, in which case `fopen` leaves them truncated; `SwitchInRespawn` lets the user leave the
core while a respawn is due.

**SaveIsolation.** `real`, `armsnap`, `scratch` map a save file to its content (one value); `env` is whether `Z8_SAVES_DIR`
is set, and paths are resolved through it at every use, as in the code. A copy may lose any files, a write may leave the old file or
an empty one. `seen` is a history: what the session found when it first opened a file. `HotSwap` and `SwapEnds` are apart
since the cart steps once more between them.

**MenuFrame, PauseMenu, ReplayParity.** `MenuFrame` is one frame of the BIOS main loop as a function from
menu, mode and input to the next menu and what it asks for: button poll with masks, pause trap, prompt, submenu, rows.
`PauseMenu` puts it under a mode that changes; `ReplayParity` runs it twice on the same input, in modes 1 and 2. Submenus
share a cursor as in the code; auto-repeat is an input bit, the same for both runs. Pressing X and O together on the
"yes" row raises a Lua error in the code; the request is dropped in the model as it is there.

**InputReplay.** One take: a recording that makes it, then replays of it, while the user replaces or removes cart files between. One action is
one frame of the input choke (MM 2955-3227) or one cart file opened (VM 540-557). A button is a member of a set, the mouse a word, typed text a short sequence; a file is the
content its hash stands for. A cart is a function of what it is handed, so a replay opens the files the recorded run opened, at the same frames. `saw`, `opened`,
`fed`, `drift`, `resting` are histories. Typed text beyond `TextMax` is dropped without a word (MM 3002), so `SameInputs` speaks of text only below it.

**ReplaySlot.** Main (`osd`, `push`), core (`slot`, `lastOsd`, `armSeq`, `rsSeq`), the two DDR3 words (`word` from the core, `ctrl` from
the ARM), the ARM's poll, and the marker file that carries its slot into the next process. A poll does one of three things: it sees no Play, or refuses it (`Poll`); it accepts one, takes the slot, and
cannot write the marker for the replay (`PollCommits`); or it ends the process (`PollPlays`). `Swap` is a cart picked on the OSD while the process lives: the arm block reads the marker once more. A write of the marker may leave the new slot, the old file or an empty one (`Noted`).
`mover`, `pressed`, `asked` are histories. DDR3 and the marker are arbitrary when the core loads.

**FramePublish.** `main` is the game thread's place in `WriteFrame`, `tick` the keepalive's (it reads `nv_last_published`
in one step and stores in another), `Vblank` the reader. Of the frame counter the reader asks only whether it differs from
the last; both writers take unique values from an atomic increment, so `news` is a bit. The reader may be in any state when the process starts.

**NoticeBand** is on top of `FramePublish`: a row is a line of the message, and `rows` says of what a line of a buffer is, the picture, an older picture, black
or a message by its generation. `Copy` and `Overlay` are apart, since the deadline can pass between them (`End`).

**AudioRing, SampleQueue.** Either side has its pointer and an old copy of the other's. A sample is a number, counted by the thread. A fetch is planned with the write
pointer from before the poll it follows, as in RD; a burst can time out with part of it heard. `SampleQueue` is what the listener is promised, a queue: `HearsAll` is
`SampleQueue!Spec` with the queue taken to be what lies between the FPGA's pointer and the writer's. So the detailed module implements the abstract one, timeouts, respawns and RESETs included.
A respawn sets the thread's side to 0 and leaves the FPGA's, a RESET of the core (`CoreReset`, RD 451-455) the other way round. From there the two are not in agreement: the FPGA fetches from the start of the ring, the thread writes on by the pointer it was told of before (`lost`, a
history). They agree again when the FPGA tells of a pointer that the thread can go by (`Agreed`: the FPGA's copy of the thread's pointer is not ahead of it, and a render under way overtakes nothing), which `TellRptr` decides. To the listener the link is then `lost`: what was waiting is gone, what is heard may be anything, and once the link is `up`
again the queue starts from what the ring holds and all that is pushed is heard in order.
One assumption about time is in `ThreadStart`: the FPGA, which polls some hundred times a frame, has seen the new pointers and has told of its own before the audio thread of a new process
writes its first samples, with the creation of the VM and the load of a cart in between. Without it the ring is announced as empty at 0 while the FPGA reads on from where it was.

**CartFiles, SaveState, Console.** `CartFiles` has the file object (`name`, `code`) apart from what runs, as in the code: `init_filename` names the object
before the file is opened. A path is a base name and an extension; `Tries` is the order of names in the BIOS `load()`. `Leave` is the frame in which a cart goes elsewhere, `Tick` any other. The first tick of a cart that was `created` overwrites memory and globals, whatever was put there before. `Reset` is `vm::reset`,
which only a failed `Back` reaches; the menu's Reset Cart ends the process and is a `Start`. `SaveState` adds files of four sections, a write that ends after any of `Cuts` of them, and the
request word. It belongs to the FPGA, and a new process finds the old one in it; a RESET of the core zeroes it. A state of the running cart is put into it; one of another cart makes that cart `created`, so that its next frame begins it and what was restored is overwritten: the "known UX wart" of VM 1500-1513, which takes two presses. `Console` puts `CartBrowser` before it.
`failed`, `last`, `asked`, `recalled` (the file last loaded, whether twice in a row, whether the program goes on from it) and the `from` of a breadcrumb are histories.

**CartBrowser.** `Contents` lets a folder be another each time it is opened. Window and cursor are indices from 0. Axis events come one at a time; when a held direction repeats is left open.

**Sound.** What the two threads share is `mem`, a field of a channel or of the music to a place: a sound is what is played and how far, in ticks. There is no lock (`sfx.cpp` 629 has it as still to do), so a step is the code between two tests: it reads what it tests and
what it computes with, and its stores are then under way (`pending`), all of one channel or of the music; they come to memory one by one, in any order (`Land`), before that thread's next step. The other thread may step anywhere in between. So `set_music_pattern`, which both run, is `StopSound` for each channel, `SetPattern`, and `StartSound` for each;
`music()` sets mask and fade before; `sfx()` looks at each channel (`Once`) and then launches (`PlayOn`); the audio thread's music is `AdvanceMusic` (offset and volume) and `Decide` (is it over?), its channels are `Relaunch` (a sound that waits for an effect) and `Update`. `pc`, `todo`, `goal`, `play`, `beat` are the threads' places and locals.
Two histories name the races the code really has: `torn`, both threads are setting the music at the same time, and `crossed`, the channels where two launches have met.

**Shapes, Drawing.** A call in one colour is a set of points, a sprite a function of points; `Drawing` keeps the state that calls leave to later ones. `HLine` has the two paths of the code, two points to a byte and point by point. Fixed-point
steps of a line are rounded as in the code. Colours are numbers of four bits, of which `Planes` takes the common ones, the code's `&`; the walk of a circle is a function of the round it is in.
`Clip` wraps to 16 and then to 8 bits as `clip` does (`Short`, `Byte`), so a window may end past the screen. Rows of the screen follow each other in memory: a point `k` screens past the end of its row is in the `k`-th row below (`Name`, `Drawn`). `OnScreen` says that this does not happen, `Reached` is where such a window leads.

**CodeCodec.** Texts are sequences of bytes, streams sequences of bits. The packer's search is the code's: nodes of a graph with weights, the move-to-front table rolled back to the best path; what the suffix array finds is any common prefix.
A loop is a function of the number of its rounds (`Relaxed`, `Unwind`, `Replay`, `ReadPxa`, `OldWritten`, `ReadOld`), so that it can be reasoned about. `Written` has what is written on the best way to every node; the stream is that of the last one, which is the path of `compute_path`.
A reader of bits that runs past the end gets zeroes, as in `get_bits`. What `std::regex_replace` does to a text of the older format is `WithoutJunk`.

## 3. The runs

| Run | Shows |
|---|---|
| `recorder` | `SessionAsAsked`, `PlaysOwnTake`, `TakesWrittenAsAsked`, `NoSilentLoss`, `RequestAnswered` (liveness), with crashes, core switches and unwritable slot markers |
| `saves` | `PlaysRecordedWorld`, `OneSaveDir`, with failing copies and writes |
| `menus` | `NoEcho` of one menu in every mode; `InStep`, `SameCommands` of a recording and its replay |
| `input` | `SameInputs`, `TakeIsSound`, `NoFrameAfterDrift`, `RestingHandsLetItPlay`, with changing cart files, take-over, cap and text limit |
| `slot` | `PressNotReverted`, `PushWasPressed`, `PlayWasPressed`, with failing marker writes, hot-swaps, RESETs and respawns |
| `slot_agree` | `PickersAgree` (liveness): left alone, the OSD, the core and the ARM settle on one slot |
| `frame` | picture: `NotBlanked`, `BandIsWhole`, `SettlesOnLastPicture` (liveness); sound: `HearsAll` (refinement), `NoneWaits`, with timeouts, respawns and RESETs |
| `sound` | `OneVoicePerEffect`, `PatternHasTime`, `EffectEnds` and `FadeOutEnds` (liveness) |
| `algorithms` | drawing: `DrawsInsideWindow`, `FillsExactly`, `LineAnyWay`, `SpritesAgree`; code: `RoundTrip`, `CostIsReal` |
| `console` | `GlobalsOfProgram`, `LoadIsAllOrNothing`, `SecondLoadStands`, `NothingUnasked`, `BackLands`, `CursorShown`, `RepeatFollowsPad` |
| `saves_swap`, `console_active` | a claim of the documentation or of a comment that the code does not keep, see section 6 |

Deadlock is checked in `recorder`, `saves`, `saves_swap`, `input`, `menus`, `slot`, `slot_agree`, `frame` and `sound`. The texts and pictures of `algorithms` end at their bound, and the engine
of `console` does not run once the user has left the browser. Type invariants are not checked by a run of their own: those of the modules with proofs are theorems or parts of the inductive invariants.

### Bounds, and why they are enough

- *Recorder*: two carts (one asked for, one mounted instead), two slots, one sent take, takes of one frame (below
  the cap, at the cap). Which cart, slot and file a session has matters, not how many there are; the proofs confirm that
  no larger number behaves otherwise.
- *SaveIsolation*: one cartdata id and one overlay, so two files that are opened and written independently, two contents. The frames
  between two writes, 640 in the code, are 1 or 2: a tick is due or it is not.
- *Menu*: one row from the cart, breadcrumbs on, held sets of the buttons that the menu tells apart (down, O, X, start, O with X).
- *InputReplay*: one button, two words of the mouse, no or two characters a frame, two files in two versions, two frames, three files opened: the second text exceeds
  the limit of three characters, the third file can match after the second did not. One recording that writes a take; cart files stand still while it is made (the proof needs that as well: the manifest
  keeps the first content it saw). Words of the mouse and versions are symmetric, for they are only compared.
- *ReplaySlot*: two slots; sequence numbers modulo 3 instead of 256. A picker does not make so many presses between two looks
  that the number comes round (guards of `OsdPlay` and `SlotPress`): nobody presses 255 times in one frame. A poll is due every second frame instead of every 30th. A second change of the OSD's slot under one RESET, which the core does not see (section 6), is in `slot` and left out of `slot_agree`: with `TwiceUnderReset = TRUE` `PickersAgree` is violated. `Plays` is off there: a Play is a move of the ARM's slot by the OSD, which `slot` has.
- *FramePublish*: the screen blanks after 4 stale frames instead of 30, and the keepalive is at most 4 apart: 150 ms are 9 frames, so the code
  has more room than the model. A notice of one or two lines, two of them in a process: one replaced by a shorter or a longer one.
- *AudioRing*: a ring of 6 cells, renders of 1 and 3 samples, bursts up to 4: either side goes round, a burst is cut at the end of the ring, the ring is full, and a sample is left alone behind the last
  pair. Samples are numbered modulo 7, more than the ring holds, so no two in it are alike.
- *Sound*: two channels, two calls of the cart, effects of two notes (one that loops, one that is cut short, one of speed 0), a song of three patterns that loops back, has a pattern with nothing to play, and stops. The fields of a channel or of the music come to memory in two parts, in either order
  (`Together`), which is enough for the other thread to see half of them; `Songs`, `Shots` and `Chosen` are the arguments. Two calls reach every race with a launch or a pattern of the cart in it; that two channels play one effect after a crossed launch takes three (`music(0)`, and two `sfx` while the audio thread starts the next pattern), so the exception for `crossed` is the proof's.
- *Algorithms*: a 16 by 16 screen with sprites of 4 by 4 points, one setting and one call with it: coordinates are before, in and past the screen at each edge and of both parities, and every path of a call is taken. Two of the windows end past the screen, one by a negative far side and one by the wrap of 16 bits. Texts of up to four words out of five and 50 bytes: they
  are made so that copies, stored blocks and lengths of a reference up to a third group of bits pay off, one that ends with a group among them. Near references are all that 50 bytes have; the other two classes of offset are in the proofs.
- *Console*: one base name with two files of its own (`.p8` and `.p8.png`, which share their states), a level that is there as a picture only, a name that is not there; one slot, writes that end half way or at the end, one breadcrumb. The request
  number is modulo 2: only its equality with the last is asked. A window of two rows over folders of up to five items, two folders deep.

### Fairness

`Recorder`: WF of the respawn, the processor and the daemon run on; user and crashes owe nothing. `ReplaySlot`: WF of the core's frame write and read, of
the release of RESET, of Main taking a push and of the ARM's poll; each is a clock, a loop without a wait, or a user letting go of a button. `FramePublish`: WF of the keepalive (a
timer thread that takes no lock), of the vertical blank and of the straight-line code from the last pixel to the publication. `NoticeBand` keeps that, with the overlay as one more such step. The fairness of `MCFramePublish` is the picture's
alone: it says nothing of behaviours of the ring, whose properties are safety. `Sound`: WF of the audio thread, a thread of its own that waits for nothing but room in the ring (`NoneWaits`); the cart owes nothing.
No strong fairness is used, and no action of a user is fair.

## 4. The proofs

All hold for every value of the constants that meets the named assumption of the module.

| Module | Theorems | Argument |
|---|---|---|
| `RecorderProofs` | `TypeCorrect`, `SessionAnswersRequest`, `ReplayPlaysOwnTake`, `CapFailureIsRetried`, `SeedFollowsSession`, `TakesOnlyAsAsked`, `CapturedOrTold` | `IInv == TypeOK /\ CartKnown /\ SessionInv` |
| `SaveIsolationProofs` | `TypeCorrect`, `KeepsSaveDir`, `TakeIsScoped`, `ReplaySeesRecordedWorld` | `IInv == TypeOK /\ Sessions` |
| `MenuProofs` | `MenusInStep`, `CommandsAgree` of `ReplayParity`; `NoPressEchoes` of `PauseMenu` | `IInv`: a take not lost has both menus settled and alike, and the same commands; `Echoing` |
| `ReplaySlotProofs` | `TypeCorrect`, `PressesStand`, `PushesWerePressed`, `PlaysWerePressed` | `SlotInv`; `PlayInv` on top of it |
| `InputReplayProofs` | `TypeCorrect`, `WhatIsWrittenIsRead`, `ReplayIsTheRecordedRun`, `DriftStopsTheReplay`, `TakeOverNeedsAPress` | `IInv == TypeOK /\ Limits /\ Manifest /\ Hands`; `Mirrored` for `ReplayIsTheRecordedRun` |
| `NativeWriterProofs` | `TypeCorrect`, `KeepaliveIsHandedWhole`, `KeepaliveHolds` of `FramePublish`; `NoticeKeepsPictures`, `BandAlwaysWhole` of `NoticeBand`; `NoneEverWaits`, `AllIsHeard` of `AudioRing` | `IInv == TypeOK /\ Buffers /\ Following`; `BandInv`; `RingInv` |
| `EngineProofs` | `OneVoiceAlways`, `PatternAlwaysHasTime` of `Sound`; `DrawingTyped`, `WindowsEndOnScreen`, `NothingDrawnOutside`, `RectanglesAreFull`, `LinesGoAnyWay`, `SpritesAreTheSame` of `Drawing`; `TextsRoundTrip`, `CostsAreReal` of `CodeCodec` | `OneVoiceInv`; `MusicInv`; `DrawingInv == Pictures /\ LastCall`; `IsText` |
| `ConsoleProofs` | `GlobalsAlwaysOfProgram`, `BackAlwaysLands`, `LoadAlwaysAllOrNothing`, `SecondLoadAlwaysStands`, `NothingEverUnasked` of `SaveState`; `CursorAlwaysShown`, `RepeatAlwaysFollowsPad` of `CartBrowser`; `ConsoleKeepsPromises` of the two together | `StateInv`: types, `NamesWhatRuns`, what the files hold, the number last seen, `Recalled`; `BrowserInv`, `PadInv`: types, the window about the cursor |

*Recorder.* What a session is depends on markers written by a process that is gone, so the invariant has to speak of what the
markers mean before anybody reads them: whenever a reset marker is down, slot and mode markers spell the pending request
(`MarkersMatch`); while markers are being written, those still to come complete it (`ArmingPlan`); with no session, nothing of one is set
(`NoSession`). All but type correctness assume `Supported == Unwritable \subseteq {"recslot"} /\ ~SwitchInRespawn`: the slot marker is the one whose
write the code checks, and section 6 says what happens without the rest.
`CapturedOrTold` comes from the five ends a recording can have (`RecordingEnds`): each writes the take, or sets one of the two notices that say it is gone.

*SaveIsolation.* A replay may differ from its recording only if the directory it opens differs from the payload, or the payload from
what the recording opened. `OpenedFromBase` ties what a session first saw to the copy it started from, `TakeFaithful` carries that into the take. No
assumption on failures: a session that could not be prepared completely is refused.

*ReplayParity.* In step means equal but for the cursor of the recording submenu, the one place where the rows differ; the invariant says
that this cursor decides nothing a recorded run and its replay do not both do.

*PauseMenu.* `Echoing`: of the buttons that have been down since the menu last opened or closed (`echo`), none is out of the mask (`free`). A poll frees a button only when it finds it up, and a button that is up has left `echo`.

*ReplaySlot.* A press is followed from the control word into the core and back: the word for the core names it (`PressInWord`), it is on its way or has got there, and what Main has still to take is that press (`PressStands`, which needs to know when the core
follows the OSD, `Tracking`), the core tells of it before it reads again (`TakenIsTold`), and until it is told of, it is less than two frames since the ARM looked (`PressComesBack`). Hence `MinFrames > 1` in `PressesStand`: with a poll on every frame, the ARM would read the slot the core told of before it saw the press, and take its own press back. The code polls every 30 frames (MM 3241).
The property is of every poll, those that accept a Play among them. One case is left, and named in it: Play pressed on the OSD in the half second after the press in the pause menu, before the OSD can show it. The word then has the older slot and an order to use it, and the recorder goes by the order
(section 6).
`PlayInv` says of every place a Play can be in (the core's command, its DDR3 word, the ARM's last number) that it was pressed.

*InputReplay.* `Limits` carries the bounds of the reader through the writer; `Manifest` says that what a take vouches for is what the run saw, so that a drift and the verdict against it
fall into one step; `Mirrored` relates the streams to what was handed over, frame by frame, from the recording through the card into the replay, and knows where the mouse was, for the cart
sees its motion too. `ReplayIsTheRecordedRun` assumes `~SplitOom`: no allocation fails between the pushes of one frame (section 6); the other theorems do not.

*FramePublish.* `Buffers`: the buffer being drawn is not the one the keepalive was told about. `Following`: the stale count is bounded by the frames since the
keepalive's last store, which `TickGap` bounds by `StaleMax`.

*NoticeBand.* Every step of it is a step of `FramePublish` or none (`NoticeStepIsStep`), so what is proved there holds here. `BandInv` adds what the marks of a buffer promise: rows that the copy leaves out are rows of the message that the mark names (`Marks`), for as long as that message stands (`BandStands`), and
between copy and overlay they are the only ones missing (`CopyLeft`).

*AudioRing.* While the two agree (`Linked`), all of `RingInv` is about four positions in one circle: what the FPGA has read, the writer's old copy of that, what the writer has written, the FPGA's old copy of that. `Pointers` says that they come in this order on the circle, so that each side's idea of what is there is on the safe side; `Fetched` and `Writing` that neither a burst
nor a render is written over before it is whole. After a RESET only types and what is planned are kept (`RingTypeOK`, `Fetching`, `Told`), and `Agreed` gives the rest back: `FpgaKeeps` shows that those four positions are then in order again. `NoneEverWaits` reads off it that a full and an empty ring are never mistaken for each other, and, after a RESET, which ring it is that both wait at (section 6). `AllIsHeard` is the refinement: the queue is what lies between the FPGA's pointer and the writer's (`Unread`), `RingInit` maps to its initial state, and each of the ring's actions to a push, a pop, what a timeout makes heard twice, a new process, a link lost or back, or a stutter.

*Sound.* `OneVoiceInv` follows an effect from the call into memory. While `sfx()` looks at the channels, those it has looked at do not play the effect, or its store that stops them is under way (`StoppedElsewhere`); what it then launches plays nowhere else, with its stores under way in any order (`LaunchedOnce`); the audio thread launches only sounds of the music (`Launches`),
and its `Update` moves a sound on or ends it, but never names another. A channel with stores of a launch under way is not `Whole`, and a channel where two launches have met (`crossed`) can end up with the sound of one thread and the `is_music` of the other: of these two the property does not speak, for there the code does what it likes (section 6).
`MusicInv` says that as long as the music is not `torn`, at most one thread is in it, and, seen through that thread's stores under way (`Seen`), the pattern has time left (`LastsFor`); between `AdvanceMusic` and `Decide` the offset may be at the end (`Deciding`). It is torn from the step in which the second thread comes in, until a thread sets a pattern alone.
The length of a pattern is the least or the largest of a set of numbers, which is one only because the channels are finitely many: `Largest` proves it by taking away one element after another, an induction over the proper subsets of a finite set written as a minimal counterexample.

*Drawing.* `DrawingInv` is the draw state a call can find: a window no larger than the screen, colours of four bits, and the last call with 16-bit coordinates. The work is in what one call draws. Every shape is cut to the window by `Dots`, `HLine` or `VLine` (`DotsInWindow`, `HLinesInWindow`, ... one lemma to a shape), every image by
`Image`, and `PlanesStand` says, bit by bit, that mixing a colour into some planes leaves the others. `RowIsARow` shows that the path of two points to a byte draws the row, whatever the parity of its ends; `RectFillIsABox` adds up the rows. `LinesGoAnyWay` compares the walk that is cut with the whole one point by point (`WalkCut`), which needs coordinates of 16 bits: past them the minor coordinate comes round.
`SprIsMap` needs the division by the size of a tile undone (`InCell`). The walk of a circle is a recursive function; that it has one value for every number of rounds is proved by counting up (`Counting`), which is an induction over a set, not over an operator, as a minimal counterexample again.
A window may be any four numbers. `WindowsEndOnScreen` says when it ends on the screen: when its far sides, `x + w` and `y + h`, are neither negative nor more than a cart's number holds (`Tame`). There nothing outside it is drawn. Through any other the call draws what the rows of the window run over into, and nothing else: that is `Reached`, and
`NothingDrawnOutside` holds of both. The theorems about which points a rectangle, a line or a map draws speak of windows that end on the screen (`OnScreen`), for past it the walk by points, which looks at a point's own place, and the walk by bytes do not agree. `Side` is at most 255, for a window's side is a byte (128 in the code).

*CodeCodec.* The invariant is only that a text is bytes other than 0 and short (`IsText`); the work is in what the two sides compute from it, and every loop is an induction over its rounds by `Counting`.
`TextsRoundTrip` goes in three layers. Bits: a number that was put is got (`GetsWhatWasPut`), a field stands where those before it end (`FieldStands`), and so each of the three pieces of the stream is read as it was written, wherever it stands (`ByteIsRead`, `BlockIsRead`, `ReferenceIsRead`, `CopyIsRead`).
The graph: every round of the search (`IsStep`) leaves a node as it was or gives it a cheaper way that the text allows (`IsWay`: one byte, a block, or a true copy at a distance that fits), and reaches the next node (`RoundsReach`). No way weighs as much as `INT_MAX`, for the bound on lengths is 65535 (`ReachedHaveWays`): so every node on the path has a way into it, and no sum of weights overflows.
The path: on the way from any node the reader has the text up to it, and the list of recent bytes the writer had (`IsRead`, `PathIsRead`); it stops where the text is complete. For the older format it is the same with bytes for bits (`OldPathIsRead`).
`CostsAreReal` is about the roll back. `ways` names the list, with its undo stack, on the best way to each node. Before round `i` the search has the list on the best way to `i - 1` with byte `i` moved to the front; `PopUndoesPush` lets `Unwind` take moves back in the order they were made, `StepBackIs` says that it always has the list of the node on the right and the chain of nodes on the left, `UnwindMeets` that
the two meet within `2 * i` steps, and `ReplayArrives` that replaying the chain ends at the list of `i` (`HereIs`). A node before `i` never changes again (`NodesAreSettled`), so the price paid then is still the right one at the end (`GraphIsCosted`), and the writer has the same list there (`ListsAgree`).
A stored block is left out of it: its cost has a penalty that no bit stands for.
In both the texts are what the header has room for (`MaxLength` up to 65535), and the words are any.

*Console.* The window follows the cursor after every move, and a folder that is opened starts at the top; that the window never shows an empty row below the list is the one part that needs all the others.

*SaveState.* `NamesWhatRuns`: as long as a file object's name can be read, it holds that cart, and what it holds runs. A complete file is the last moment that was saved under its name (`n = Sections`), with the cart's name of that time; it can be taken for a
state of the running cart only if the names agree. `Recalled` is for `SecondLoadAlwaysStands`: once a file was loaded, and until anything else happens than frames of its program, the file object has the name that the file has; so a second load is of the running cart, and when the first frame has come between, that program is not `created` any more.
`~failed`, in `GlobalsOfProgram` and where `LoadIsAllOrNothing` says that a running program goes on from its own state, is there for section 6.
`ConsoleInv` is the conjunction of the invariants of the two parts; `Launch` is the one step in which they meet.

**Model-checked only**: liveness (`RequestAnswered`, `PickersAgree`, `SettlesOnLastPicture`, `EffectEnds`, `FadeOutEnds`): the prover does not handle fairness and `ENABLED`. Every safety property that a passing run checks is a theorem. Proved and in no run: `TakeCarriesOwnSaves` (`TakeIsScoped`), which `PlaysRecordedWorld` needs, and `CapFailureIsRetried`.
The induction theorems of the library, over operators, cannot be used; where an induction was needed it is one over a set (`Counting`, `Largest`). That circles and ovals are round is not claimed anywhere: of them it is proved that they stay in the window. That the packer's path is the cheapest is not claimed either: of that it is proved that the costs it compares are those of the bits.

## 5. What the models leave out

- Bytes of the take format and limits on its snapshot payload. In `Recorder` a take is its cart and length; a hash is the content it is of.
- Files that `p8snap_from_dir` leaves out because they cannot be read or parsed (MM 455-541, documented there as a visible desync).
- A menu opened by the cart itself (`extcmd("pause")`), and carts driven by `flip()`: these resume inside their loop with the mask of an older frame, so `NoEcho` does not speak of them.
- The timeout of a DDR3 read of the core and the stale beat after it (RD 760-795), half-written status words.
- Scan-out: the reader fetches lines while the ARM may draw the other buffer, without synchronisation; no document claims that nothing tears.
- A pause-menu press made before the core's first read after RESET becomes its baseline and is lost; one Play press during a respawn is lost to priming. Both are
  in `ReplaySlot` and documented in the code.
- The user may mount another cart between a request and its respawn: the session arms for that cart if its take fits, else is refused. It is in `Recorder` (`Mount`); `ask` follows the mount.
- Savestates: the recording that a load request discards before it is known whether the slot holds a state (MM 2894), what Eris writes of a coroutine, the OSD of the core.
- Cart files: load parameters and `stat(6)`, the BBS download, the file watch. The cstore overlay is in `SaveIsolation`, the manifest in `InputReplay`.
- In `slot_agree`: a second change of the OSD's slot under one RESET (section 6).
- Notices: glyphs and the 32-bit clock. Audio: the output FIFO of the FPGA (it may put off a fetch at any time in the model), a beat that comes after its burst was given up.
- Sound: waveforms, filters, the PCM ring of `serial()`. A thread's stores are in memory before its own next test, and `sfx_music` and the pattern are read once in a step where the code reads them twice (`sfx.cpp` 253-310).
- Graphics: a fill pattern through a window that ends past the screen, and the memory behind the screen that its last rows then reach. `print` and the control codes of text, `tline`, the darkening of the pause menu, the screen mapped over the sheet, `render.cpp`. Code: the limit on the suffix array in "fast" mode, which nothing asks for.
- The parser of `.p8` and `.png` carts, the grammar of the dialect, the Lua machine and the bindings; they transform data without other actors, and are compared with references by the corpora in `tools/`.
- Video timing, memory controllers and the framework of the core, libraries, tools, build: section 1.

## 6. Where the code and its comments part

- `saves_swap`: a hot-swap out of a session writes the session's cartdata over the user's own (MM 3634), which `README.md` 252-254 says are never modified.
- `console_active`: a `load()` that is refused leaves its name on the file object (`cart.cpp` 253), and a state saved afterwards names a cart that was not active (against the comment at VM 1304). It cannot be loaded, or
  starts a cart that was never running.

These are in the models without a run of their own:

- Leaving the core between `_exit(0)` and the handler leaves `recmode` and the reset marker, the handler takes them for a pending request, and the next cart is recorded, unasked (HS 67; with
  `SwitchInRespawn = TRUE` `Recorder` violates `RecordingWasAsked`).
- If only the playfile marker fails to be written, Load Replay plays the slot's take (MM 3343).
- If only `recmode` fails, a reset announces a recording that does not arm (MM 2436).
- A request ends in `_exit`, so that cartdata changed in the last 640 frames is not carried into the recording (MM 2482, `Request` in `SaveIsolation`).
- The mouse is pushed "in the same guarded block, so the two streams cannot end up different lengths" (MM 2997), but a push of the mouse that throws leaves the button in: the last frame of the take is then replayed
  with the live mouse (`SplitOom = TRUE` violates `SameInputs`).
- A cart file that is missing in a replay fails to load, and only files that load are compared (VM 556): the replay goes on (`ReplayOpens`).

Seen while modelling; a module has what the code does, and no run is spent on it:

- After a failed write at the frame cap, the write runs again on every frame (MM 3062); the comment beside it (MM 3086-3092) says that it must not.
- A Play that is accepted but whose marker cannot be written leaves the recorder at the slot of the word (MM 3512), with no replay. After a press in the pause menu that is the slot before it; the next poll puts the press back (`PollCommits`).
- A hot-swap reads the slot marker again (MM 2601). One left by a write that went through while its replay did not come about puts an older slot back, until the next poll (`Swap`).
- After a RESET of the core the FPGA reads the ring from 0 while the thread plays on (RD 451): samples are repeated or skipped until it tells of a pointer that the thread can go by. With the thread's pointer at 0 or 1 and too little room for its next render, by the pointer it was told of last, each waits for the other until the next RESET or process (`NoneWaits` says that this is the only case).
- A second change of the OSD's slot under one RESET is not seen at its release (UI 143, against 114-118; `TwiceUnderReset` in `ReplaySlot`).
- A keepalive tick that is overtaken by a publication stores the older buffer, which is drawn into next (NV 732, against 41-43 and 693-695). `NotBlanked` and `SettlesOnLastPicture` hold nevertheless.
- A notice that ends between a copy and its overlay, in a buffer it was never painted in, shows rows of an older picture for one frame (NV 629; the comment at 633-641 says that neither side shows stale pixels). `BandIsWhole` leaves that case out by `Ended`.
- Going back along a breadcrumb (VM 2330) loads with `m_cart.load`, past the "ONE choke point" of VM 545: no cstore overlay, no entry in the manifest. Going back, and the `vm::reset` it falls back on (VM 2338-2345), keep the user's memory; Reset Cart of the menu is `_exit` and a new process (VM 2224-2254, MM 2413-2464).
- A breadcrumb left under a name that cannot be read makes going back a reset. A load of a state whose cart cannot be read renames the running cart as well; pressed again, it applies that state to the running cart; and a state of the running cart, pressed under a refused name, starts it anew.
- A state of another cart takes two presses: after the first that cart begins, over what was restored (VM 1500-1513 says so). `SecondLoadStands` shows that it is never three.
- A RESET of the core drops a savestate command the engine has not read, and sets its number to 0 (RD 309); a press right after it is missed if the number comes out as the one last seen.
- `title.p8` and `title.p8.png` share their save slots, for a state file has the base name only.
- In the browser, down pressed while up is held, then released, leaves the list running down while up is held (keyboard only; `RepeatFollowsPad` speaks of pads).
- `clip` casts to `int16_t` and then `uint8_t` (`gfx.cpp` 977-980): `clip(-10,0,5,128)` ends at 251 and `clip(300,0,32700,128)` at 232, so a row that is drawn runs over into the next one. `print` with the cursor at 250 or below scrolls by a negative number of bytes.
- `music(-1, len)` before a fade-in has made a step has a fade of step 0, which never ends the music. `sfx(-2)` on a looping effect ends its loop but not the effect: without a length it has no end, and its channel stays taken. A call that ends the music's own effect silences a reserved channel. Channel 4 passes the test `chan > 4`. A song's sound kept waiting (`sfx_music`) outlives `sfx(-1)` and the next `music()`.
- Two threads in the music: the audio thread's offset, counted from what it read before a new `music()`, can be past the new pattern's end (one tick later the next pattern comes); its end of the music over a `music()` of the cart can leave pattern -1 with offset 0 and a mask that stays reserved, or sounds of the music on channels when there is none, which `music(-1)` and `sfx(-1)` then do
  not stop. The pattern is read again after the test for -1, so that `song[-1]` is possible (`sfx.cpp` 253-276). A sound that waits can start after the music has stopped, for the offset -1 is before its end (`sfx.cpp` 283).
- Two launches on one channel (`sfx.cpp` 308, and `sfx()`): the music's sound can be left as the cart's, and the same effect on two channels.
- An effect stored by the audio thread over one just launched moves or wipes the new one (`sfx.cpp` 218): it ends early. `EffectEnds` shows that no channel is lost by it.
- In `pxa_compress`, `graph.prev(i) == i + 1` is never true; nothing depends on it.
- The expression that strips the line PICO-8 added to old carts (`code.cpp` 328) has its parentheses unescaped, so they group and match nothing. `if(_update60)_update=function()...end`, which the comment at 325-327 says is removed, stays in the code; what is removed is a last line
  of the same words without parentheses (`Junk`), and `RoundTrip` has to except that one.

## 7. Plan

1. `SaveState` with the recorder: what a load request costs a recording when the slot holds no state.
2. `TakeFormat` and `VideoScale`: the bytes of the snapshot payload, the limits of the writer against the reader's, and the 128 to 224 line accumulator, as pure functions against reference definitions.
3. `Drawing` with text and `tline`; the parser of `.p8` sections.
