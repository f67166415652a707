------------------------ MODULE SaveIsolationProofs ------------------------
(***************************************************************************)
(* SaveIsolation, for every set of cartdata ids and contents, every period *)
(* of writing and every failure of a copy or a write.                      *)
(***************************************************************************)
EXTENDS SaveIsolation, TLAPS

\* What a session starts from: the saves at the arm, or those a take carries.
Base == IF mode = 1 THEN armsnap ELSE take.snap

\* Outside the game loop there is no session and no redirection; without a cart
\* there is no id.
AtRest ==
    /\ pc # "game" => mode = 0 /\ env = FALSE
    /\ pc \in {"off", "idle"} => bound = NoId

\* A session runs in the game loop, redirected.
SessionRedirected == mode # 0 => pc = "game" /\ env = TRUE /\ isolated = TRUE

\* What a session opened it found as the base has it, and what it has not opened
\* is still so.  The file its cart writes, it has opened.
OpenedFromBase ==
    mode # 0 =>
        /\ \A f \in Files : IF seen[f] = Unseen THEN scratch[f] = Base[f]
                            ELSE seen[f] = Base[f]
        /\ seen[Overlay] # Unseen
        /\ bound # NoId => seen[bound] # Unseen

\* The recorder counts as used the files the recorded run opened.
UsedIsOpened == used = IF mode = 1 THEN {f \in Files : seen[f] # Unseen} ELSE {}

\* A take carries the files its run opened, as it found them.
TakeFaithful ==
    take # NoTake => \A f \in Files :
        take.snap[f] = IF take.seen[f] = Unseen THEN Absent ELSE take.seen[f]

ReplayHasTake == mode = 2 => take # NoTake

Sessions ==
    /\ AtRest /\ OneSaveDir /\ SessionRedirected /\ OpenedFromBase
    /\ UsedIsOpened /\ TakeFaithful /\ ReplayHasTake

IInv == TypeOK /\ Sessions
-----------------------------------------------------------------------------
(* Files.                                                                  *)

\* A wiped directory, into which any files of another were copied, is one.
LEMMA CopyType == ASSUME NEW dir \in Dirs, NEW c \in CopyOf(dir) PROVE c \in Dirs
<1>1. PICK got \in SUBSET Files :
         c = [f \in Files |-> IF f \in got THEN dir[f] ELSE Absent]
  BY DEF CopyOf
<1>. QED BY <1>1 DEF Dirs

\* A write that may fail touches the one file, in the one directory in use.
LEMMA TryWriteFrame ==
    ASSUME TypeOK, NEW f \in Files, NEW v \in Vals, TryWrite(f, v)
    PROVE  /\ real' \in Dirs /\ scratch' \in Dirs /\ armsnap' = armsnap
           /\ \A g \in Files \ {f} : scratch'[g] = scratch[g]
<1>1. PICK w \in Vals \cup {Absent} : WriteFile(f, w) \/ UNCHANGED dirs
  BY DEF TryWrite
<1>2. [real EXCEPT ![f] = w] \in Dirs /\ [scratch EXCEPT ![f] = w] \in Dirs
  BY DEF TypeOK, Dirs
<1>3. \A g \in Files \ {f} : [scratch EXCEPT ![f] = w][g] = scratch[g]
  BY DEF TypeOK, Dirs
<1>. QED BY <1>1, <1>2, <1>3 DEF WriteFile, dirs, TypeOK

\* Saving writes the file of the id the cart has claimed, or nothing.
LEMMA FlushFrame ==
    ASSUME TypeOK, Flush
    PROVE  /\ real' \in Dirs /\ scratch' \in Dirs /\ armsnap' = armsnap
           /\ \A g \in Files : scratch'[g] # scratch[g] => bound # NoId /\ g = bound
<1>1. CASE bound = NoId
  BY <1>1 DEF Flush, dirs, TypeOK
<1>2. CASE bound # NoId
  <2>1. bound \in Files /\ ram \in Vals
    BY <1>2 DEF TypeOK, Files
  <2>. QED BY <1>2, <2>1, TryWriteFrame DEF Flush
<1>. QED BY <1>1, <1>2

\* The same of the save at the end of a frame; its counter stays in bounds.
LEMMA SaveIfDueFrame ==
    ASSUME TypeOK, SaveIfDue
    PROVE  /\ real' \in Dirs /\ scratch' \in Dirs /\ armsnap' = armsnap
           /\ \A g \in Files : scratch'[g] # scratch[g] => bound # NoId /\ g = bound
           /\ dirty' \in BOOLEAN /\ age' \in 0 .. MinFrames
<1>1. CASE Flush /\ dirty' = FALSE /\ age' = 0
  <2>1. age' \in 0 .. MinFrames
    BY <1>1, SaveConstants
  <2>2. dirty' \in BOOLEAN
    BY <1>1
  <2>. QED BY <1>1, <2>1, <2>2, FlushFrame
<1>2. CASE UNCHANGED dirs /\ dirty' = dirty
           /\ age' \in {age, IF age < MinFrames THEN age + 1 ELSE age}
  <2>1. age' \in 0 .. MinFrames
    BY <1>2, SaveConstants DEF TypeOK
  <2>2. dirty' \in BOOLEAN
    BY <1>2 DEF TypeOK
  <2>3. real' \in Dirs /\ scratch' = scratch /\ scratch' \in Dirs /\ armsnap' = armsnap
    BY <1>2 DEF dirs, TypeOK
  <2>. QED BY <2>1, <2>2, <2>3
<1>. QED BY <1>1, <1>2 DEF SaveIfDue

\* Opening a file keeps the types, and what was opened before.
LEMMA OpensFrame ==
    ASSUME TypeOK, NEW f \in Files, NEW v \in Vals \cup {Absent}, Opens(f, v)
    PROVE  /\ used' \subseteq Files /\ seen' \in Seen
           /\ used' = IF mode = 1 THEN used \cup {f} ELSE used
           /\ mode # 0 => \A g \in Files :
                 seen'[g] = IF g = f /\ seen[g] = Unseen THEN v ELSE seen[g]
  BY DEF Opens, TypeOK, Seen, Dirs

\* The directory in use is one.
LEMMA SaveDirType == ASSUME TypeOK PROVE SaveDir \in Dirs
  BY DEF SaveDir, TypeOK
-----------------------------------------------------------------------------
(* Types.                                                                  *)

\* A started cart.
LEMMA RunType ==
    ASSUME TypeOK, NEW m \in 0 .. 2, NEW dir \in Dirs, Run(m, dir)
    PROVE  /\ pc' = "game" /\ mode' = m /\ used' \subseteq Files
           /\ isolated' \in BOOLEAN /\ seen' \in Seen
           /\ bound' = bound /\ ram' = ram /\ dirty' = dirty /\ age' = age
<1>1. Overlay \in Files
  BY DEF Files
<1>2. seen' \in Seen
  BY <1>1 DEF Run, Seen, Nothing, Dirs
<1>. QED BY <1>1, <1>2 DEF Run, data

\* A VM that is gone leaves typed memory.
LEMMA NoVmType ==
    ASSUME NoVm
    PROVE  /\ bound' \in Ids \cup {NoId} /\ ram' \in Vals /\ dirty' \in BOOLEAN
           /\ age' \in 0 .. MinFrames /\ isolated' \in BOOLEAN /\ seen' \in Seen
<1>1. age' \in 0 .. MinFrames
  BY SaveConstants DEF NoVm
<1>2. dirty' \in BOOLEAN /\ isolated' \in BOOLEAN
  BY DEF NoVm
<1>3. bound' \in Ids \cup {NoId} /\ ram' \in Vals
  BY SaveConstants DEF NoVm
<1>4. seen' \in Seen
  BY DEF NoVm, Seen, Nothing
<1>. QED BY <1>1, <1>2, <1>3, <1>4

\* No session is a typed state of the recorder.
LEMMA NoSessionType == 0 \in 0 .. 2 /\ {} \subseteq Files
  OBVIOUS

\* Every step keeps the types.
LEMMA StepType == ASSUME TypeOK, [Next]_vars PROVE TypeOK'
<1>1. CASE StartPlain
  BY <1>1, RunType, SaveDirType DEF StartPlain, dirs, TypeOK
<1>2. CASE StartRecording
  <2>1. armsnap' \in Dirs /\ scratch' \in Dirs
    BY <1>2, CopyType DEF StartRecording, TypeOK
  <2>. QED BY <1>2, <2>1, RunType DEF StartRecording, TypeOK
<1>3. CASE StartReplay
  <2>1. scratch' \in Dirs
    BY <1>3, CopyType DEF StartReplay, TypeOK, Takes
  <2>. QED BY <1>3, <2>1, RunType DEF StartReplay, TypeOK
<1>4. ASSUME NEW id \in Ids, BindCart(id) PROVE TypeOK'
  <2>1. id \in Files /\ SaveDir[id] \in Vals \cup {Absent}
    BY SaveDirType DEF Files, Dirs
  <2>2. used' \subseteq Files /\ seen' \in Seen
    BY <1>4, <2>1, OpensFrame DEF BindCart
  <2>. QED BY <1>4, <2>1, <2>2 DEF BindCart, TypeOK, dirs
<1>5. ASSUME NEW v \in Vals, Poke(v) PROVE TypeOK'
  BY <1>5 DEF Poke, TypeOK, dirs, recorder, history
<1>6. ASSUME NEW v \in Vals, Cstore(v) PROVE TypeOK'
  <2>1. Overlay \in Files /\ SaveDir[Overlay] \in Vals \cup {Absent}
    BY SaveDirType DEF Files, Dirs
  <2>2. used' \subseteq Files /\ seen' \in Seen
    BY <1>6, <2>1, OpensFrame DEF Cstore
  <2>3. real' \in Dirs /\ scratch' \in Dirs /\ armsnap' = armsnap
    BY <1>6, <2>1, TryWriteFrame DEF Cstore
  <2>. QED BY <1>6, <2>2, <2>3 DEF Cstore, TypeOK, data
<1>7. ASSUME NEW v \in Vals, LoadState(v) PROVE TypeOK'
  BY <1>7 DEF LoadState, EndSession, TypeOK, dirs, recorder, history
<1>8. CASE Tick
  BY <1>8, SaveIfDueFrame DEF Tick, TypeOK, recorder, history
<1>9. CASE LoadSibling
  <2>1. age' \in 0 .. MinFrames
    BY <1>9, SaveConstants DEF LoadSibling, TypeOK
  <2>2. dirty' \in BOOLEAN
    BY <1>9 DEF LoadSibling, TypeOK
  <2>. QED BY <1>9, <2>1, <2>2, FlushFrame DEF LoadSibling, TypeOK, recorder, history
<1>10. CASE StopRecording
  <2>1. Payload \in Dirs
    BY DEF Payload, Dirs, TypeOK
  <2>. QED BY <1>10, <2>1 DEF StopRecording, EndSession, TypeOK, Takes, dirs, data, history
<1>11. CASE SessionEnds
  BY <1>11 DEF SessionEnds, EndSession, TypeOK, dirs, data, history
<1>12. CASE Request
  <2>1. real' \in Dirs /\ armsnap' \in Dirs /\ scratch' \in Dirs
    BY <1>12 DEF Request, TypeOK, dirs
  <2>2. take' \in Takes \cup {NoTake} /\ env' \in BOOLEAN
    BY <1>12 DEF Request, TypeOK
  <2>. QED BY <1>12, <2>1, <2>2, NoVmType, NoSessionType DEF Request, TypeOK
<1>13. CASE Killed
  <2>1. real' \in Dirs /\ armsnap' \in Dirs /\ scratch' \in Dirs
    BY <1>13 DEF Killed, TypeOK, dirs
  <2>2. take' \in Takes \cup {NoTake} /\ env' \in BOOLEAN
    BY <1>13 DEF Killed, TypeOK
  <2>. QED BY <1>13, <2>1, <2>2, NoVmType, NoSessionType DEF Killed, TypeOK
<1>14. CASE HotSwap
  <2>1. /\ mode' = 0 /\ used' = {} /\ env' = FALSE /\ pc' = "swap"
        /\ UNCHANGED <<dirs, take, data, history>>
    BY <1>14 DEF HotSwap
  <2>2. env' \in BOOLEAN
    BY <2>1
  <2>. QED BY <2>1, <2>2, NoSessionType DEF TypeOK, dirs, data, history
<1>15. CASE SwapEnds
  BY <1>15, FlushFrame, NoVmType DEF SwapEnds, TypeOK, recorder
<1>16. CASE Quit
  <2>1. env' \in BOOLEAN
    BY <1>16 DEF Quit
  <2>. QED BY <1>16, <2>1, FlushFrame, NoVmType, NoSessionType DEF Quit, TypeOK
<1>17. CASE UNCHANGED vars
  BY <1>17 DEF vars, dirs, recorder, data, history, TypeOK
<1>. QED
  BY <1>1, <1>2, <1>3, <1>4, <1>5, <1>6, <1>7, <1>8, <1>9, <1>10, <1>11, <1>12, <1>13,
     <1>14, <1>15, <1>16, <1>17 DEF Next

\* The program starts without saves, takes or a cart.
LEMMA InitType == Init => TypeOK
<1>1. Empty \in Dirs /\ Nothing \in Seen
  BY DEF Empty, Nothing, Dirs, Seen
<1>2. Init => age \in 0 .. MinFrames /\ mode \in 0 .. 2 /\ used \subseteq Files
  BY SaveConstants DEF Init
<1>3. Init => dirty \in BOOLEAN /\ env \in BOOLEAN /\ isolated \in BOOLEAN
  BY DEF Init
<1>. QED BY <1>1, <1>2, <1>3, SaveConstants DEF Init, TypeOK

\* The variables keep their types, whatever fails: the frame counter of the
\* save file in particular stays within its period.
THEOREM TypeCorrect == Spec => []TypeOK
<1>1. TypeOK /\ [Next]_vars => TypeOK'
  BY StepType
<1>. QED BY <1>1, InitType, PTL DEF Spec
-----------------------------------------------------------------------------
(* Sessions.                                                               *)

\* A step of the VM that leaves the recorder's mode alone keeps all but what it
\* opens and writes.
LEMMA GoesOn ==
    ASSUME IInv, InVm, UNCHANGED <<take, pc, mode, env, isolated>>,
           OpenedFromBase', UsedIsOpened'
    PROVE  Sessions'
<1>1. AtRest'
  BY DEF InVm, AtRest, IInv, Sessions
<1>2. OneSaveDir' /\ SessionRedirected'
  BY DEF IInv, Sessions, OneSaveDir, SessionRedirected
<1>3. TakeFaithful' /\ ReplayHasTake'
  BY DEF IInv, Sessions, TakeFaithful, ReplayHasTake
<1>. QED BY <1>1, <1>2, <1>3 DEF Sessions

\* Where no session is on, only the take and the saves directory matter.
LEMMA NoSessionLeft ==
    ASSUME mode' = 0, used' = {}, AtRest', OneSaveDir', TakeFaithful'
    PROVE  Sessions'
<1>1. SessionRedirected' /\ OpenedFromBase' /\ ReplayHasTake'
  BY DEF SessionRedirected, OpenedFromBase, ReplayHasTake
<1>2. UsedIsOpened'
  BY DEF UsedIsOpened
<1>. QED BY <1>1, <1>2 DEF Sessions

\* Writing the file of the claimed id disturbs nothing the session has yet to
\* open.
LEMMA WriteOpened ==
    ASSUME IInv, UNCHANGED <<take, mode, used, seen>>, armsnap' = armsnap,
           bound' \in {bound, NoId},
           \A g \in Files : scratch'[g] # scratch[g] => bound # NoId /\ g = bound
    PROVE  OpenedFromBase' /\ UsedIsOpened'
<1>1. OpenedFromBase'
  <2>1. SUFFICES ASSUME mode # 0 PROVE OpenedFromBase'
    BY DEF OpenedFromBase
  <2>2. Base' = Base
    BY DEF Base
  <2>3. \A f \in Files : seen[f] = Unseen => scratch'[f] = scratch[f]
    BY <2>1 DEF IInv, Sessions, OpenedFromBase
  <2>4. bound' # NoId => seen[bound'] # Unseen
    BY <2>1 DEF IInv, Sessions, OpenedFromBase
  <2>. QED BY <2>1, <2>2, <2>3, <2>4 DEF IInv, Sessions, OpenedFromBase
<1>2. UsedIsOpened'
  BY DEF IInv, Sessions, UsedIsOpened
<1>. QED BY <1>1, <1>2

\* Starting a cart, by a session from its base or in plain play.
LEMMA StartsSession ==
    ASSUME IInv, NEW m \in 0 .. 2, NEW dir \in Dirs, Run(m, dir), mode = 0, bound = NoId,
           env' = (m # 0), take' = take, m = 2 => take # NoTake,
           m # 0 => dir = scratch' /\ dir = IF m = 1 THEN armsnap' ELSE take.snap
    PROVE  Sessions'
<1>1. /\ pc' = "game" /\ mode' = m /\ isolated' = (m # 0) /\ bound' = NoId
      /\ used' = IF m = 1 THEN {Overlay} ELSE {}
      /\ m # 0 => \A f \in Files : seen'[f] = IF f = Overlay THEN dir[f] ELSE Unseen
  BY DEF Run, data, Nothing, Files
<1>2. Overlay \in Files /\ dir[Overlay] # Unseen
  BY SaveConstants DEF Files, Dirs
<1>3. AtRest' /\ OneSaveDir' /\ SessionRedirected'
  BY <1>1 DEF AtRest, OneSaveDir, SessionRedirected
<1>4. OpenedFromBase'
  BY <1>1, <1>2 DEF OpenedFromBase, Base
<1>5. UsedIsOpened'
  BY <1>1, <1>2 DEF UsedIsOpened
<1>6. TakeFaithful' /\ ReplayHasTake'
  BY <1>1 DEF IInv, Sessions, TakeFaithful, ReplayHasTake
<1>. QED BY <1>3, <1>4, <1>5, <1>6 DEF Sessions

\* A take written from the saves at the arm carries what the run opened.
LEMMA WritesFaithfulTake ==
    ASSUME IInv, StopRecording
    PROVE  TakeFaithful'
<1>1. take' = [snap |-> Payload, seen |-> seen]
  BY DEF StopRecording
<1>2. ASSUME NEW f \in Files
      PROVE Payload[f] = IF seen[f] = Unseen THEN Absent ELSE seen[f]
  BY <1>2 DEF StopRecording, Payload, IInv, Sessions, OpenedFromBase, UsedIsOpened, Base
<1>. QED BY <1>1, <1>2 DEF TakeFaithful

\* A start that is refused leaves plain play; one that is not has its base in
\* the scratch.
LEMMA StartStep ==
    ASSUME IInv, StartPlain \/ StartRecording \/ StartReplay
    PROVE  Sessions'
<1>1. mode = 0 /\ bound = NoId /\ env = FALSE
  BY DEF IInv, Sessions, AtRest, StartPlain, StartRecording, StartReplay
<1>2. CASE StartPlain
  <2>1. SaveDir \in Dirs /\ Run(0, SaveDir) /\ take' = take
    BY <1>2, SaveDirType DEF StartPlain, IInv
  <2>2. env' = (0 # 0)
    BY <1>1, <1>2 DEF StartPlain
  <2>. QED BY <1>1, <2>1, <2>2, StartsSession
<1>3. CASE StartRecording
  <2>1. armsnap' \in Dirs /\ scratch' \in Dirs
    BY <1>3, CopyType DEF StartRecording, IInv, TypeOK
  <2>. QED BY <1>1, <1>3, <2>1, StartsSession DEF StartRecording
<1>4. CASE StartReplay
  <2>1. scratch' \in Dirs
    BY <1>4, CopyType DEF StartReplay, IInv, TypeOK, Takes
  <2>. QED BY <1>1, <1>4, <2>1, StartsSession DEF StartReplay
<1>. QED BY <1>2, <1>3, <1>4

\* What the running cart does keeps its session: it opens a file before the
\* first write to it.
LEMMA CartStep ==
    ASSUME IInv,
           \/ \E id \in Ids : BindCart(id)
           \/ \E v \in Vals : Poke(v) \/ Cstore(v)
           \/ Tick \/ LoadSibling
    PROVE  Sessions'
<1>1. ASSUME NEW id \in Ids, BindCart(id) PROVE Sessions'
  <2>1. id \in Files /\ SaveDir[id] \in Vals \cup {Absent} /\ SaveDir[id] # Unseen
    BY SaveDirType, SaveConstants DEF Files, Dirs, IInv
  <2>2. /\ used' = IF mode = 1 THEN used \cup {id} ELSE used
        /\ mode # 0 => \A g \in Files :
              seen'[g] = IF g = id /\ seen[g] = Unseen THEN SaveDir[id] ELSE seen[g]
    BY <1>1, <2>1, OpensFrame DEF BindCart, IInv
  <2>3. mode # 0 => SaveDir = scratch
    BY DEF SaveDir, IInv, Sessions, SessionRedirected
  <2>4. /\ scratch' = scratch /\ armsnap' = armsnap /\ bound' = id
        /\ UNCHANGED <<take, pc, mode, env, isolated>> /\ InVm
    BY <1>1 DEF BindCart, dirs
  <2>5. OpenedFromBase'
    BY <2>1, <2>2, <2>3, <2>4, SaveConstants
       DEF IInv, Sessions, OpenedFromBase, Base, Files
  <2>6. UsedIsOpened'
    BY <2>1, <2>2, <2>4 DEF IInv, Sessions, UsedIsOpened
  <2>. QED BY <2>4, <2>5, <2>6, GoesOn
<1>2. ASSUME NEW v \in Vals, Poke(v) PROVE Sessions'
  <2>1. OpenedFromBase' /\ UsedIsOpened'
    BY <1>2, WriteOpened DEF Poke, dirs, recorder, history
  <2>. QED BY <1>2, <2>1, GoesOn DEF Poke, recorder, history
<1>3. ASSUME NEW v \in Vals, Cstore(v) PROVE Sessions'
  <2>1. /\ Overlay \in Files /\ SaveDir[Overlay] \in Vals \cup {Absent}
        /\ SaveDir[Overlay] # Unseen
    BY SaveDirType, SaveConstants DEF Files, Dirs, IInv
  <2>2. /\ used' = IF mode = 1 THEN used \cup {Overlay} ELSE used
        /\ mode # 0 => \A g \in Files :
              seen'[g] = IF g = Overlay /\ seen[g] = Unseen THEN SaveDir[Overlay]
                         ELSE seen[g]
    BY <1>3, <2>1, OpensFrame DEF Cstore, IInv
  <2>3. /\ armsnap' = armsnap
        /\ \A g \in Files \ {Overlay} : scratch'[g] = scratch[g]
    BY <1>3, <2>1, TryWriteFrame DEF Cstore, IInv
  <2>4. bound' = bound /\ UNCHANGED <<take, pc, mode, env, isolated>> /\ InVm
    BY <1>3 DEF Cstore, data
  <2>5. OpenedFromBase'
    BY <2>1, <2>2, <2>3, <2>4 DEF IInv, TypeOK, Sessions, OpenedFromBase, Base, Files
  <2>6. UsedIsOpened'
    BY <2>1, <2>2, <2>4 DEF IInv, Sessions, UsedIsOpened, OpenedFromBase
  <2>. QED BY <2>4, <2>5, <2>6, GoesOn
<1>4. CASE Tick
  <2>1. OpenedFromBase' /\ UsedIsOpened'
    BY <1>4, SaveIfDueFrame, WriteOpened DEF Tick, recorder, history, IInv
  <2>. QED BY <1>4, <2>1, GoesOn DEF Tick, recorder, history
<1>5. CASE LoadSibling
  <2>1. OpenedFromBase' /\ UsedIsOpened'
    BY <1>5, FlushFrame, WriteOpened DEF LoadSibling, recorder, history, IInv
  <2>. QED BY <1>5, <2>1, GoesOn DEF LoadSibling, recorder, history
<1>. QED BY <1>1, <1>2, <1>3, <1>4, <1>5

\* A session that ends leaves its cart where it was.
LEMMA EndStep ==
    ASSUME IInv,
           \/ \E v \in Vals : LoadState(v)
           \/ StopRecording \/ SessionEnds
           \/ Request \/ Killed \/ HotSwap \/ SwapEnds \/ Quit
    PROVE  Sessions'
<1>1. TakeFaithful'
  <2>1. CASE StopRecording
    BY <2>1, WritesFaithfulTake
  <2>2. CASE take' = take
    BY <2>2 DEF IInv, Sessions, TakeFaithful
  <2>. QED BY <2>1, <2>2 DEF LoadState, SessionEnds, Request, Killed, HotSwap, SwapEnds, Quit
<1>2. ASSUME NEW v \in Vals, LoadState(v) PROVE Sessions'
  <2>1. AtRest' /\ OneSaveDir'
    BY <1>2 DEF LoadState, EndSession, recorder, history, IInv, Sessions, AtRest, OneSaveDir
  <2>2. CASE mode # 0
    BY <1>1, <1>2, <2>1, <2>2, NoSessionLeft DEF LoadState, EndSession
  <2>3. CASE mode = 0
    BY <1>1, <1>2, <2>1, <2>3, NoSessionLeft
       DEF LoadState, recorder, IInv, Sessions, UsedIsOpened
  <2>. QED BY <2>2, <2>3
<1>3. CASE StopRecording \/ SessionEnds
  <2>1. mode' = 0 /\ used' = {} /\ env' = env /\ pc' = pc /\ isolated' = isolated /\ InVm
    BY <1>3 DEF StopRecording, SessionEnds, EndSession, history, InVm
  <2>2. AtRest' /\ OneSaveDir'
    BY <2>1 DEF InVm, IInv, Sessions, AtRest, OneSaveDir
  <2>. QED BY <1>1, <2>1, <2>2, NoSessionLeft
<1>4. CASE Request \/ Killed \/ Quit
  <2>1. mode' = 0 /\ used' = {} /\ env' = FALSE /\ pc' \in {"off", "idle"} /\ bound' = NoId
    BY <1>4 DEF Request, Killed, Quit, NoVm
  <2>2. AtRest' /\ OneSaveDir'
    BY <2>1 DEF AtRest, OneSaveDir
  <2>. QED BY <1>1, <2>1, <2>2, NoSessionLeft
<1>5. CASE HotSwap
  <2>1. mode' = 0 /\ used' = {} /\ env' = FALSE /\ pc' = "swap"
    BY <1>5 DEF HotSwap
  <2>2. AtRest' /\ OneSaveDir'
    BY <2>1 DEF AtRest, OneSaveDir
  <2>. QED BY <1>1, <2>1, <2>2, NoSessionLeft
<1>6. CASE SwapEnds
  <2>1. pc' = "idle" /\ bound' = NoId /\ mode' = 0 /\ env' = FALSE /\ used' = used
    BY <1>6 DEF SwapEnds, NoVm, recorder, IInv, Sessions, AtRest
  <2>2. used' = {}
    BY <1>6, <2>1 DEF SwapEnds, recorder, IInv, Sessions, UsedIsOpened
  <2>3. AtRest' /\ OneSaveDir'
    BY <2>1 DEF AtRest, OneSaveDir
  <2>. QED BY <1>1, <2>1, <2>2, <2>3, NoSessionLeft
<1>. QED BY <1>2, <1>3, <1>4, <1>5, <1>6

\* The invariant is inductive.
LEMMA Inductive == Spec => []IInv
<1>1. Init => IInv
  <2>1. ASSUME Init PROVE Sessions
    <3>1. AtRest /\ OneSaveDir /\ SessionRedirected /\ OpenedFromBase
      BY <2>1 DEF Init, AtRest, OneSaveDir, SessionRedirected, OpenedFromBase
    <3>2. UsedIsOpened /\ TakeFaithful /\ ReplayHasTake
      BY <2>1 DEF Init, UsedIsOpened, TakeFaithful, ReplayHasTake
    <3>. QED BY <3>1, <3>2 DEF Sessions
  <2>. QED BY <2>1, InitType DEF IInv
<1>2. IInv /\ [Next]_vars => IInv'
  <2>1. SUFFICES ASSUME IInv, [Next]_vars PROVE Sessions'
    BY StepType DEF IInv
  <2>2. CASE UNCHANGED vars
    BY <2>1, <2>2
       DEF vars, dirs, recorder, data, history, IInv, Sessions, AtRest, OneSaveDir,
           SessionRedirected, OpenedFromBase, Base, UsedIsOpened, TakeFaithful,
           ReplayHasTake
  <2>. QED BY <2>1, <2>2, StartStep, CartStep, EndStep DEF Next
<1>. QED BY <1>1, <1>2, PTL DEF Spec
-----------------------------------------------------------------------------
(* The properties.                                                         *)

\* Through load(), saves, refused and ended sessions, a cart keeps the one saves
\* directory it started with: get_path_save and get_path_cstore may read the
\* environment at every call.
THEOREM KeepsSaveDir == Spec => []OneSaveDir
<1>1. IInv => OneSaveDir
  BY DEF IInv, Sessions
<1>. QED BY <1>1, Inductive, PTL

\* p8snap_from_dir puts no save into a take that the recorded run did not open.
THEOREM TakeIsScoped == Spec => []TakeCarriesOwnSaves
<1>1. IInv => TakeCarriesOwnSaves
  BY DEF IInv, Sessions, TakeFaithful, TakeCarriesOwnSaves
<1>. QED BY <1>1, Inductive, PTL

\* What a replay opens, it finds as the recorded run found it, although the
\* recorded run wrote over its scratch and the real saves moved on.
THEOREM ReplaySeesRecordedWorld == Spec => []PlaysRecordedWorld
<1>1. IInv => PlaysRecordedWorld
  BY DEF IInv, Sessions, OpenedFromBase, Base, TakeFaithful, ReplayHasTake,
         PlaysRecordedWorld
<1>. QED BY <1>1, Inductive, PTL
============================================================================
