--------------------------- MODULE RecorderProofs ---------------------------
(***************************************************************************)
(* Recorder, for every set of carts, number of slots and frame cap: types, *)
(* and that a session answers the request that was made.                   *)
(***************************************************************************)
EXTENDS Recorder, TLAPS

SessionType ==
    /\ mode \in 0 .. 2
    /\ frames \in 0 .. MaxFrames
    /\ capFailed \in BOOLEAN
    /\ playing \in Paths \cup {NoFile}
    /\ seedEnv \in BOOLEAN
    /\ ask \in Asks \cup {NoAsk}

\* Which cart paths are set where.
CartKnown ==
    /\ pc \in {"game", "swap", "quit"} => recCart \in Carts
    /\ pc \in {"start", "game", "swap"} => cart \in Carts

-----------------------------------------------------------------------------
(* Types of the helpers.                                                   *)

\* A marker write is one of five, each with its own values.
LEMMA WriteValue ==
    ASSUME NEW w \in Writes
    PROVE  \/ w.file = "recslot" /\ w.value \in Slots
           \/ w.file = "recmode" /\ w.value \in {"REC", "PLAY"}
           \/ w.file = "playfile" /\ w.value \in Paths \cup {NoFile}
           \/ w.file = "warn" /\ w.value \in {"restarted", "stopped"}
           \/ w.file = "reset" /\ w.value \in BOOLEAN
  BY DEF Writes

\* A marker write, failed or not, leaves markers.
LEMMA MarkerType ==
    ASSUME tmp \in MarkerValues, NEW w \in Writes, NEW ok \in BOOLEAN,
           WriteMarker(w, ok)
    PROVE  tmp' \in MarkerValues
<1>1. tmp' \in {tmp, [tmp EXCEPT ![w.file] = w.value],
                [tmp EXCEPT ![w.file] = Truncated[w.file]]}
  BY DEF WriteMarker
<1>2. CASE tmp' = tmp
  BY <1>2
<1>3. CASE tmp' = [tmp EXCEPT ![w.file] = w.value]
  <2>1. CASE w.file = "recslot" /\ w.value \in Slots
    BY <1>3, <2>1, RecorderConstants DEF Slots, MarkerValues
  <2>2. CASE w.file = "recmode" /\ w.value \in {"REC", "PLAY"}
    BY <1>3, <2>2 DEF MarkerValues
  <2>3. CASE w.file = "playfile" /\ w.value \in Paths \cup {NoFile}
    BY <1>3, <2>3 DEF MarkerValues
  <2>4. CASE w.file = "warn" /\ w.value \in {"restarted", "stopped"}
    BY <1>3, <2>4 DEF MarkerValues
  <2>5. CASE w.file = "reset" /\ w.value \in BOOLEAN
    BY <1>3, <2>5 DEF MarkerValues
  <2>. QED BY <2>1, <2>2, <2>3, <2>4, <2>5, WriteValue
<1>4. CASE tmp' = [tmp EXCEPT ![w.file] = Truncated[w.file]]
  <2>1. CASE w.file = "recslot"
    BY <1>4, <2>1, RecorderConstants DEF MarkerValues, Truncated, NoMarkers
  <2>2. CASE w.file = "recmode"
    BY <1>4, <2>2 DEF MarkerValues, Truncated, NoMarkers
  <2>3. CASE w.file = "playfile"
    BY <1>4, <2>3 DEF MarkerValues, Truncated, NoMarkers
  <2>4. CASE w.file = "warn"
    BY <1>4, <2>4 DEF MarkerValues, Truncated, NoMarkers
  <2>5. CASE w.file = "reset"
    BY <1>4, <2>5 DEF MarkerValues, Truncated, NoMarkers
  <2>. QED BY <2>1, <2>2, <2>3, <2>4, <2>5, WriteValue
<1>. QED BY <1>1, <1>2, <1>3, <1>4

\* A teardown leaves a well-typed, empty session.
LEMMA EndSessionType == ASSUME EndSession PROVE SessionType'
<1>1. mode' \in 0 .. 2 /\ frames' \in 0 .. MaxFrames
  BY RecorderConstants DEF EndSession
<1>2. capFailed' \in BOOLEAN /\ seedEnv' \in BOOLEAN
  BY DEF EndSession
<1>3. playing' \in Paths \cup {NoFile} /\ ask' \in Asks \cup {NoAsk}
  BY DEF EndSession
<1>. QED BY <1>1, <1>2, <1>3 DEF SessionType

\* So does a teardown that may find nothing to tear down.
LEMMA EndSessionIfAnyType == ASSUME TypeOK, EndSessionIfAny PROVE SessionType'
<1>1. CASE mode # 0
  BY <1>1, EndSessionType DEF EndSessionIfAny
<1>2. CASE mode = 0
  BY <1>2 DEF EndSessionIfAny, session, SessionType, TypeOK
<1>. QED BY <1>1, <1>2

\* A new process starts with well-typed memory.
LEMMA FreshType ==
    ASSUME FreshMemory, ask' \in Asks \cup {NoAsk}
    PROVE  /\ SessionType'
           /\ cart' = NoCart /\ recCart' = NoCart
           /\ slot' \in 0 .. NSlots
           /\ leaving' = FALSE /\ notice' \in Notices
           /\ todo' \in Seq(Writes)
<1>1. mode' \in 0 .. 2 /\ frames' \in 0 .. MaxFrames /\ slot' \in 0 .. NSlots
  BY RecorderConstants DEF FreshMemory
<1>2. /\ capFailed' \in BOOLEAN /\ seedEnv' \in BOOLEAN /\ leaving' = FALSE
      /\ playing' \in Paths \cup {NoFile}
      /\ cart' = NoCart /\ recCart' = NoCart
  BY DEF FreshMemory
<1>3. todo' \in Seq(Writes) /\ notice' \in Notices
  BY DEF FreshMemory, Notices
<1>. QED BY <1>1, <1>2, <1>3 DEF SessionType

\* p8rec_slot_now is a slot.
LEMMA SlotNowType == SlotNow \in Slots
  BY RecorderConstants DEF SlotNow, Slots

\* A request names the cart that is running.
LEMMA AskType ==
    ASSUME recCart \in Carts, NEW k \in {"REC", "PLAY"}, NEW s \in Slots,
           NEW f \in Paths \cup {NoFile}
    PROVE  Asking(k, s, f) \in Asks
  BY DEF Asking, Asks

\* The marker writes a request can leave to do.
LEMMA PlanType ==
    /\ <<Rec, ResetMark>> \in Seq(Writes)
    /\ <<ResetMark>> \in Seq(Writes)
    /\ \A t \in {"restarted", "stopped"} :
          /\ <<Warn(t), ResetMark>> \in Seq(Writes)
          /\ <<Rec, Warn(t), ResetMark>> \in Seq(Writes)
    /\ \A f \in Paths \cup {NoFile} : <<Pick(f), Play, ResetMark>> \in Seq(Writes)
<1>1. Rec \in Writes /\ Play \in Writes /\ ResetMark \in Writes
  BY DEF Rec, Play, ResetMark, Writes
<1>2. \A t \in {"restarted", "stopped"} : Warn(t) \in Writes
  BY DEF Warn, Writes
<1>3. \A f \in Paths \cup {NoFile} : Pick(f) \in Writes
  BY DEF Pick, Writes
<1>. QED BY <1>1, <1>2, <1>3

\* Marking the slot and starting to arm keeps every type.
LEMMA MarkSlotType ==
    ASSUME TypeOK, NEW s \in Slots, NEW writes \in Seq(Writes), NEW what \in Asks,
           MarkSlotThen(s, writes, what)
    PROVE  /\ slot' \in 0 .. NSlots
           /\ tmp' \in MarkerValues
           /\ todo' \in Seq(Writes)
           /\ ask' \in Asks \cup {NoAsk}
           /\ pc' \in {pc, "arming"}
           /\ notice' \in Notices
<1>1. slot' \in 0 .. NSlots
  BY RecorderConstants DEF MarkSlotThen, Slots
<1>2. PICK ok \in BOOLEAN :
         /\ WriteMarker(SlotMark(s), ok)
         /\ IF ok THEN BeginArming(writes, what) /\ UNCHANGED notice
            ELSE notice' = "refused" /\ UNCHANGED <<pc, todo, ask>>
  BY DEF MarkSlotThen
<1>3. SlotMark(s) \in Writes
  BY DEF SlotMark, Writes
<1>4. tmp' \in MarkerValues
  BY <1>2, <1>3, MarkerType DEF TypeOK
<1>5. CASE ok
  BY <1>1, <1>2, <1>4, <1>5 DEF BeginArming, TypeOK
<1>6. CASE ~ok
  BY <1>1, <1>2, <1>4, <1>6 DEF TypeOK, Notices
<1>. QED BY <1>5, <1>6

\* Writing the take keeps the library and the slot well-typed.
LEMMA WriteTakeType ==
    ASSUME TypeOK, recCart \in Carts, NEW n \in 0 .. MaxFrames, NEW ok \in BOOLEAN,
           WriteTake(n, ok)
    PROVE  /\ slot' \in 0 .. NSlots
           /\ takes' \in [SlotPaths -> Takes \cup {NoTake}]
<1>1. slot' \in 0 .. NSlots
  BY SlotNowType, RecorderConstants DEF WriteTake, TypeOK, Slots
<1>2. n > 0 => [cart |-> recCart, frames |-> n] \in Takes
  BY RecorderConstants DEF Takes
<1>3. takes' \in [SlotPaths -> Takes \cup {NoTake}]
  BY <1>2 DEF WriteTake, TypeOK
<1>. QED BY <1>1, <1>3

-----------------------------------------------------------------------------
(* Types of the actions.                                                   *)

\* RecordTake keeps the types.
LEMMA TypeRecordTake == ASSUME TypeOK, CartKnown, RecordTake PROVE TypeOK'
  BY MarkSlotType, SlotNowType, AskType, PlanType
     DEF TypeOK, RecordTake, CartKnown, Menu, Requesting, carts

\* PlaySlot keeps the types.
LEMMA TypePlaySlot == ASSUME TypeOK, CartKnown, PlaySlot PROVE TypeOK'
  BY MarkSlotType, SlotNowType, AskType, PlanType
     DEF TypeOK, PlaySlot, CartKnown, Menu, Requesting, carts

\* OsdPlay keeps the types.
LEMMA TypeOsdPlay == ASSUME TypeOK, CartKnown, NEW s \in Slots, OsdPlay(s) PROVE TypeOK'
  BY MarkSlotType, AskType, PlanType DEF TypeOK, OsdPlay, CartKnown, Requesting, carts

\* ResetCart keeps the types.
LEMMA TypeResetCart == ASSUME TypeOK, ResetCart PROVE TypeOK'
  BY PlanType
     DEF TypeOK, ResetCart, BeginArming, Requesting, disk, carts, session, screen

\* ArmExit keeps the types.
LEMMA TypeArmExit == ASSUME TypeOK, ArmExit PROVE TypeOK'
  BY FreshType DEF TypeOK, ArmExit, SessionType, disk, carts, session, screen

\* Shutdown keeps the types.
LEMMA TypeShutdown == ASSUME TypeOK, Shutdown PROVE TypeOK'
  BY FreshType DEF TypeOK, Shutdown, SessionType, disk, carts, session, screen

\* Crash keeps the types.
LEMMA TypeCrash == ASSUME TypeOK, Crash PROVE TypeOK'
  BY FreshType DEF TypeOK, Crash, SessionType, disk, carts, session, screen

\* CoreSwitch keeps the types.
LEMMA TypeCoreSwitch == ASSUME TypeOK, CoreSwitch PROVE TypeOK'
  BY FreshType DEF TypeOK, CoreSwitch, SessionType, disk, carts, session, screen

\* RecordFrame keeps the types.
LEMMA TypeRecordFrame == ASSUME TypeOK, RecordFrame PROVE TypeOK'
  BY RecorderConstants DEF TypeOK, RecordFrame, InGame, disk, carts, session, screen

\* PlaybackEnds keeps the types.
LEMMA TypePlaybackEnds == ASSUME TypeOK, PlaybackEnds PROVE TypeOK'
  BY EndSessionType
     DEF TypeOK, PlaybackEnds, SessionType, Notices, disk, carts, session, screen

\* LoadState keeps the types.
LEMMA TypeLoadState == ASSUME TypeOK, LoadState PROVE TypeOK'
  BY EndSessionType
     DEF TypeOK, LoadState, SessionType, Notices, disk, carts, session, screen

\* SlotPrev keeps the types.
LEMMA TypeSlotPrev == ASSUME TypeOK, SlotPrev PROVE TypeOK'
  BY RecorderConstants
     DEF TypeOK, SlotPrev, Slots, SlotNow, disk, carts, session, screen

\* SlotNext keeps the types.
LEMMA TypeSlotNext == ASSUME TypeOK, SlotNext PROVE TypeOK'
  BY RecorderConstants
     DEF TypeOK, SlotNext, Slots, SlotNow, disk, carts, session, screen

\* HotSwap keeps the types.
LEMMA TypeHotSwap == ASSUME TypeOK, HotSwap PROVE TypeOK'
  BY EndSessionIfAnyType
     DEF TypeOK, HotSwap, SessionType, Notices, disk, carts, session, screen

\* RequestExit keeps the types.
LEMMA TypeRequestExit == ASSUME TypeOK, RequestExit PROVE TypeOK'
  BY DEF TypeOK, RequestExit, disk, carts, session, screen

\* LeaveGame keeps the types.
LEMMA TypeLeaveGame == ASSUME TypeOK, LeaveGame PROVE TypeOK'
  BY DEF TypeOK, LeaveGame, disk, carts, session, screen

\* GameEndedBySwap keeps the types.
LEMMA TypeGameEndedBySwap == ASSUME TypeOK, GameEndedBySwap PROVE TypeOK'
  BY DEF TypeOK, GameEndedBySwap, disk, carts, session, screen

\* GameEndedByQuit keeps the types.
LEMMA TypeGameEndedByQuit == ASSUME TypeOK, GameEndedByQuit PROVE TypeOK'
  BY EndSessionIfAnyType
     DEF TypeOK, GameEndedByQuit, SessionType, disk, carts, session, screen

\* OsdMount keeps the types.
LEMMA TypeOsdMount == ASSUME TypeOK, NEW c \in Carts, OsdMount(c) PROVE TypeOK'
  BY DEF TypeOK, OsdMount, disk, carts, session, screen

\* OsdPick keeps the types.
LEMMA TypeOsdPick == ASSUME TypeOK, NEW p \in Paths, OsdPick(p) PROVE TypeOK'
  BY DEF TypeOK, OsdPick, disk, carts, session, screen

\* Handler keeps the types.
LEMMA TypeHandler == ASSUME TypeOK, Handler PROVE TypeOK'
  BY RecorderConstants DEF TypeOK, Handler, MarkerValues, disk, carts, session, screen

\* Mount keeps the types.
LEMMA TypeMount == ASSUME TypeOK, Mount PROVE TypeOK'
  BY DEF TypeOK, Mount, disk, carts, session, screen

\* LoadReplay keeps the types.
LEMMA TypeLoadReplay == ASSUME TypeOK, CartKnown, LoadReplay PROVE TypeOK'
<1>1. CASE mode # 1 /\ ProbeOk(s1)
  BY <1>1, MarkSlotType, SlotNowType, AskType, PlanType
     DEF TypeOK, LoadReplay, CartKnown, Requesting, carts
<1>2. CASE ~(mode # 1 /\ ProbeOk(s1))
  BY <1>2 DEF TypeOK, LoadReplay, Requesting, carts, Notices
<1>. QED BY <1>1, <1>2

\* RestartRecording keeps the types.
LEMMA TypeRestartRecording == ASSUME TypeOK, CartKnown, RestartRecording PROVE TypeOK'
<1>1. PICK ok \in BOOLEAN :
         /\ WriteMarker(SlotMark(SlotNow), ok)
         /\ IF ok THEN BeginArming(<<Rec, Warn("restarted"), ResetMark>>,
                                   Asking("REC", SlotNow, NoFile))
            ELSE BeginArming(<<ResetMark>>, NoAsk)
  BY DEF RestartRecording
<1>2. tmp' \in MarkerValues
  <2>1. SlotMark(SlotNow) \in Writes
    BY SlotNowType DEF SlotMark, Writes
  <2>. QED BY <1>1, <2>1, MarkerType DEF TypeOK
<1>3. todo' \in Seq(Writes) /\ ask' \in Asks \cup {NoAsk} /\ pc' = "arming"
  BY <1>1, PlanType, AskType, SlotNowType
     DEF BeginArming, CartKnown, RestartRecording, Menu
<1>4. slot' \in 0 .. NSlots
  BY SlotNowType, RecorderConstants DEF RestartRecording, Slots
<1>. QED BY <1>2, <1>3, <1>4 DEF TypeOK, RestartRecording, Requesting, carts

\* ArmWrite keeps the types.
LEMMA TypeArmWrite == ASSUME TypeOK, ArmWrite PROVE TypeOK'
<1>1. Head(todo) \in Writes /\ Tail(todo) \in Seq(Writes)
  BY DEF ArmWrite, TypeOK
<1>2. tmp' \in MarkerValues
  BY <1>1, MarkerType DEF ArmWrite, TypeOK
<1>. QED BY <1>1, <1>2 DEF TypeOK, ArmWrite, disk, carts, session, screen

\* RecordFrameOom keeps the types.
LEMMA TypeRecordFrameOom == ASSUME TypeOK, CartKnown, RecordFrameOom PROVE TypeOK'
<1>1. PICK n \in {frames, frames + 1}, ok \in BOOLEAN :
         WriteTake(n, ok) /\ notice' = IF WriteTakeOk(n, ok) THEN "stopped" ELSE "lost"
  BY DEF RecordFrameOom
<1>2. n \in 0 .. MaxFrames
  BY RecorderConstants DEF RecordFrameOom, TypeOK
<1>3. slot' \in 0 .. NSlots /\ takes' \in [SlotPaths -> Takes \cup {NoTake}]
  BY <1>1, <1>2, WriteTakeType DEF CartKnown, RecordFrameOom, InGame
<1>. QED BY <1>1, <1>3, EndSessionType
   DEF TypeOK, RecordFrameOom, SessionType, Notices, carts

\* RecordFrameAtCap keeps the types.
LEMMA TypeRecordFrameAtCap == ASSUME TypeOK, CartKnown, RecordFrameAtCap PROVE TypeOK'
<1>1. PICK ok \in BOOLEAN :
         /\ WriteTake(frames, ok)
         /\ notice' = WriteNotice(frames, ok)
         /\ IF ok THEN EndSession
            ELSE /\ capFailed' = TRUE
                 /\ UNCHANGED <<mode, frames, playing, seedEnv, ask>>
  BY DEF RecordFrameAtCap
<1>2. slot' \in 0 .. NSlots /\ takes' \in [SlotPaths -> Takes \cup {NoTake}]
  BY <1>1, WriteTakeType DEF CartKnown, RecordFrameAtCap, InGame, TypeOK
<1>3. SessionType'
  <2>1. CASE ok
    BY <1>1, <2>1, EndSessionType
  <2>2. CASE ~ok
    BY <1>1, <2>2 DEF SessionType, TypeOK
  <2>. QED BY <2>1, <2>2
<1>. QED BY <1>1, <1>2, <1>3
   DEF TypeOK, RecordFrameAtCap, SessionType, WriteNotice, Notices, carts

\* StopRecording keeps the types.
LEMMA TypeStopRecording == ASSUME TypeOK, CartKnown, StopRecording PROVE TypeOK'
<1>1. PICK ok \in BOOLEAN :
         /\ WriteTake(frames, ok)
         /\ notice' = WriteNotice(frames, ok)
         /\ IF WriteTakeOk(frames, ok) THEN EndSession ELSE UNCHANGED session
  BY DEF StopRecording
<1>2. slot' \in 0 .. NSlots /\ takes' \in [SlotPaths -> Takes \cup {NoTake}]
  BY <1>1, WriteTakeType DEF CartKnown, StopRecording, Menu, TypeOK
<1>3. SessionType'
  <2>1. CASE WriteTakeOk(frames, ok)
    BY <1>1, <2>1, EndSessionType
  <2>2. CASE ~WriteTakeOk(frames, ok)
    BY <1>1, <2>2 DEF SessionType, TypeOK, session
  <2>. QED BY <2>1, <2>2
<1>. QED BY <1>1, <1>2, <1>3
   DEF TypeOK, StopRecording, SessionType, WriteNotice, Notices, carts

\* AdoptOsdSlot keeps the types.
LEMMA TypeAdoptOsdSlot == ASSUME TypeOK, NEW s \in Slots, AdoptOsdSlot(s) PROVE TypeOK'
<1>1. SlotMark(s) \in Writes
  BY DEF SlotMark, Writes
<1>2. tmp' \in MarkerValues
  BY <1>1, MarkerType DEF AdoptOsdSlot, TypeOK
<1>3. slot' \in 0 .. NSlots
  BY RecorderConstants DEF AdoptOsdSlot, Slots
<1>. QED BY <1>2, <1>3 DEF TypeOK, AdoptOsdSlot, disk, carts, session, screen

\* The arm block ends in a well-typed session.
LEMMA TypeArm ==
    ASSUME TypeOK, NEW m \in 1 .. 2, NEW path \in Paths \cup {NoFile}, cart \in Carts,
           Arm(m, path)
    PROVE  SessionType'
<1>1. mode' \in 0 .. 2 /\ frames' \in 0 .. MaxFrames
  BY RecorderConstants DEF Arm
<1>2. capFailed' \in BOOLEAN /\ seedEnv' \in BOOLEAN /\ playing' \in Paths \cup {NoFile}
  BY DEF Arm, TypeOK
<1>3. ask' \in Asks \cup {NoAsk}
  <2>1. CASE ask = NoAsk
    BY <2>1 DEF Arm
  <2>2. CASE ask \in Asks
    BY <2>2 DEF Arm, Asks
  <2>. QED BY <2>1, <2>2 DEF TypeOK
<1>. QED BY <1>1, <1>2, <1>3 DEF SessionType

\* The path a replay is loaded from.
LEMMA PlayPathType ==
    ASSUME TypeOK, cart \in Carts, NEW s \in Slots
    PROVE  PlayPath(s) \in Paths
  BY DEF PlayPath, TypeOK, MarkerValues, Paths, SlotPaths

\* StartCart keeps the types.
LEMMA TypeStartCart == ASSUME TypeOK, CartKnown, StartCart PROVE TypeOK'
<1> DEFINE found == IF tmp.recslot \in Slots THEN tmp.recslot ELSE slot
           slotNow == IF found \in Slots THEN found ELSE 1
<1>1. found \in 0 .. NSlots /\ slotNow \in Slots
  BY RecorderConstants DEF TypeOK, MarkerValues, Slots
<1>2. slot' \in 0 .. NSlots
  BY <1>1, RecorderConstants DEF StartCart, Slots
<1>3. cart \in Carts
  BY DEF StartCart, CartKnown
<1>4. SessionType'
  <2>1. CASE ArmNone
    BY <2>1 DEF ArmNone, SessionType, TypeOK
  <2>2. CASE ArmRec
    BY <2>2, <1>3, TypeArm, EndSessionType DEF ArmRec
  <2>3. CASE ArmPlay(slotNow)
    BY <2>3, <1>1, <1>3, PlayPathType, TypeArm, EndSessionType DEF ArmPlay
  <2>. QED BY <2>1, <2>2, <2>3 DEF StartCart
<1>5. tmp' \in MarkerValues
  <2> DEFINE left == IF tmp.recmode = "PLAY" THEN NoFile ELSE tmp.playfile
  <2>1. left \in Paths \cup {NoFile}
    BY DEF TypeOK, MarkerValues
  <2>2. tmp' = [tmp EXCEPT !.recslot = 0, !.warn = "none", !.recmode = "none",
                           !.playfile = left]
    BY DEF StartCart, TypeOK, MarkerValues
  <2>3. 0 \in 0 .. NSlots
    BY RecorderConstants
  <2> HIDE DEF left
  <2>. QED BY <2>1, <2>2, <2>3 DEF TypeOK, MarkerValues
<1>6. notice' \in Notices
  BY DEF StartCart, TypeOK, MarkerValues, Notices
<1>. QED BY <1>2, <1>3, <1>4, <1>5, <1>6 DEF StartCart, TypeOK, SessionType

\* Every step keeps the types.
LEMMA TypeStep == ASSUME TypeOK, CartKnown, [Next]_vars PROVE TypeOK'
<1>1. CASE RecordTake
  BY <1>1, TypeRecordTake
<1>2. CASE PlaySlot
  BY <1>2, TypePlaySlot
<1>3. CASE LoadReplay
  BY <1>3, TypeLoadReplay
<1>4. CASE RestartRecording
  BY <1>4, TypeRestartRecording
<1>5. CASE ResetCart
  BY <1>5, TypeResetCart
<1>6. ASSUME NEW s \in Slots, OsdPlay(s) PROVE TypeOK'
  BY <1>6, TypeOsdPlay
<1>7. CASE RecordFrame
  BY <1>7, TypeRecordFrame
<1>8. CASE RecordFrameOom
  BY <1>8, TypeRecordFrameOom
<1>9. CASE RecordFrameAtCap
  BY <1>9, TypeRecordFrameAtCap
<1>10. CASE StopRecording
  BY <1>10, TypeStopRecording
<1>11. CASE PlaybackEnds
  BY <1>11, TypePlaybackEnds
<1>12. CASE LoadState
  BY <1>12, TypeLoadState
<1>13. CASE SlotPrev
  BY <1>13, TypeSlotPrev
<1>14. CASE SlotNext
  BY <1>14, TypeSlotNext
<1>15. ASSUME NEW s \in Slots, AdoptOsdSlot(s) PROVE TypeOK'
  BY <1>15, TypeAdoptOsdSlot
<1>16. CASE HotSwap
  BY <1>16, TypeHotSwap
<1>17. CASE RequestExit
  BY <1>17, TypeRequestExit
<1>18. CASE LeaveGame
  BY <1>18, TypeLeaveGame
<1>19. CASE GameEndedBySwap
  BY <1>19, TypeGameEndedBySwap
<1>20. CASE GameEndedByQuit
  BY <1>20, TypeGameEndedByQuit
<1>21. CASE Shutdown
  BY <1>21, TypeShutdown
<1>22. CASE ArmWrite
  BY <1>22, TypeArmWrite
<1>23. CASE ArmExit
  BY <1>23, TypeArmExit
<1>24. CASE Handler
  BY <1>24, TypeHandler
<1>25. CASE Mount
  BY <1>25, TypeMount
<1>26. CASE StartCart
  BY <1>26, TypeStartCart
<1>27. ASSUME NEW c \in Carts, OsdMount(c) PROVE TypeOK'
  BY <1>27, TypeOsdMount
<1>28. ASSUME NEW p \in Paths, OsdPick(p) PROVE TypeOK'
  BY <1>28, TypeOsdPick
<1>29. CASE Crash
  BY <1>29, TypeCrash
<1>30. CASE CoreSwitch
  BY <1>30, TypeCoreSwitch
<1>31. CASE UNCHANGED vars
  BY <1>31 DEF vars, disk, carts, session, screen, TypeOK
<1>. QED
  BY <1>1, <1>2, <1>3, <1>4, <1>5, <1>6, <1>7, <1>8, <1>9, <1>10, <1>11, <1>12, <1>13,
     <1>14, <1>15, <1>16, <1>17, <1>18, <1>19, <1>20, <1>21, <1>22, <1>23, <1>24, <1>25,
     <1>26, <1>27, <1>28, <1>29, <1>30, <1>31
     DEF Next, Requests, Loop, Respawn, World

\* The cart paths are known whenever the program uses them.
LEMMA CartStep == ASSUME TypeOK, CartKnown, [Next]_vars PROVE CartKnown'
<1>1. CASE RecordTake
  BY <1>1 DEF CartKnown, RecordTake, Menu, MarkSlotThen, BeginArming, Requesting, carts
<1>2. CASE PlaySlot
  BY <1>2 DEF CartKnown, PlaySlot, Menu, MarkSlotThen, BeginArming, Requesting, carts
<1>3. CASE LoadReplay
  BY <1>3 DEF CartKnown, LoadReplay, MarkSlotThen, BeginArming, Requesting, carts
<1>4. CASE RestartRecording
  BY <1>4 DEF CartKnown, RestartRecording, BeginArming
<1>5. CASE ResetCart
  BY <1>5 DEF CartKnown, ResetCart, BeginArming
<1>6. ASSUME NEW s \in Slots, OsdPlay(s) PROVE CartKnown'
  BY <1>6 DEF CartKnown, OsdPlay, MarkSlotThen, BeginArming, Requesting, carts
<1>7. CASE RecordFrame
  BY <1>7 DEF CartKnown, RecordFrame, carts, InGame
<1>8. CASE RecordFrameOom
  BY <1>8 DEF CartKnown, RecordFrameOom, carts, InGame
<1>9. CASE RecordFrameAtCap
  BY <1>9 DEF CartKnown, RecordFrameAtCap, carts, InGame
<1>10. CASE StopRecording
  BY <1>10 DEF CartKnown, StopRecording, carts, InGame
<1>11. CASE PlaybackEnds
  BY <1>11 DEF CartKnown, PlaybackEnds, carts, InGame
<1>12. CASE LoadState
  BY <1>12 DEF CartKnown, LoadState, carts, InGame
<1>13. CASE SlotPrev
  BY <1>13 DEF CartKnown, SlotPrev, carts, InGame
<1>14. CASE SlotNext
  BY <1>14 DEF CartKnown, SlotNext, carts, InGame
<1>15. ASSUME NEW s \in Slots, AdoptOsdSlot(s) PROVE CartKnown'
  BY <1>15 DEF CartKnown, AdoptOsdSlot, carts, InGame
<1>16. CASE HotSwap
  BY <1>16 DEF CartKnown, HotSwap, TypeOK, InGame
<1>17. CASE RequestExit
  BY <1>17 DEF CartKnown, RequestExit, carts, InGame
<1>18. CASE LeaveGame
  BY <1>18 DEF CartKnown, LeaveGame, InGame, carts
<1>19. CASE GameEndedBySwap
  BY <1>19 DEF CartKnown, GameEndedBySwap, carts, InGame
<1>20. CASE GameEndedByQuit
  BY <1>20 DEF CartKnown, GameEndedByQuit, carts, InGame
<1>21. CASE Shutdown
  BY <1>21 DEF CartKnown, Shutdown, carts, InGame
<1>22. CASE ArmWrite
  BY <1>22 DEF CartKnown, ArmWrite, carts, InGame
<1>23. CASE ArmExit
  BY <1>23 DEF CartKnown, ArmExit, carts, InGame
<1>24. CASE Handler
  BY <1>24 DEF CartKnown, Handler, carts, InGame
<1>25. CASE Mount
  BY <1>25 DEF CartKnown, Mount, TypeOK, carts
<1>26. CASE StartCart
  BY <1>26 DEF CartKnown, StartCart, carts, InGame
<1>27. ASSUME NEW c \in Carts, OsdMount(c) PROVE CartKnown'
  BY <1>27 DEF CartKnown, OsdMount, carts, InGame
<1>28. ASSUME NEW p \in Paths, OsdPick(p) PROVE CartKnown'
  BY <1>28 DEF CartKnown, OsdPick, carts, InGame
<1>29. CASE Crash
  BY <1>29 DEF CartKnown, Crash, carts, InGame
<1>30. CASE CoreSwitch
  BY <1>30 DEF CartKnown, CoreSwitch, carts, InGame
<1>31. CASE UNCHANGED vars
  BY <1>31 DEF vars, carts, CartKnown
<1>. QED
  BY <1>1, <1>2, <1>3, <1>4, <1>5, <1>6, <1>7, <1>8, <1>9, <1>10, <1>11, <1>12, <1>13,
     <1>14, <1>15, <1>16, <1>17, <1>18, <1>19, <1>20, <1>21, <1>22, <1>23, <1>24, <1>25,
     <1>26, <1>27, <1>28, <1>29, <1>30, <1>31
     DEF Next, Requests, Loop, Respawn, World

\* Type correctness: every variable stays in its type, for every number of
\* carts, slots and frames and whatever writes may fail.
THEOREM TypeCorrect == Spec => [](TypeOK /\ CartKnown)
<1>1. Init => TypeOK /\ CartKnown
  <2>1. Init => CartKnown
    BY DEF Init, CartKnown
  <2>2. Init => /\ mode \in 0 .. 2 /\ slot \in 0 .. NSlots /\ frames \in 0 .. MaxFrames
                /\ tmp \in MarkerValues
    BY RecorderConstants DEF Init, NoMarkers, MarkerValues
  <2>3. Init => /\ capFailed \in BOOLEAN /\ seedEnv \in BOOLEAN /\ leaving \in BOOLEAN
    BY DEF Init
  <2>4. Init => notice \in Notices /\ todo \in Seq(Writes)
    BY DEF Init, Notices
  <2>5. Init => TypeOK
    BY <2>2, <2>3, <2>4 DEF Init, TypeOK
  <2>. QED BY <2>1, <2>5
<1>2. TypeOK /\ CartKnown /\ [Next]_vars => TypeOK' /\ CartKnown'
  BY TypeStep, CartStep
<1>. QED BY <1>1, <1>2, PTL DEF Spec
-----------------------------------------------------------------------------
(* The inductive invariant.                                                *)

\* What a session is while there is none.
NoSession ==
    /\ mode = 0 /\ frames = 0 /\ capFailed = FALSE
    /\ playing = NoFile /\ seedEnv = FALSE

\* The request the markers carry, once all of them are down.
RecAsked == ask.kind = "REC" /\ ask \in Asks /\ tmp.recslot = ask.slot
PlayAsked(file) == ask.kind = "PLAY" /\ ask \in Asks /\ tmp.recslot = ask.slot /\ file = ask.file

MarkersMatch ==
    /\ tmp.recmode = "REC" => RecAsked
    /\ tmp.recmode = "PLAY" => PlayAsked(tmp.playfile)

\* How far an arming process has come.
ArmingPlan ==
    \/ todo \in {<< >>, <<ResetMark>>, <<Warn("restarted"), ResetMark>>,
                 <<Warn("stopped"), ResetMark>>} /\ MarkersMatch
    \/ /\ todo \in {<<Rec, ResetMark>>, <<Rec, Warn("restarted"), ResetMark>>}
       /\ tmp.recmode = "none" /\ RecAsked
    \/ todo = <<Play, ResetMark>> /\ tmp.recmode = "none" /\ PlayAsked(tmp.playfile)
    \/ \E p \in Paths \cup {NoFile} :
          todo = <<Pick(p), Play, ResetMark>> /\ tmp.recmode = "none" /\ PlayAsked(p)

SessionInv ==
    /\ pc \in {"wait", "start"} => NoSession /\ MarkersMatch
    /\ pc = "down" => NoSession /\ (tmp.reset => MarkersMatch)
    /\ pc = "arming" => ArmingPlan /\ (todo # << >> => ~tmp.reset)
    /\ pc # "arming" => todo = << >>
    /\ pc \in {"wait", "start", "game", "swap", "quit"} => ~tmp.reset
    /\ pc \in {"game", "swap", "quit"} =>
          tmp.recmode = "none" /\ seedEnv = (mode # 0) /\ recCart \in Carts
    /\ pc \in {"start", "game", "swap"} => cart \in Carts
    /\ pc = "swap" => NoSession
    /\ pc = "game" => cart = recCart
    /\ mode = 0 => NoSession
    /\ capFailed => mode = 1 /\ frames = MaxFrames
    /\ SessionAsAsked
    /\ PlaysOwnTake

\* The environment of the passing runs: /tmp fails only the one write that is
\* checked, and nobody leaves the core between the _exit(0) and the handler.
Supported == Unwritable \subseteq {"recslot"} /\ ~SwitchInRespawn

IInv == TypeOK /\ CartKnown /\ SessionInv

\* With nothing left to write the markers carry the request.
LEMMA PlanDone == ASSUME ArmingPlan, todo = << >> PROVE MarkersMatch
<1>1. /\ << >> # <<Rec, ResetMark>> /\ << >> # <<Rec, Warn("restarted"), ResetMark>>
      /\ << >> # <<Play, ResetMark>>
  OBVIOUS
<1>2. \A p : << >> # <<Pick(p), Play, ResetMark>>
  OBVIOUS
<1>. QED BY <1>1, <1>2 DEF ArmingPlan

\* LeaveGame keeps the session invariant.
LEMMA SessionLeaveGame == ASSUME IInv, Supported, LeaveGame PROVE SessionInv'
  BY
     DEF IInv, CartKnown, SessionInv, NoSession, SessionAsAsked, PlaysOwnTake,
         BelongsTo, TakeAt, LeaveGame, InGame, disk, carts, session, screen

\* RequestExit keeps the session invariant.
LEMMA SessionRequestExit == ASSUME IInv, Supported, RequestExit PROVE SessionInv'
  BY
     DEF IInv, CartKnown, SessionInv, NoSession, SessionAsAsked, PlaysOwnTake,
         BelongsTo, TakeAt, RequestExit, Menu, disk, carts, session, screen

\* OsdMount keeps the session invariant.
LEMMA SessionOsdMount ==
    ASSUME IInv, Supported, NEW c \in Carts, OsdMount(c)
    PROVE  SessionInv'
  BY
     DEF IInv, CartKnown, SessionInv, NoSession, SessionAsAsked, PlaysOwnTake,
         BelongsTo, TakeAt, OsdMount, disk, carts, session, screen, MarkersMatch, RecAsked,
         PlayAsked

\* OsdPick keeps the session invariant.
LEMMA SessionOsdPick ==
    ASSUME IInv, Supported, NEW p \in Paths, OsdPick(p)
    PROVE  SessionInv'
  BY
     DEF IInv, CartKnown, SessionInv, NoSession, SessionAsAsked, PlaysOwnTake,
         BelongsTo, TakeAt, OsdPick, InGame, disk, carts, session, screen, MarkersMatch,
         RecAsked, PlayAsked

\* GameEndedBySwap keeps the session invariant.
LEMMA SessionGameEndedBySwap ==
    ASSUME IInv, Supported, GameEndedBySwap
    PROVE  SessionInv'
  BY
     DEF IInv, CartKnown, SessionInv, NoSession, SessionAsAsked, PlaysOwnTake,
         BelongsTo, TakeAt, GameEndedBySwap, disk, carts, session, screen, MarkersMatch,
         RecAsked, PlayAsked

\* GameEndedByQuit keeps the session invariant.
LEMMA SessionGameEndedByQuit ==
    ASSUME IInv, Supported, GameEndedByQuit
    PROVE  SessionInv'
  BY
     DEF IInv, CartKnown, SessionInv, NoSession, SessionAsAsked, PlaysOwnTake,
         BelongsTo, TakeAt, GameEndedByQuit, EndSessionIfAny, EndSession, disk, carts,
         session, screen, MarkersMatch, RecAsked, PlayAsked

\* HotSwap keeps the session invariant.
LEMMA SessionHotSwap == ASSUME IInv, Supported, HotSwap PROVE SessionInv'
  BY
     DEF IInv, CartKnown, SessionInv, NoSession, SessionAsAsked, PlaysOwnTake,
         BelongsTo, TakeAt, HotSwap, InGame, EndSessionIfAny, EndSession, TypeOK, disk,
         carts, session, screen, MarkersMatch, RecAsked, PlayAsked

\* Mount keeps the session invariant.
LEMMA SessionMount == ASSUME IInv, Supported, Mount PROVE SessionInv'
  BY
     DEF IInv, CartKnown, SessionInv, NoSession, SessionAsAsked, PlaysOwnTake,
         BelongsTo, TakeAt, Mount, TypeOK, disk, carts, session, screen, MarkersMatch,
         RecAsked, PlayAsked

\* Shutdown keeps the session invariant.
LEMMA SessionShutdown == ASSUME IInv, Supported, Shutdown PROVE SessionInv'
  BY
     DEF IInv, CartKnown, SessionInv, NoSession, SessionAsAsked, PlaysOwnTake,
         BelongsTo, TakeAt, Shutdown, Menu, FreshMemory, disk, carts, session, screen,
         MarkersMatch, RecAsked, PlayAsked

\* CoreSwitch keeps the session invariant.
LEMMA SessionCoreSwitch == ASSUME IInv, Supported, CoreSwitch PROVE SessionInv'
  BY
     DEF IInv, CartKnown, SessionInv, NoSession, SessionAsAsked, PlaysOwnTake,
         BelongsTo, TakeAt, CoreSwitch, Supported, FreshMemory, disk, carts, session,
         screen, MarkersMatch, RecAsked, PlayAsked

\* Handler keeps the session invariant.
LEMMA SessionHandler == ASSUME IInv, Supported, Handler PROVE SessionInv'
  BY
     DEF IInv, CartKnown, SessionInv, NoSession, SessionAsAsked, PlaysOwnTake,
         BelongsTo, TakeAt, Handler, StaleRecmode, disk, carts, session, screen,
         MarkersMatch, RecAsked, PlayAsked

\* RecordFrame keeps the session invariant.
LEMMA SessionRecordFrame == ASSUME IInv, Supported, RecordFrame PROVE SessionInv'
  BY RecorderConstants
     DEF IInv, TypeOK, CartKnown, SessionInv, NoSession, SessionAsAsked, PlaysOwnTake,
         BelongsTo, TakeAt, RecordFrame, InGame, disk, carts, session, screen

\* SlotPrev keeps the session invariant.
LEMMA SessionSlotPrev == ASSUME IInv, Supported, SlotPrev PROVE SessionInv'
  BY
     DEF IInv, CartKnown, SessionInv, NoSession, SessionAsAsked, PlaysOwnTake,
         BelongsTo, TakeAt, SlotPrev, Menu, disk, carts, session, screen

\* SlotNext keeps the session invariant.
LEMMA SessionSlotNext == ASSUME IInv, Supported, SlotNext PROVE SessionInv'
  BY
     DEF IInv, CartKnown, SessionInv, NoSession, SessionAsAsked, PlaysOwnTake,
         BelongsTo, TakeAt, SlotNext, Menu, disk, carts, session, screen

\* AdoptOsdSlot keeps the session invariant.
LEMMA SessionAdoptOsdSlot ==
    ASSUME IInv, Supported, NEW s \in Slots, AdoptOsdSlot(s)
    PROVE  SessionInv'
  BY
     DEF IInv, CartKnown, SessionInv, NoSession, SessionAsAsked, PlaysOwnTake,
         BelongsTo, TakeAt, AdoptOsdSlot, InGame, disk, carts, session, screen,
         WriteMarker, SlotMark, Truncated, NoMarkers, TypeOK, MarkerValues

\* ArmExit keeps the session invariant.
LEMMA SessionArmExit == ASSUME IInv, Supported, ArmExit PROVE SessionInv'
  BY PlanDone
     DEF IInv, CartKnown, SessionInv, NoSession, SessionAsAsked, PlaysOwnTake,
         BelongsTo, TakeAt, ArmExit, FreshMemory, disk, carts, session, screen,
         MarkersMatch, RecAsked, PlayAsked

\* Crash keeps the session invariant.
LEMMA SessionCrash == ASSUME IInv, Supported, Crash PROVE SessionInv'
<1>1. NoSession' /\ pc' = "down" /\ todo' = << >>
  BY DEF Crash, FreshMemory, NoSession
<1>2. tmp.reset => MarkersMatch
  BY PlanDone DEF IInv, TypeOK, SessionInv
<1>3. tmp'.reset => MarkersMatch'
  BY <1>2 DEF Crash, MarkersMatch, RecAsked, PlayAsked
<1>. QED
  BY <1>1, <1>3 DEF SessionInv, NoSession, SessionAsAsked, PlaysOwnTake

\* A session that ends while its cart goes on.
LEMMA SessionEnds ==
    ASSUME IInv, EndSession, pc = "game", UNCHANGED <<pc, tmp, carts, todo>>
    PROVE  SessionInv'
<1>1. NoSession' /\ pc' = "game"
  BY DEF EndSession, NoSession
<1>2. ~tmp'.reset /\ tmp'.recmode = "none" /\ recCart' \in Carts /\ cart' \in Carts
  BY DEF IInv, SessionInv, CartKnown, carts
<1>3. todo' = << >> /\ cart' = recCart'
  BY DEF IInv, SessionInv, CartKnown, carts
<1>4. seedEnv' = (mode' # 0)
  BY <1>1 DEF NoSession
<1>5. SessionAsAsked' /\ PlaysOwnTake'
  BY <1>1 DEF NoSession, SessionAsAsked, PlaysOwnTake
<1>. QED
  BY <1>1, <1>2, <1>3, <1>4, <1>5 DEF SessionInv, NoSession

\* PlaybackEnds keeps the session invariant.
LEMMA SessionPlaybackEnds == ASSUME IInv, PlaybackEnds PROVE SessionInv'
  BY SessionEnds DEF PlaybackEnds, InGame

\* LoadState keeps the session invariant.
LEMMA SessionLoadState == ASSUME IInv, LoadState PROVE SessionInv'
  BY SessionEnds DEF LoadState, InGame

\* RecordFrameOom keeps the session invariant.
LEMMA SessionRecordFrameOom == ASSUME IInv, RecordFrameOom PROVE SessionInv'
  BY SessionEnds DEF RecordFrameOom, InGame

\* While it records, the process has the slot the request named.
LEMMA RecordingSlot ==
    ASSUME IInv, pc = "game", mode = 1
    PROVE  SlotNow = slot /\ slot = ask.slot /\ ask.kind = "REC" /\ ask.cart = recCart
<1>1. ask.kind = "REC" /\ ask.cart = recCart /\ ask.slot = slot
  BY DEF IInv, SessionInv, SessionAsAsked
<1>2. ask \in Asks
  BY <1>1 DEF IInv, TypeOK, NoAsk
<1>3. slot \in Slots
  BY <1>1, <1>2 DEF Asks
<1>. QED BY <1>1, <1>3 DEF SlotNow

\* A write of the take that failed changes nothing but the notice.
LEMMA FailedWrite ==
    ASSUME IInv, pc = "game", mode = 1, NEW n \in Nat, WriteTake(n, FALSE)
    PROVE  slot' = slot /\ takes' = takes
  BY RecordingSlot DEF WriteTake

\* RecordFrameAtCap keeps the session invariant.
LEMMA SessionRecordFrameAtCap == ASSUME IInv, RecordFrameAtCap PROVE SessionInv'
<1>1. PICK ok \in BOOLEAN :
         /\ WriteTake(frames, ok)
         /\ IF ok THEN EndSession
            ELSE /\ capFailed' = TRUE
                 /\ UNCHANGED <<mode, frames, playing, seedEnv, ask>>
  BY DEF RecordFrameAtCap
<1>2. pc = "game" /\ mode = 1 /\ frames = MaxFrames /\ UNCHANGED <<pc, tmp, carts, todo>>
  BY DEF RecordFrameAtCap, InGame
<1>3. CASE ok
  BY <1>1, <1>2, <1>3, SessionEnds
<1>4. CASE ~ok
  <2>1. slot' = slot /\ takes' = takes
    <3>1. frames \in Nat
      BY RecorderConstants DEF IInv, TypeOK
    <3>2. WriteTake(frames, FALSE)
      <4>1. ok = FALSE
        BY <1>4, Zenon
      <4>. QED BY <1>1, <4>1
    <3>. QED BY <1>2, <3>1, <3>2, FailedWrite
  <2>2. UNCHANGED <<pc, tmp, carts, todo, mode, frames, playing, seedEnv, ask>> /\ capFailed' = TRUE
    BY <1>1, <1>2, <1>4
  <2>. QED
    BY <1>2, <2>1, <2>2
       DEF IInv, SessionInv, NoSession, SessionAsAsked, PlaysOwnTake, carts
<1>. QED BY <1>3, <1>4

\* StopRecording keeps the session invariant.
LEMMA SessionStopRecording == ASSUME IInv, StopRecording PROVE SessionInv'
<1>1. PICK ok \in BOOLEAN :
         /\ WriteTake(frames, ok)
         /\ IF WriteTakeOk(frames, ok) THEN EndSession ELSE UNCHANGED session
  BY DEF StopRecording
<1>2. pc = "game" /\ mode = 1 /\ UNCHANGED <<pc, tmp, carts, todo>>
  BY DEF StopRecording, Menu, IInv, SessionInv, NoSession
<1>3. CASE WriteTakeOk(frames, ok)
  BY <1>1, <1>2, <1>3, SessionEnds
<1>4. CASE ~WriteTakeOk(frames, ok)
  <2>1. slot' = slot /\ takes' = takes
    <3>1. frames \in Nat
      BY RecorderConstants DEF IInv, TypeOK
    <3>2. WriteTake(frames, FALSE)
      <4>1. ok = FALSE
        BY <1>4, Zenon DEF WriteTakeOk
      <4>. QED BY <1>1, <4>1
    <3>. QED BY <1>2, <3>1, <3>2, FailedWrite
  <2>2. UNCHANGED <<pc, tmp, carts, todo, mode, frames, playing, seedEnv, ask, capFailed>>
    BY <1>1, <1>2, <1>4 DEF session
  <2>. QED
    BY <1>2, <2>1, <2>2
       DEF IInv, SessionInv, NoSession, SessionAsAsked, PlaysOwnTake, carts, BelongsTo,
          TakeAt
<1>. QED BY <1>3, <1>4

-----------------------------------------------------------------------------
(* Requests.                                                               *)

\* What an arming process has left to do is what the request needs.
PlanFor(writes, what) ==
    \/ /\ what.kind = "REC"
       /\ writes \in {<<Rec, ResetMark>>, <<Rec, Warn("restarted"), ResetMark>>}
    \/ what.kind = "PLAY" /\ writes = <<Pick(what.file), Play, ResetMark>>

\* A request whose slot marker is down starts to arm.
LEMMA SessionArms ==
    ASSUME IInv, pc \in {"game", "swap"}, NEW what \in Asks, NEW writes,
           PlanFor(writes, what), WriteMarker(SlotMark(what.slot), TRUE),
           BeginArming(writes, what),
           UNCHANGED <<carts, mode, frames, capFailed, playing, seedEnv>>
    PROVE  SessionInv'
<1>1. tmp.recmode = "none" /\ ~tmp.reset /\ tmp \in MarkerValues
  BY DEF IInv, SessionInv, TypeOK
<1>2. tmp' = [tmp EXCEPT !.recslot = what.slot]
  BY DEF WriteMarker, SlotMark
<1>3. tmp'.recslot = what.slot /\ tmp'.recmode = "none" /\ ~tmp'.reset
  BY <1>1, <1>2 DEF MarkerValues
<1>4. ask' = what /\ todo' = writes /\ pc' = "arming"
  BY DEF BeginArming
<1>5. ArmingPlan'
  <2>1. CASE what.kind = "REC"
    BY <1>3, <1>4, <2>1 DEF PlanFor, ArmingPlan, RecAsked
  <2>2. CASE what.kind = "PLAY"
    <3>1. what.file \in Paths \cup {NoFile}
      BY DEF Asks
    <3>. QED BY <1>3, <1>4, <2>2, <3>1 DEF PlanFor, ArmingPlan, PlayAsked
  <2>. QED BY <2>1, <2>2 DEF PlanFor
<1>. QED
  BY <1>3, <1>4, <1>5 DEF IInv, SessionInv, NoSession, SessionAsAsked, PlaysOwnTake

\* A request whose slot marker could not be written leaves things as they are.
LEMMA SessionRefused ==
    ASSUME IInv, pc \in {"game", "swap"}, mode # 1, NEW s \in Slots,
           WriteMarker(SlotMark(s), FALSE),
           UNCHANGED <<pc, todo, ask, takes, carts, mode, frames, capFailed, playing, seedEnv>>
    PROVE  SessionInv'
<1>1. tmp.recmode = "none" /\ ~tmp.reset /\ tmp \in MarkerValues
  BY DEF IInv, SessionInv, TypeOK
<1>2. tmp' \in {tmp, [tmp EXCEPT !.recslot = 0]}
  BY DEF WriteMarker, SlotMark, Truncated, NoMarkers
<1>3. tmp'.recmode = "none" /\ ~tmp'.reset
  BY <1>1, <1>2 DEF MarkerValues
<1>. QED
  BY <1>3
     DEF IInv, SessionInv, NoSession, SessionAsAsked, PlaysOwnTake, BelongsTo, TakeAt,
         carts

\* So a request of the idle recorder, or of a replay, keeps the invariant.
LEMMA SessionMarkSlot ==
    ASSUME IInv, pc \in {"game", "swap"}, mode # 1, NEW what \in Asks, NEW writes,
           PlanFor(writes, what), MarkSlotThen(what.slot, writes, what), Requesting
    PROVE  SessionInv'
<1>1. PICK ok \in BOOLEAN :
         /\ WriteMarker(SlotMark(what.slot), ok)
         /\ IF ok THEN BeginArming(writes, what) /\ UNCHANGED notice
            ELSE notice' = "refused" /\ UNCHANGED <<pc, todo, ask>>
  BY DEF MarkSlotThen
<1>2. UNCHANGED <<takes, carts, mode, frames, capFailed, playing, seedEnv>>
  BY DEF Requesting
<1>3. CASE ok
  BY <1>1, <1>2, <1>3, SessionArms
<1>4. CASE ~ok
  <2>1. what.slot \in Slots
    BY DEF Asks
  <2>. QED BY <1>1, <1>2, <1>4, <2>1, SessionRefused
<1>. QED BY <1>3, <1>4

\* What a request asks for is a well-formed request with a plan.
LEMMA AskPlan ==
    ASSUME recCart \in Carts, NEW s \in Slots
    PROVE  /\ Asking("REC", s, NoFile) \in Asks /\ Asking("REC", s, NoFile).slot = s
           /\ PlanFor(<<Rec, ResetMark>>, Asking("REC", s, NoFile))
           /\ PlanFor(<<Rec, Warn("restarted"), ResetMark>>, Asking("REC", s, NoFile))
           /\ \A f \in Paths \cup {NoFile} :
                 /\ Asking("PLAY", s, f) \in Asks /\ Asking("PLAY", s, f).slot = s
                 /\ PlanFor(<<Pick(f), Play, ResetMark>>, Asking("PLAY", s, f))
  BY AskType DEF Asking, PlanFor

\* RecordTake keeps the session invariant.
LEMMA SessionRecordTake == ASSUME IInv, RecordTake PROVE SessionInv'
  BY SessionMarkSlot, SlotNowType, AskPlan DEF RecordTake, Menu, IInv, CartKnown

\* PlaySlot keeps the session invariant.
LEMMA SessionPlaySlot == ASSUME IInv, PlaySlot PROVE SessionInv'
  BY SessionMarkSlot, SlotNowType, AskPlan DEF PlaySlot, Menu, IInv, CartKnown

\* OsdPlay keeps the session invariant.
LEMMA SessionOsdPlay == ASSUME IInv, NEW s \in Slots, OsdPlay(s) PROVE SessionInv'
  BY SessionMarkSlot, AskPlan DEF OsdPlay, IInv, CartKnown

\* LoadReplay keeps the session invariant.
LEMMA SessionLoadReplay == ASSUME IInv, LoadReplay PROVE SessionInv'
<1>1. CASE mode # 1 /\ ProbeOk(s1)
  <2>1. s1 \in Paths
    BY DEF LoadReplay, IInv, TypeOK
  <2>. QED
    BY <1>1, <2>1, SessionMarkSlot, SlotNowType, AskPlan DEF LoadReplay, IInv, CartKnown
<1>2. CASE ~(mode # 1 /\ ProbeOk(s1))
  BY <1>2 DEF LoadReplay, Requesting, IInv, SessionInv, NoSession, SessionAsAsked,
              PlaysOwnTake, BelongsTo, TakeAt, carts
<1>. QED BY <1>1, <1>2

\* An idle reset arms nothing.
LEMMA SessionArmsNothing ==
    ASSUME IInv, pc \in {"game", "swap"}, tmp'.recmode = "none", ~tmp'.reset,
           pc' = "arming",
           todo' \in {<<ResetMark>>, <<Warn("stopped"), ResetMark>>},
           UNCHANGED <<carts, mode, frames, capFailed, playing, seedEnv>>
    PROVE  SessionInv'
<1>1. ArmingPlan'
  BY DEF ArmingPlan, MarkersMatch
<1>. QED
  BY <1>1 DEF IInv, SessionInv, NoSession, SessionAsAsked, PlaysOwnTake

\* ResetCart keeps the session invariant.
LEMMA SessionResetCart == ASSUME IInv, ResetCart PROVE SessionInv'
<1>1. tmp'.recmode = "none" /\ ~tmp'.reset
  BY DEF ResetCart, Menu, IInv, SessionInv
<1>. QED
  BY <1>1, SessionArmsNothing DEF ResetCart, Menu, BeginArming, Requesting

\* RestartRecording keeps the session invariant.
LEMMA SessionRestartRecording == ASSUME IInv, RestartRecording PROVE SessionInv'
<1>1. PICK ok \in BOOLEAN :
         /\ WriteMarker(SlotMark(SlotNow), ok)
         /\ IF ok THEN BeginArming(<<Rec, Warn("restarted"), ResetMark>>,
                                   Asking("REC", SlotNow, NoFile))
            ELSE BeginArming(<<ResetMark>>, NoAsk)
  BY DEF RestartRecording
<1>2. pc \in {"game", "swap"} /\ recCart \in Carts
      /\ UNCHANGED <<carts, mode, frames, capFailed, playing, seedEnv>>
  BY DEF RestartRecording, Menu, IInv, CartKnown, Requesting
<1>3. CASE ok
  BY <1>1, <1>2, <1>3, SessionArms, AskPlan, SlotNowType
<1>4. CASE ~ok
  <2>1. tmp.recmode = "none" /\ ~tmp.reset /\ tmp \in MarkerValues
    BY <1>2 DEF IInv, SessionInv, TypeOK
  <2>2. tmp' \in {tmp, [tmp EXCEPT !.recslot = 0]}
    BY <1>1, <1>4 DEF WriteMarker, SlotMark, Truncated, NoMarkers
  <2>3. tmp'.recmode = "none" /\ ~tmp'.reset
    BY <2>1, <2>2 DEF MarkerValues
  <2>. QED BY <1>1, <1>2, <1>4, <2>3, SessionArmsNothing DEF BeginArming
<1>. QED BY <1>3, <1>4
-----------------------------------------------------------------------------
(* The arming process and the process it leaves the markers to.            *)

\* In a supported environment every write but the slot marker's succeeds.
LEMMA ArmWritten ==
    ASSUME Supported, NEW w, w.file # "recslot", NEW ok \in BOOLEAN, WriteMarker(w, ok)
    PROVE  tmp' = [tmp EXCEPT ![w.file] = w.value]
  BY DEF Supported, WriteMarker

\* Each write brings the plan one step further.
LEMMA SessionArmWrite == ASSUME IInv, Supported, ArmWrite PROVE SessionInv'
<1>1. pc = "arming" /\ pc' = "arming" /\ todo # << >> /\ ~tmp.reset /\ tmp \in MarkerValues
      /\ todo' = Tail(todo) /\ ArmingPlan
  BY DEF ArmWrite, IInv, SessionInv, TypeOK
<1>2. UNCHANGED <<takes, carts, mode, frames, capFailed, playing, seedEnv, ask>>
  BY DEF ArmWrite, disk, session
<1>3. Head(todo).file # "recslot" => tmp' = [tmp EXCEPT ![Head(todo).file] = Head(todo).value]
  BY ArmWritten DEF ArmWrite
<1>4. ArmingPlan' /\ (todo' # << >> => ~tmp'.reset)
  <2>1. CASE todo = <<ResetMark>> /\ MarkersMatch
    <3>1. Head(todo) = ResetMark /\ todo' = << >>
      BY <1>1, <2>1
    <3>2. tmp' = [tmp EXCEPT !.reset = TRUE]
      BY <1>3, <3>1 DEF ResetMark
    <3>3. MarkersMatch'
      BY <1>1, <1>2, <2>1, <3>2 DEF MarkersMatch, RecAsked, PlayAsked, MarkerValues
    <3>. QED BY <3>1, <3>3 DEF ArmingPlan
  <2>2. ASSUME NEW t \in {"restarted", "stopped"}, todo = <<Warn(t), ResetMark>>, MarkersMatch
        PROVE  ArmingPlan' /\ (todo' # << >> => ~tmp'.reset)
    <3>1. Head(todo) = Warn(t) /\ todo' = <<ResetMark>>
      BY <1>1, <2>2
    <3>2. tmp' = [tmp EXCEPT !.warn = t]
      BY <1>3, <3>1 DEF Warn
    <3>3. MarkersMatch' /\ ~tmp'.reset
      BY <1>1, <1>2, <2>2, <3>2 DEF MarkersMatch, RecAsked, PlayAsked, MarkerValues
    <3>. QED BY <3>1, <3>3 DEF ArmingPlan
  <2>3. ASSUME NEW rest, todo = <<Rec>> \o rest,
               rest \in {<<ResetMark>>, <<Warn("restarted"), ResetMark>>}, RecAsked
        PROVE  ArmingPlan' /\ (todo' # << >> => ~tmp'.reset)
    <3>1. Head(todo) = Rec /\ todo' = rest
      BY <1>1, <2>3
    <3>2. tmp' = [tmp EXCEPT !.recmode = "REC"]
      BY <1>3, <3>1 DEF Rec
    <3>3. MarkersMatch' /\ ~tmp'.reset
      BY <1>1, <1>2, <2>3, <3>2 DEF MarkersMatch, RecAsked, MarkerValues
    <3>. QED BY <2>3, <3>1, <3>3 DEF ArmingPlan
  <2>4. CASE todo = <<Play, ResetMark>> /\ PlayAsked(tmp.playfile)
    <3>1. Head(todo) = Play /\ todo' = <<ResetMark>>
      BY <1>1, <2>4
    <3>2. tmp' = [tmp EXCEPT !.recmode = "PLAY"]
      BY <1>3, <3>1 DEF Play
    <3>3. MarkersMatch' /\ ~tmp'.reset
      BY <1>1, <1>2, <2>4, <3>2 DEF MarkersMatch, PlayAsked, MarkerValues
    <3>. QED BY <3>1, <3>3 DEF ArmingPlan
  <2>5. ASSUME NEW p \in Paths \cup {NoFile}, todo = <<Pick(p), Play, ResetMark>>,
               tmp.recmode = "none", PlayAsked(p)
        PROVE  ArmingPlan' /\ (todo' # << >> => ~tmp'.reset)
    <3>1. Head(todo) = Pick(p) /\ todo' = <<Play, ResetMark>>
      BY <1>1, <2>5
    <3>2. tmp' = [tmp EXCEPT !.playfile = p]
      BY <1>3, <3>1 DEF Pick
    <3>3. tmp'.recmode = "none" /\ PlayAsked(tmp.playfile)' /\ ~tmp'.reset
      BY <1>1, <1>2, <2>5, <3>2 DEF PlayAsked, MarkerValues
    <3>. QED BY <3>1, <3>3 DEF ArmingPlan
  <2>6. CASE /\ todo \in {<<Rec, ResetMark>>, <<Rec, Warn("restarted"), ResetMark>>}
             /\ RecAsked
    <3>1. CASE todo = <<Rec, ResetMark>>
      <4>1. todo = <<Rec>> \o <<ResetMark>>
        BY <3>1
      <4>. QED BY <2>3, <2>6, <4>1
    <3>2. CASE todo = <<Rec, Warn("restarted"), ResetMark>>
      <4>1. todo = <<Rec>> \o <<Warn("restarted"), ResetMark>>
        BY <3>2
      <4>. QED BY <2>3, <2>6, <4>1
    <3>. QED BY <2>6, <3>1, <3>2
  <2>. QED BY <1>1, <2>1, <2>2, <2>4, <2>5, <2>6 DEF ArmingPlan
<1>. QED
  BY <1>1, <1>2, <1>4 DEF IInv, SessionInv, NoSession, SessionAsAsked, PlaysOwnTake

\* The slot the respawned process finds is the slot the request named.
LEMMA SlotFound ==
    ASSUME IInv, ask \in Asks, tmp.recslot = ask.slot
    PROVE  tmp.recslot \in Slots
  BY DEF Asks

\* A cart that starts, with or without a session.
LEMMA SessionStarts ==
    ASSUME pc' = "game", tmp'.recmode = "none", ~tmp'.reset, todo' = << >>,
           recCart' \in Carts, cart' = recCart', seedEnv' = (mode' # 0), ~capFailed',
           mode' = 0 => NoSession', SessionAsAsked', PlaysOwnTake'
    PROVE  SessionInv'
  BY DEF SessionInv

\* The markers are answered by the session they ask for, or by none.
LEMMA SessionStartCart == ASSUME IInv, StartCart PROVE SessionInv'
<1> DEFINE found == IF tmp.recslot \in Slots THEN tmp.recslot ELSE slot
           slotNow == IF found \in Slots THEN found ELSE 1
<1>1. NoSession /\ MarkersMatch /\ ~tmp.reset /\ todo = << >> /\ cart \in Carts
      /\ tmp \in MarkerValues
  BY DEF StartCart, IInv, SessionInv, TypeOK
<1>2. pc' = "game" /\ recCart' = cart /\ UNCHANGED <<cart, takes, todo>>
  BY DEF StartCart
<1>3. tmp'.recmode = "none" /\ ~tmp'.reset
  BY <1>1 DEF StartCart, MarkerValues
<1>5. todo' = << >> /\ recCart' \in Carts /\ cart' = recCart'
  BY <1>1, <1>2
<1>4. CASE ArmNone \/ EndSession
  <2>1. NoSession'
    BY <1>1, <1>4 DEF ArmNone, EndSession, NoSession
  <2>2. seedEnv' = (mode' # 0) /\ ~capFailed'
    BY <2>1 DEF NoSession
  <2>3. SessionAsAsked' /\ PlaysOwnTake'
    BY <2>1 DEF NoSession, SessionAsAsked, PlaysOwnTake
  <2>. QED BY <1>2, <1>3, <1>5, <2>1, <2>2, <2>3, SessionStarts
<1>6. CASE tmp.recmode = "REC" /\ Arm(1, NoFile)
  <2>1. RecAsked
    BY <1>1, <1>6 DEF MarkersMatch
  <2>2. slot' = ask.slot
    BY <1>6, <2>1, SlotFound DEF StartCart, RecAsked
  <2>3. ask' = [ask EXCEPT !.cart = cart]
    BY <1>6, <2>1 DEF Arm, RecAsked, NoAsk
  <2>4. ask'.kind = "REC" /\ ask'.cart = cart /\ ask'.slot = ask.slot
    BY <2>1, <2>3 DEF RecAsked, Asks
  <2>5. mode' = 1 /\ seedEnv' = TRUE /\ capFailed' = FALSE
    BY <1>1, <1>6 DEF Arm, NoSession
  <2>6. seedEnv' = (mode' # 0) /\ ~capFailed' /\ mode' # 0
    <3>1. mode' # 0 /\ ~capFailed'
      BY <2>5
    <3>2. seedEnv' = (mode' # 0)
      BY <2>5, <3>1, Zenon
    <3>. QED BY <3>1, <3>2
  <2>7. SessionAsAsked' /\ PlaysOwnTake'
    BY <1>2, <2>2, <2>4, <2>5 DEF SessionAsAsked, PlaysOwnTake
  <2>. QED BY <1>2, <1>3, <1>5, <2>6, <2>7, SessionStarts
<1>7. CASE /\ tmp.recmode = "PLAY" /\ Arm(2, PlayPath(slotNow))
           /\ BelongsTo(PlayPath(slotNow), cart)
  <2>1. PlayAsked(tmp.playfile)
    BY <1>1, <1>7 DEF MarkersMatch
  <2>2. slotNow = ask.slot /\ tmp.playfile = ask.file
    BY <2>1, SlotFound DEF PlayAsked
  <2>3. ask' = [ask EXCEPT !.cart = cart]
    BY <1>7, <2>1 DEF Arm, PlayAsked, NoAsk
  <2>4. ask'.kind = "PLAY" /\ ask'.cart = cart /\ ask'.slot = ask.slot
        /\ ask'.file = ask.file
    BY <2>1, <2>3 DEF PlayAsked, Asks
  <2>5. mode' = 2 /\ seedEnv' = TRUE /\ capFailed' = FALSE
    BY <1>1, <1>7 DEF Arm, NoSession
  <2>6. playing' = PlayPath(slotNow)
    BY <1>7 DEF Arm
  <2>7. playing' = IF ask'.file # NoFile THEN ask'.file ELSE <<ask'.cart, ask'.slot>>
    BY <2>2, <2>4, <2>6 DEF PlayPath
  <2>8. BelongsTo(playing, recCart)'
    BY <1>2, <1>7, <2>6 DEF BelongsTo, TakeAt
  <2>9. seedEnv' = (mode' # 0) /\ ~capFailed' /\ mode' # 0
    <3>1. mode' # 0 /\ ~capFailed'
      BY <2>5
    <3>2. seedEnv' = (mode' # 0)
      BY <2>5, <3>1, Zenon
    <3>. QED BY <3>1, <3>2
  <2>10. SessionAsAsked' /\ PlaysOwnTake'
    BY <1>2, <2>4, <2>5, <2>7, <2>8 DEF SessionAsAsked, PlaysOwnTake
  <2>. QED BY <1>2, <1>3, <1>5, <2>9, <2>10, SessionStarts
<1>8. ArmNone \/ ArmRec \/ ArmPlay(slotNow)
  BY DEF StartCart
<1>. QED BY <1>4, <1>6, <1>7, <1>8 DEF ArmRec, ArmPlay, LoadOk
-----------------------------------------------------------------------------
(* The theorems.                                                           *)

\* Every step keeps the inductive invariant.
LEMMA SessionStep == ASSUME IInv, Supported, [Next]_vars PROVE SessionInv'
<1>1. CASE RecordTake
  BY <1>1, SessionRecordTake
<1>2. CASE PlaySlot
  BY <1>2, SessionPlaySlot
<1>3. CASE LoadReplay
  BY <1>3, SessionLoadReplay
<1>4. CASE RestartRecording
  BY <1>4, SessionRestartRecording
<1>5. CASE ResetCart
  BY <1>5, SessionResetCart
<1>6. ASSUME NEW s \in Slots, OsdPlay(s) PROVE SessionInv'
  BY <1>6, SessionOsdPlay
<1>7. CASE RecordFrame
  BY <1>7, SessionRecordFrame
<1>8. CASE RecordFrameOom
  BY <1>8, SessionRecordFrameOom
<1>9. CASE RecordFrameAtCap
  BY <1>9, SessionRecordFrameAtCap
<1>10. CASE StopRecording
  BY <1>10, SessionStopRecording
<1>11. CASE PlaybackEnds
  BY <1>11, SessionPlaybackEnds
<1>12. CASE LoadState
  BY <1>12, SessionLoadState
<1>13. CASE SlotPrev
  BY <1>13, SessionSlotPrev
<1>14. CASE SlotNext
  BY <1>14, SessionSlotNext
<1>15. ASSUME NEW s \in Slots, AdoptOsdSlot(s) PROVE SessionInv'
  BY <1>15, SessionAdoptOsdSlot
<1>16. CASE HotSwap
  BY <1>16, SessionHotSwap
<1>17. CASE RequestExit
  BY <1>17, SessionRequestExit
<1>18. CASE LeaveGame
  BY <1>18, SessionLeaveGame
<1>19. CASE GameEndedBySwap
  BY <1>19, SessionGameEndedBySwap
<1>20. CASE GameEndedByQuit
  BY <1>20, SessionGameEndedByQuit
<1>21. CASE Shutdown
  BY <1>21, SessionShutdown
<1>22. CASE ArmWrite
  BY <1>22, SessionArmWrite
<1>23. CASE ArmExit
  BY <1>23, SessionArmExit
<1>24. CASE Handler
  BY <1>24, SessionHandler
<1>25. CASE Mount
  BY <1>25, SessionMount
<1>26. CASE StartCart
  BY <1>26, SessionStartCart
<1>27. ASSUME NEW c \in Carts, OsdMount(c) PROVE SessionInv'
  BY <1>27, SessionOsdMount
<1>28. ASSUME NEW p \in Paths, OsdPick(p) PROVE SessionInv'
  BY <1>28, SessionOsdPick
<1>29. CASE Crash
  BY <1>29, SessionCrash
<1>30. CASE CoreSwitch
  BY <1>30, SessionCoreSwitch
<1>31. CASE UNCHANGED vars
  BY <1>31 DEF vars, disk, carts, session, screen, IInv, SessionInv, NoSession,
              MarkersMatch, RecAsked, PlayAsked, ArmingPlan, SessionAsAsked,
              PlaysOwnTake, BelongsTo, TakeAt
<1>. QED
  BY <1>1, <1>2, <1>3, <1>4, <1>5, <1>6, <1>7, <1>8, <1>9, <1>10, <1>11, <1>12, <1>13,
     <1>14, <1>15, <1>16, <1>17, <1>18, <1>19, <1>20, <1>21, <1>22, <1>23, <1>24, <1>25,
     <1>26, <1>27, <1>28, <1>29, <1>30, <1>31
     DEF Next, Requests, Loop, Respawn, World

\* The invariant holds initially.
LEMMA SessionInit == ASSUME Init PROVE SessionInv
  BY DEF Init, SessionInv, NoSession, NoMarkers, NoAsk, SessionAsAsked, PlaysOwnTake,
         MarkersMatch, ArmingPlan

\* The inductive invariant, in a supported environment.
LEMMA Inductive == ASSUME Supported PROVE Spec => []IInv
<1>1. Init => SessionInv
  BY SessionInit
<1>2. IInv /\ [Next]_vars => SessionInv'
  BY SessionStep
<1>3. Spec => []TypeOK /\ []CartKnown
  BY TypeCorrect, PTL
<1>4. TypeOK /\ CartKnown /\ SessionInv => IInv
  BY DEF IInv
<1>. QED BY <1>1, <1>2, <1>3, <1>4, PTL DEF Spec

\* A session answers the request that was made, for any number of carts,
\* slots and frames, through every interleaving of requests, mounts, crashes
\* and refused writes.
THEOREM SessionAnswersRequest == ASSUME Supported PROVE Spec => []SessionAsAsked
<1>1. IInv => SessionAsAsked
  BY DEF IInv, SessionInv
<1>. QED BY <1>1, Inductive, PTL

\* A replay never runs over a take of another cart.
THEOREM ReplayPlaysOwnTake == ASSUME Supported PROVE Spec => []PlaysOwnTake
<1>1. IInv => PlaysOwnTake
  BY DEF IInv, SessionInv
<1>. QED BY <1>1, Inductive, PTL

\* After a failed write at the cap the take is still there for Stop to retry.
THEOREM CapFailureIsRetried == ASSUME Supported PROVE Spec => []CapFailedCanRetry
<1>1. IInv => CapFailedCanRetry
  BY DEF IInv, SessionInv, CapFailedCanRetry
<1>. QED BY <1>1, Inductive, PTL

\* The recorded seed is set in no game but a session's.
THEOREM SeedFollowsSession == ASSUME Supported PROVE Spec => []SeedOnlyInSession
<1>1. IInv => SeedOnlyInSession
  BY DEF IInv, SessionInv, SeedOnlyInSession, NoSession
<1>. QED BY <1>1, Inductive, PTL
-----------------------------------------------------------------------------
(* Who writes the slots.                                                   *)

\* The write of a recording that was asked for changes its own slot only, and
\* to what the recording captured.
LEMMA WriteAsAsked ==
    ASSUME IInv, pc = "game", mode = 1, NEW n \in {frames, frames + 1},
           NEW ok \in BOOLEAN, WriteTake(n, ok), NEW p \in SlotPaths,
           takes'[p] # takes[p]
    PROVE  WrittenAsAsked(p)
<1>1. SlotNow = slot /\ slot = ask.slot /\ ask.kind = "REC" /\ ask.cart = recCart
  BY RecordingSlot
<1>2. takes \in [SlotPaths -> Takes \cup {NoTake}]
  BY DEF IInv, TypeOK
<1>3. takes' = [takes EXCEPT ![<<recCart, SlotNow>>] = [cart |-> recCart, frames |-> n]]
  BY DEF WriteTake
<1>4. p = <<recCart, SlotNow>>
  BY <1>2, <1>3
<1>5. takes'[p] = [cart |-> recCart, frames |-> n]
  BY <1>2, <1>3, <1>4
<1>. QED BY <1>1, <1>4, <1>5 DEF WrittenAsAsked

\* Steps that write no take.
NoWrite == Next /\ ~RecordFrameOom /\ ~RecordFrameAtCap /\ ~StopRecording

\* Nothing but the three writers touches the slots.
LEMMA SlotsUntouched == ASSUME NoWrite PROVE takes' = takes
<1>1. CASE RecordTake
  BY <1>1 DEF RecordTake, Requesting
<1>2. CASE PlaySlot
  BY <1>2 DEF PlaySlot, Requesting
<1>3. CASE LoadReplay
  BY <1>3 DEF LoadReplay, Requesting
<1>4. CASE RestartRecording
  BY <1>4 DEF RestartRecording, Requesting
<1>5. CASE ResetCart
  BY <1>5 DEF ResetCart, Requesting
<1>6. ASSUME NEW s \in Slots, OsdPlay(s) PROVE takes' = takes
  BY <1>6 DEF OsdPlay, Requesting
<1>7. CASE RecordFrame
  BY <1>7 DEF RecordFrame, disk
<1>8. CASE PlaybackEnds
  BY <1>8 DEF PlaybackEnds, disk
<1>9. CASE LoadState
  BY <1>9 DEF LoadState, disk
<1>10. CASE SlotPrev
  BY <1>10 DEF SlotPrev, disk
<1>11. CASE SlotNext
  BY <1>11 DEF SlotNext, disk
<1>12. ASSUME NEW s \in Slots, AdoptOsdSlot(s) PROVE takes' = takes
  BY <1>12 DEF AdoptOsdSlot, disk
<1>13. CASE HotSwap
  BY <1>13 DEF HotSwap, disk
<1>14. CASE RequestExit
  BY <1>14 DEF RequestExit, disk
<1>15. CASE LeaveGame
  BY <1>15 DEF LeaveGame, disk
<1>16. CASE GameEndedBySwap
  BY <1>16 DEF GameEndedBySwap, disk
<1>17. CASE GameEndedByQuit
  BY <1>17 DEF GameEndedByQuit, disk
<1>18. CASE Shutdown
  BY <1>18 DEF Shutdown, disk
<1>19. CASE ArmWrite
  BY <1>19 DEF ArmWrite, disk
<1>20. CASE ArmExit
  BY <1>20 DEF ArmExit, disk
<1>21. CASE Handler
  BY <1>21 DEF Handler, disk
<1>22. CASE Mount
  BY <1>22 DEF Mount, disk
<1>23. CASE StartCart
  BY <1>23 DEF StartCart, disk
<1>24. ASSUME NEW c \in Carts, OsdMount(c) PROVE takes' = takes
  BY <1>24 DEF OsdMount, disk
<1>25. ASSUME NEW p \in Paths, OsdPick(p) PROVE takes' = takes
  BY <1>25 DEF OsdPick, disk
<1>26. CASE Crash
  BY <1>26 DEF Crash, disk
<1>27. CASE CoreSwitch
  BY <1>27 DEF CoreSwitch, disk
<1>. QED
  BY <1>1, <1>2, <1>3, <1>4, <1>5, <1>6, <1>7, <1>8, <1>9, <1>10, <1>11, <1>12, <1>13,
     <1>14, <1>15, <1>16, <1>17, <1>18, <1>19, <1>20, <1>21, <1>22, <1>23, <1>24, <1>25,
     <1>26, <1>27
     DEF NoWrite, Next, Requests, Loop, Respawn, World

\* A take on the card changes only under the recording that was asked for with
\* that cart and that slot, and then to what it captured.
THEOREM TakesOnlyAsAsked == ASSUME Supported PROVE Spec => TakesWrittenAsAsked
<1>1. ASSUME IInv, [Next]_vars 
      PROVE [\A p \in SlotPaths : takes'[p] # takes[p] => WrittenAsAsked(p)]_vars
  <2>1. CASE RecordFrameOom
    <3>1. pc = "game" /\ mode = 1
      BY <2>1 DEF RecordFrameOom, InGame
    <3>2. PICK n \in {frames, frames + 1}, ok \in BOOLEAN : WriteTake(n, ok)
      BY <2>1 DEF RecordFrameOom
    <3>. QED BY <1>1, <3>1, <3>2, WriteAsAsked
  <2>2. CASE RecordFrameAtCap
    <3>1. pc = "game" /\ mode = 1
      BY <2>2 DEF RecordFrameAtCap, InGame
    <3>2. PICK ok \in BOOLEAN : WriteTake(frames, ok)
      BY <2>2 DEF RecordFrameAtCap
    <3>. QED BY <1>1, <3>1, <3>2, WriteAsAsked
  <2>3. CASE StopRecording
    <3>1. pc = "game" /\ mode = 1
      BY <1>1, <2>3 DEF StopRecording, Menu, IInv, SessionInv, NoSession
    <3>2. PICK ok \in BOOLEAN : WriteTake(frames, ok)
      BY <2>3 DEF StopRecording
    <3>. QED BY <1>1, <3>1, <3>2, WriteAsAsked
  <2>4. CASE NoWrite
    BY <2>4, SlotsUntouched
  <2>5. CASE UNCHANGED vars
    BY <2>5
  <2>. QED BY <1>1, <2>1, <2>2, <2>3, <2>4, <2>5 DEF NoWrite
<1>2. Spec => []IInv
  BY Inductive
<1>. QED BY <1>1, <1>2, PTL DEF Spec, TakesWrittenAsAsked
-----------------------------------------------------------------------------
(* How a recording ends.                                                   *)

\* What a recording loses, it loses with a word on the screen.
Lost == notice' \in {"lost", "discarded"}

\* The slot of a recording holds what was captured of it.
Captured == \E n \in {frames, frames + 1} :
                takes'[<<recCart, slot>>] = [cart |-> recCart, frames |-> n]

\* A write that succeeds leaves the take in the slot that was named.
LEMMA WriteCaptures ==
    ASSUME IInv, pc = "game", mode = 1, NEW n \in {frames, frames + 1}, n > 0,
           WriteTake(n, TRUE)
    PROVE  Captured
<1>1. SlotNow = slot /\ slot = ask.slot /\ ask.kind = "REC" /\ ask.cart = recCart
  BY RecordingSlot
<1>2. ask \in Asks /\ takes \in [SlotPaths -> Takes \cup {NoTake}]
  BY <1>1 DEF IInv, TypeOK, NoAsk
<1>3. <<recCart, slot>> \in SlotPaths
  BY <1>1, <1>2 DEF Asks, SlotPaths
<1>4. takes' = [takes EXCEPT ![<<recCart, slot>>] = [cart |-> recCart, frames |-> n]]
  BY <1>1 DEF WriteTake
<1>. QED BY <1>2, <1>3, <1>4 DEF Captured

\* The five ends of a recording.
LEMMA RecordingEnds ==
    ASSUME pc = "game", mode = 1, mode' = 0, pc' \in {"game", "swap"}, Next
    PROVE  RecordFrameOom \/ RecordFrameAtCap \/ StopRecording \/ LoadState \/ HotSwap
<1>1. ~RecordTake /\ ~PlaySlot /\ ~ResetCart
  BY DEF RecordTake, PlaySlot, ResetCart
<1>2. ~LoadReplay
  BY DEF LoadReplay, Requesting
<1>3. ~RestartRecording
  BY DEF RestartRecording, Requesting
<1>4. \A s \in Slots : ~OsdPlay(s) /\ ~AdoptOsdSlot(s)
  BY DEF OsdPlay, AdoptOsdSlot
<1>5. ~RecordFrame /\ ~PlaybackEnds /\ ~SlotPrev /\ ~SlotNext
  BY DEF RecordFrame, PlaybackEnds, SlotPrev, SlotNext
<1>6. ~RequestExit /\ ~LeaveGame /\ ~GameEndedBySwap /\ ~GameEndedByQuit /\ ~Shutdown
  BY DEF RequestExit, LeaveGame, GameEndedBySwap, GameEndedByQuit, Shutdown, session
<1>7. ~ArmWrite /\ ~ArmExit /\ ~Handler /\ ~Mount /\ ~StartCart
  BY DEF ArmWrite, ArmExit, Handler, Mount, StartCart
<1>8. \A c \in Carts : ~OsdMount(c)
  BY DEF OsdMount, session
<1>9. \A p \in Paths : ~OsdPick(p)
  BY DEF OsdPick, session
<1>10. ~Crash /\ ~CoreSwitch
  BY DEF Crash, CoreSwitch
<1>. QED
  BY <1>1, <1>2, <1>3, <1>4, <1>5, <1>6, <1>7, <1>8, <1>9, <1>10
     DEF Next, Requests, Loop, Respawn, World

\* While the process lives, what was captured leaves memory onto the card, into the
\* slot that was asked for, or the screen says that it is lost (the five ends of a
\* recording in mister_main.cpp and pico8/vm.cpp).
THEOREM CapturedOrTold == ASSUME Supported PROVE Spec => NoSilentLoss
<1>1. ASSUME IInv, Next, mode = 1, frames > 0, mode' = 0, pc = "game", pc' \in {"game", "swap"}
      PROVE  Captured \/ Lost
  <2>0. frames \in Nat
    BY <1>1 DEF IInv, TypeOK
  <2>1. CASE RecordFrameOom
    <3>1. PICK n \in {frames, frames + 1}, ok \in BOOLEAN :
              WriteTake(n, ok) /\ notice' = IF WriteTakeOk(n, ok) THEN "stopped" ELSE "lost"
      BY <2>1 DEF RecordFrameOom
    <3>2. n > 0
      BY <1>1, <2>0, <3>1
    <3>3. CASE ok = TRUE
      BY <1>1, <3>1, <3>2, <3>3, WriteCaptures
    <3>4. CASE ok = FALSE
      BY <3>1, <3>2, <3>4 DEF WriteTakeOk, Lost
    <3>. QED BY <3>3, <3>4
  <2>2. CASE RecordFrameAtCap
    <3>1. PICK ok \in BOOLEAN : WriteTake(frames, ok) /\ (~ok => mode' = mode)
      BY <2>2 DEF RecordFrameAtCap
    <3>2. ok = TRUE
      BY <1>1, <3>1
    <3>. QED BY <1>1, <3>1, <3>2, WriteCaptures
  <2>3. CASE StopRecording
    <3>1. PICK ok \in BOOLEAN : WriteTake(frames, ok) /\ (~WriteTakeOk(frames, ok) => UNCHANGED session)
      BY <2>3 DEF StopRecording
    <3>2. WriteTakeOk(frames, ok)
      BY <1>1, <3>1 DEF session
    <3>3. ok = TRUE
      BY <1>1, <3>1, <3>2 DEF WriteTakeOk
    <3>. QED BY <1>1, <3>1, <3>3, WriteCaptures
  <2>4. CASE LoadState \/ HotSwap
    BY <1>1, <2>4 DEF LoadState, HotSwap, Lost
  <2>. QED BY <1>1, <2>1, <2>2, <2>3, <2>4, RecordingEnds
<1>2. IInv /\ [Next]_vars =>
        [mode = 1 /\ frames > 0 /\ mode' = 0 /\ pc = "game" /\ pc' \in {"game", "swap"} =>
           \/ \E n \in {frames, frames + 1} :
                 takes'[<<recCart, slot>>] = [cart |-> recCart, frames |-> n]
           \/ notice' \in {"lost", "discarded"}]_vars
  BY <1>1 DEF Captured, Lost
<1>3. Spec => []IInv
  BY Inductive
<1>. QED BY <1>2, <1>3, PTL DEF Spec, NoSilentLoss
=============================================================================
