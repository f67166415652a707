-------------------------- MODULE ReplaySlotProofs --------------------------
(***************************************************************************)
(* ReplaySlot, for every number of slots and every width of the sequence   *)
(* numbers: what the pickers and the core make of a press.                 *)
(***************************************************************************)
EXTENDS ReplaySlot, Integers, TLAPS

\* Once anything was chosen in the pause menu, the word for the core names it.  The
\* core has seen it unless it is armed and has another sequence number.
PressInWord ==
    /\ pressed \in Slots => ctrl.slot = pressed
    /\ armed /\ ctrl.seq # armSeq => pressed \in Slots

\* Outside RESET the core follows the OSD; it is armed only there.
Tracking ==
    /\ ~reset => lastOsd = osd
    /\ reset => ~armed

\* A press that stands: it is on its way to the core, which then has to be armed, or
\* it has got there, and what Main has still to take is that press.
PressStands ==
    mover = "menu" =>
        /\ pressed \in Slots
        /\ ctrl.seq # armSeq => armed
        /\ ctrl.seq = armSeq => slot = pressed /\ push \in {NoSlot, pressed}
        /\ reset => word.slot = pressed /\ (osd # lastOsd => osd = pressed)

\* ... and the ARM does not adopt what was in the word before: it has not looked
\* since the press, or the core has made less than two frames since it looked.
PressComesBack ==
    mover = "menu" /\ ~fresh =>
        /\ ctrl.seq # armSeq => waited = 0
        /\ word.slot # pressed => waited <= 1

\* A core that has taken a press tells of it before it reads again.
TakenIsTold ==
    mover = "menu" /\ ctrl.seq = armSeq /\ word.slot # pressed => phase = "write"

SlotInv == TypeOK /\ PressInWord /\ Tracking /\ PressStands /\ PressComesBack /\ TakenIsTold

\* A Play in the core or in the word that the ARM has not seen was pressed.
PlayInv ==
    /\ rsCmd = 1 /\ rsSeq # word.seq => asked
    /\ primed /\ rsCmd = 1 /\ rsSeq # lastSeq => asked
    /\ SeesPlay => asked
-----------------------------------------------------------------------------
(* The sequence numbers.                                                   *)

\* The number after a press is one of the numbers, and not the one before.
LEMMA FollowingIsAnother ==
    ASSUME NEW s \in Seqs
    PROVE  Following(s) \in Seqs /\ Following(s) # s
<1>1. SeqMod \in Nat /\ SeqMod > 2 /\ s \in Nat /\ s < SeqMod
  BY SlotConstants DEF Seqs
<1>2. Following(s) = IF s + 1 = SeqMod THEN 0 ELSE s + 1
  BY <1>1 DEF Following
<1> QED
  BY <1>1, <1>2 DEF Seqs

\* As long as the bound on the presses holds, a new one is not taken for the last
\* the core has seen.
LEMMA NoWrap ==
    ASSUME NEW s \in Seqs, NEW t \in Seqs, Unseen(s, t) < SeqMod - 1
    PROVE  Following(s) # t
<1>1. SeqMod \in Nat /\ SeqMod > 2 /\ s \in 0 .. SeqMod - 1 /\ t \in 0 .. SeqMod - 1
  BY SlotConstants DEF Seqs
<1>2. Unseen(s, t) = IF s >= t THEN s - t ELSE s + SeqMod - t
  BY <1>1 DEF Unseen
<1>3. Following(s) = IF s + 1 = SeqMod THEN 0 ELSE s + 1
  BY <1>1 DEF Following
<1> QED
  BY <1>1, <1>2, <1>3
-----------------------------------------------------------------------------
(* The invariants.                                                         *)

LEMMA InitSlotInv == Init => SlotInv
<1> SUFFICES ASSUME Init PROVE SlotInv
  OBVIOUS
<1>1. 1 \in Slots /\ 0 \in Seqs /\ 0 \in 0 .. MinFrames /\ 0 \in 0 .. 1 /\ 0 \in 0 .. 2
  BY SlotConstants DEF Slots, Seqs
<1>2. TypeOK
  BY <1>1, Zenon DEF Init, TypeOK
<1> QED
  BY <1>2, SlotConstants
     DEF Init, SlotInv, PressInWord, Tracking, PressStands, PressComesBack, TakenIsTold

LEMMA StepSlotInv == SlotInv /\ [Next]_vars => SlotInv'
<1> SUFFICES ASSUME SlotInv, [Next]_vars PROVE SlotInv'
  OBVIOUS
<1> USE DEF SlotInv
<1> DEFINE Rest == PressInWord /\ Tracking /\ PressStands /\ PressComesBack /\ TakenIsTold
<1>1. ASSUME NEW s \in Slots, OsdMove(s) PROVE SlotInv'
  <2>1. TypeOK'
    BY <1>1 DEF OsdMove, Status, TypeOK, arm
  <2>2. Rest'
    BY <1>1 DEF OsdMove, Status, arm, PressInWord, Tracking, PressStands, PressComesBack, TakenIsTold
  <2> QED
    BY <2>1, <2>2
<1>2. ASSUME NEW s \in Neighbours(rslot), SlotPress(s) PROVE SlotInv'
  <2>1. s \in Slots
    BY SlotConstants DEF TypeOK, Neighbours, Slots
  <2>2. ctrl \in Ctrls /\ ctrl.seq \in Seqs /\ armSeq \in Seqs
    BY DEF TypeOK, Ctrls
  <2>3. Following(ctrl.seq) \in Seqs /\ Following(ctrl.seq) # armSeq
    BY <1>2, <2>2, FollowingIsAnother, NoWrap DEF SlotPress
  <2>4. TypeOK'
    BY <1>2, <2>1, <2>3 DEF SlotPress, TypeOK, Ctrls, main, fpga
  <2>5. Rest'
    BY <1>2, <2>1, <2>3
       DEF SlotPress, main, fpga, PressInWord, Tracking, PressStands, PressComesBack, TakenIsTold
  <2> QED
    BY <2>4, <2>5
<1>3. CASE ResetOn
  <2>0. asked' \in BOOLEAN /\ rsCmd' \in 0 .. 1 /\ UNCHANGED main /\ UNCHANGED arm
    <3>1. 0 \in 0 .. 1
      OBVIOUS
    <3> QED
      BY <1>3, <3>1, Zenon DEF ResetOn
  <2>1. TypeOK'
    BY <1>3, <2>0, Zenon DEF ResetOn, TypeOK, main, arm
  <2>2. mover' = "menu" => mover = "menu" /\ Answered
    BY <1>3 DEF ResetOn, TypeOK
  <2>3. Rest'
    BY <1>3, <2>2 DEF ResetOn, Answered, main, arm, PressInWord, Tracking, PressStands,
                      PressComesBack, TakenIsTold
  <2> QED
    BY <2>1, <2>3
<1>4. ASSUME NEW s \in Noted(rslot), NEW m \in 0 .. 2, Started([slot |-> s, mode |-> m]),
             UNCHANGED <<main, fpga, word, ctrl, history>>
      PROVE  SlotInv'
  <2>1. 1 \in Slots /\ 0 \in Seqs /\ 0 \in 0 .. MinFrames
    BY SlotConstants DEF Slots, Seqs
  <2>a. rslot' \in Slots /\ mode' \in 0 .. 2 /\ marker' \in Slots \cup {NoSlot}
    BY <1>4, <2>1 DEF Started
  <2>2. TypeOK'
    BY <1>4, <2>1, <2>a DEF Started, TypeOK, main, fpga, history
  <2>3. Rest'
    BY <1>4 DEF Started, main, fpga, history, PressInWord, Tracking, PressStands, PressComesBack,
                TakenIsTold
  <2> QED
    BY <2>2, <2>3
<1>14. CASE Swap
  <2>1. rslot' \in Slots /\ mode' \in 0 .. 2 /\ marker' \in Slots \cup {NoSlot}
    BY <1>14 DEF Swap, TypeOK
  <2>2. TypeOK'
    BY <1>14, <2>1 DEF Swap, TypeOK, main, fpga, history
  <2>3. Rest'
    BY <1>14 DEF Swap, main, fpga, history, PressInWord, Tracking, PressStands, PressComesBack,
                 TakenIsTold
  <2> QED
    BY <2>2, <2>3
<1>5. CASE OsdPlay
  <2>1. TypeOK'
    BY <1>5, FollowingIsAnother DEF OsdPlay, TypeOK, main, arm
  <2>2. Rest'
    BY <1>5 DEF OsdPlay, main, arm, PressInWord, Tracking, PressStands, PressComesBack, TakenIsTold
  <2> QED
    BY <2>1, <2>2
<1>6. CASE TakePush
  <2>1. push \in Slots
    BY <1>6 DEF TakePush, TypeOK
  <2>2. TypeOK'
    BY <1>6, <2>1 DEF TakePush, Status, TypeOK, arm, history
  <2>3. Rest'
    BY <1>6 DEF TakePush, Status, arm, history, PressInWord, Tracking, PressStands, PressComesBack,
                TakenIsTold
  <2> QED
    BY <2>2, <2>3
<1>7. CASE FrameWrite
  <2>1. TypeOK'
    BY <1>7 DEF FrameWrite, TypeOK, Words, main, arm, history
  <2>2. word'.slot = slot
    BY <1>7 DEF FrameWrite
  <2>3. Rest'
    BY <1>7, <2>2 DEF FrameWrite, main, arm, history, PressInWord, Tracking, PressStands,
                      PressComesBack, TakenIsTold
  <2> QED
    BY <2>1, <2>3
<1>8. CASE FrameRead
  <2>1. waited' \in 0 .. MinFrames
    BY <1>8, SlotConstants DEF FrameRead, TypeOK
  <2>2. TypeOK'
    BY <1>8, <2>1 DEF FrameRead, TypeOK, Ctrls, history
  <2>3. waited \in Nat /\ (waited = 0 => waited' <= 1)
    BY <1>8, SlotConstants DEF FrameRead, TypeOK
  <2>4. PressInWord' /\ Tracking' /\ PressStands' /\ TakenIsTold'
    BY <1>8 DEF FrameRead, history, PressInWord, Tracking, PressStands, TakenIsTold
  <2>5. PressComesBack'
    BY <1>8, <2>3 DEF FrameRead, history, PressComesBack, TakenIsTold
  <2> QED
    BY <2>2, <2>4, <2>5
<1>9. CASE ResetOff
  <2>1. TypeOK'
    BY <1>9 DEF ResetOff, TypeOK, main, arm, history
  <2>2. Rest'
    BY <1>9 DEF ResetOff, main, arm, history, PressInWord, Tracking, PressStands, PressComesBack,
                TakenIsTold
  <2> QED
    BY <2>1, <2>2
<1>10. ASSUME Polled, rslot' \in {rslot, word.slot}, marker' \in Noted(word.slot)
       PROVE  SlotInv'
  <2>0. asked' \in BOOLEAN
    BY <1>10, Zenon DEF Polled, StillAsked, TypeOK
  <2>a. rslot' \in Slots /\ lastSeq' \in Seqs /\ waited' \in 0 .. MinFrames
    BY <1>10, SlotConstants DEF Polled, TypeOK, Words
  <2>b. marker' \in Slots \cup {NoSlot}
    BY <1>10 DEF Noted, TypeOK, Words
  <2>1. TypeOK'
    BY <1>10, <2>0, <2>a, <2>b, Zenon DEF Polled, TypeOK, main, fpga
  <2>2. Rest'
    BY <1>10 DEF Polled, main, fpga, PressInWord, Tracking, PressStands, PressComesBack,
                 TakenIsTold
  <2> QED
    BY <2>1, <2>2
<1>11. CASE PollPlays
  <2>1. PICK m \in {0, 2} : Started([slot |-> word.slot, mode |-> m])
    BY <1>11 DEF PollPlays
  <2>2. 0 \in Seqs /\ 0 \in 0 .. MinFrames
    BY SlotConstants DEF Seqs
  <2>0. asked' \in BOOLEAN
    BY <1>11, Zenon DEF PollPlays, StillAsked, TypeOK
  <2>a. word.slot \in Slots /\ m \in 0 .. 2
    BY DEF TypeOK, Words
  <2>b. rslot' \in Slots /\ mode' \in 0 .. 2 /\ marker' \in Slots \cup {NoSlot}
    BY <2>1, <2>a DEF Started
  <2>3. TypeOK'
    BY <1>11, <2>0, <2>b, <2>1, <2>2, Zenon DEF PollPlays, Started, TypeOK, main, fpga
  <2>4. Rest'
    BY <1>11, <2>1 DEF PollPlays, Started, main, fpga, PressInWord, Tracking, PressStands,
                       PressComesBack, TakenIsTold
  <2> QED
    BY <2>3, <2>4
<1>12. CASE SessionEnds
  <2>1. TypeOK'
    BY <1>12 DEF SessionEnds, TypeOK, main, fpga, history
  <2>2. Rest'
    BY <1>12 DEF SessionEnds, main, fpga, history, PressInWord, Tracking, PressStands,
                 PressComesBack, TakenIsTold
  <2> QED
    BY <2>1, <2>2
<1>13. CASE UNCHANGED vars
  BY <1>13 DEF vars, main, fpga, arm, history, TypeOK, PressInWord, Tracking, PressStands,
               PressComesBack, TakenIsTold
<1>15. CASE Poll \/ PollCommits
  BY <1>10, <1>15 DEF Poll, PollCommits, Noted
<1> QED
  BY <1>1, <1>2, <1>3, <1>4, <1>5, <1>6, <1>7, <1>8, <1>9, <1>11, <1>12, <1>13, <1>14, <1>15
     DEF Next, Moves, Respawn, AnyPoll

LEMMA SlotInvariance == Spec => []SlotInv
  BY InitSlotInv, StepSlotInv, PTL DEF Spec

\* What is true of a Play stays true: only a press makes one, and the poll that sees
\* it, or a reset that eats it, takes it off the account.
LEMMA StepPlayInv == SlotInv /\ PlayInv /\ [Next]_vars => PlayInv'
<1> SUFFICES ASSUME SlotInv, PlayInv, [Next]_vars PROVE PlayInv'
  OBVIOUS
<1> USE DEF PlayInv, SeesPlay
<1>1. ASSUME NEW s, OsdMove(s) PROVE PlayInv'
  BY <1>1 DEF OsdMove, arm
<1>2. ASSUME NEW s, SlotPress(s) PROVE PlayInv'
  BY <1>2 DEF SlotPress, fpga
<1>3. CASE ResetOn
  <2>1. rsCmd' = 0 /\ asked' = (asked /\ SeesPlay) /\ UNCHANGED <<word, arm>>
    BY <1>3, Zenon DEF ResetOn
  <2>2. SeesPlay' = SeesPlay
    BY <2>1 DEF arm
  <2>3. rsCmd' # 1
    BY <2>1
  <2> QED
    BY <2>1, <2>2, <2>3, Zenon
<1>4. CASE Respawn
  BY <1>4 DEF Respawn, Started, fpga, history
<1>5. CASE OsdPlay
  BY <1>5 DEF OsdPlay
<1>6. CASE TakePush
  BY <1>6 DEF TakePush, arm, history
<1>7. CASE FrameWrite
  BY <1>7 DEF FrameWrite, arm, history
<1>8. CASE FrameRead
  BY <1>8 DEF FrameRead, history
<1>9. CASE ResetOff
  BY <1>9 DEF ResetOff, arm, history
<1>10. CASE Poll \/ PollCommits
  BY <1>10 DEF Poll, PollCommits, Polled, StillAsked, fpga
<1>11. CASE PollPlays
  BY <1>11 DEF PollPlays, Started, StillAsked, fpga
<1>12. CASE SessionEnds
  BY <1>12 DEF SessionEnds, fpga, history
<1>13. CASE UNCHANGED vars
  BY <1>13 DEF vars, fpga, arm, history
<1>14. CASE Swap
  BY <1>14 DEF Swap, fpga, history
<1> QED
  BY <1>1, <1>2, <1>3, <1>4, <1>5, <1>6, <1>7, <1>8, <1>9, <1>10, <1>11, <1>12, <1>13, <1>14
     DEF Next, Moves, AnyPoll

-----------------------------------------------------------------------------
(* The theorems.                                                           *)

\* Every variable keeps its type.
THEOREM TypeCorrect == Spec => []TypeOK
<1>1. SlotInv => TypeOK
  BY DEF SlotInv
<1> QED
  BY <1>1, SlotInvariance, PTL

\* No poll takes the recorder back to the slot before a press, but for a Play pressed
\* on the OSD in the same half second, if the core makes at least two frames between
\* two polls (30 in mister_main.cpp 3241): one to read the press, one to tell of it.
THEOREM PressesStand == ASSUME MinFrames > 1 PROVE Spec => PressNotReverted
<1>1. ASSUME SlotInv, AnyPoll, mover = "menu", rslot' # rslot
      PROVE  rslot' = pressed \/ (fresh /\ SeesPlay)
  <2>1. rslot' = word.slot /\ Due /\ (fresh => SeesPlay)
    <3>1. CASE Poll
      BY <1>1, <3>1 DEF Poll, Polled, Adopts
    <3>2. CASE PollCommits
      BY <3>2 DEF PollCommits, Polled
    <3>3. CASE PollPlays
      <4>1. word.slot \in Slots
        BY <1>1 DEF SlotInv, TypeOK, Words
      <4> QED
        BY <3>3, <4>1 DEF PollPlays, Started
    <3> QED
      BY <1>1, <3>1, <3>2, <3>3 DEF AnyPoll
  <2>2. CASE reset
    BY <1>1, <2>1, <2>2 DEF SlotInv, PressStands
  <2>3. CASE waited = MinFrames /\ ~fresh
    <3>1. ~(waited <= 1)
      BY <2>3, SlotConstants
    <3> QED
      BY <1>1, <2>1, <2>3, <3>1 DEF SlotInv, PressComesBack
  <2> QED
    BY <2>1, <2>2, <2>3 DEF Due
<1>2. SlotInv /\ [Next]_vars =>
        [AnyPoll /\ mover = "menu" /\ rslot' # rslot =>
            rslot' = pressed \/ (fresh /\ SeesPlay)]_vars
  BY <1>1
<1> QED
  BY <1>2, SlotInvariance, PTL DEF Spec, PressNotReverted

\* Main is only ever asked to store the slot last chosen in the pause menu.
THEOREM PushesWerePressed == Spec => PushWasPressed
<1>1. ASSUME SlotInv, [Next]_vars, push' \in Slots PROVE push' \in {push, pressed}
  <2>1. CASE FrameRead
    <3>1. push' = push \/ (push' = ctrl.slot /\ armed /\ ctrl.seq # armSeq)
      BY <2>1 DEF FrameRead
    <3> QED
      BY <1>1, <3>1 DEF SlotInv, PressInWord
  <2>2. CASE TakePush
    BY <1>1, <2>2, SlotConstants DEF TakePush
  <2>3. CASE UNCHANGED push
    BY <2>3
  <2> QED
    BY <1>1, <2>1, <2>2, <2>3
       DEF Next, Moves, OsdMove, SlotPress, ResetOn, Respawn, Swap, OsdPlay, FrameWrite, ResetOff,
           AnyPoll, Poll, PollCommits, Polled, PollPlays, SessionEnds, vars, main
<1>2. SlotInv /\ [Next]_vars => [push' \in Slots => push' \in {push, pressed}]_vars
  BY <1>1
<1> QED
  BY <1>2, SlotInvariance, PTL DEF Spec, PushWasPressed

\* The ARM sees no Play that was not pressed since the last it saw.
THEOREM PlaysWerePressed == Spec => PlayWasPressed
<1>1. Init => PlayInv
  BY DEF Init, PlayInv, SeesPlay
<1>2. PlayInv /\ [Next]_vars => [AnyPoll /\ SeesPlay => asked]_vars
  BY DEF PlayInv
<1> QED
  BY <1>1, <1>2, StepPlayInv, SlotInvariance, PTL DEF Spec, PlayWasPressed
=============================================================================
