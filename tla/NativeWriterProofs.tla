------------------------- MODULE NativeWriterProofs -------------------------
(***************************************************************************)
(* Proofs about the ways out of the console (native_video_writer.c):       *)
(* FramePublish, for every blanking limit and every interval of the        *)
(* keepalive that is not longer; NoticeBand, for every height of a message *)
(* and any number of them; AudioRing, for every size of the ring, of what  *)
(* is written into it at once and of a burst.                              *)
(***************************************************************************)
EXTENDS NoticeBand, AudioRing, Integers, SequenceTheorems, TLAPS
-----------------------------------------------------------------------------
(* FramePublish.                                                           *)

\* The two buffers: the one handed over is whole, and it is not the next to be
\* drawn into.
Buffers ==
    /\ full[lastPub]
    /\ main = "idle" => lastPub # active
    /\ main = "handed" => lastPub = active

\* A reader that follows this process has news waiting for it, or has repeated
\* the picture less often than the keepalive lets it.
Following ==
    fresh => /\ synced /\ loaded /\ ready
             /\ news \/ stale < quiet

IInv == TypeOK /\ Buffers /\ Following

LEMMA Arithmetic ==
    /\ \A b \in Bufs : Other(b) \in Bufs /\ Other(b) # b
    /\ \A s \in 0 .. StaleMax : s < StaleMax => s + 1 \in 0 .. StaleMax
    /\ \A q \in 0 .. TickGap : q < TickGap => q + 1 \in 0 .. TickGap
    /\ \A q \in 0 .. TickGap, s \in 0 .. StaleMax :
          q < TickGap /\ s < q => s < StaleMax - 1 /\ s < StaleMax /\ s + 1 < q + 1
    /\ \A q \in 0 .. TickGap : 0 < q + 1
    /\ 0 \in 0 .. StaleMax /\ 0 \in 0 .. TickGap /\ 0 \in Bufs
  BY PublishConstants, SMT DEF Bufs, Other

\* The initial states have the invariant.
LEMMA InitInv == Init => IInv
<1> SUFFICES ASSUME Init PROVE IInv
  OBVIOUS
<1>1. TypeOK
  BY Arithmetic, Zenon DEF Init, TypeOK
<1>2. Buffers
  BY Arithmetic, Zenon DEF Init, Buffers
<1>3. Following
  BY Zenon DEF Init, Following
<1> QED
  BY <1>1, <1>2, <1>3 DEF IInv

\* Every step keeps the invariant.
LEMMA StepInv == IInv /\ [Next]_vars => IInv'
<1> SUFFICES ASSUME IInv, [Next]_vars PROVE IInv'
  OBVIOUS
<1> USE DEF IInv
<1>1. CASE Draw
  BY <1>1, Arithmetic DEF Draw, TypeOK, Buffers, Following, word, reader
<1>2. CASE Clear
  BY <1>2 DEF Clear, TypeOK, Buffers, Following, word, reader
<1>3. CASE Hand
  BY <1>3 DEF Hand, TypeOK, Buffers, Following, word, reader
<1>4. CASE Publish
  BY <1>4, Arithmetic DEF Publish, TypeOK, Buffers, Following, reader
<1>5. CASE TickRead
  BY <1>5 DEF TickRead, TypeOK, Buffers, Following, word, game, reader
<1>6. CASE TickStore
  <2>1. tick \in Bufs
    BY <1>6 DEF TickStore, TypeOK
  <2> QED
    BY <1>6, <2>1, Arithmetic DEF TickStore, TypeOK, Buffers, Following, game, reader
<1>7. CASE Vblank
  <2>1. Buffers'
    BY <1>7 DEF Vblank, Buffers, game
  <2>2. quiet' = quiet + 1 /\ quiet' \in 0 .. TickGap /\ news' = FALSE
    BY <1>7, Arithmetic DEF Vblank, TypeOK
  <2>3. CASE Sync
    BY <1>7, <2>1, <2>2, <2>3 DEF Vblank, Sync, TypeOK, Following, game
  <2>4. CASE Follow
    BY <1>7, <2>1, <2>2, <2>4, Arithmetic DEF Vblank, Follow, TypeOK, Following, game
  <2>5. CASE Repeat
    <3>1. stale' \in 0 .. StaleMax
      BY <2>5, Arithmetic DEF Repeat, TypeOK
    <3>2. TypeOK'
      BY <1>7, <2>2, <2>5, <3>1, Zenon DEF Vblank, Repeat, TypeOK, game
    <3>3. fresh => synced /\ loaded /\ stale < quiet
      BY <2>5 DEF Repeat, Following
    <3>4. fresh => stale < StaleMax - 1 /\ stale < StaleMax /\ stale + 1 < quiet + 1
      BY <1>7, <3>3, Arithmetic DEF Vblank, TypeOK
    <3> QED
      BY <2>1, <2>2, <2>5, <3>2, <3>3, <3>4 DEF Repeat, Following
  <2> QED
    BY <1>7, <2>3, <2>4, <2>5 DEF Vblank
<1>8. CASE Reset
  BY <1>8, Arithmetic DEF Reset, TypeOK, Buffers, Following, word, game
<1>9. CASE UNCHANGED vars
  BY <1>9 DEF vars, word, game, reader, TypeOK, Buffers, Following
<1> QED
  BY <1>1, <1>2, <1>3, <1>4, <1>5, <1>6, <1>7, <1>8, <1>9 DEF Next

LEMMA Invariance == Spec => []IInv
  BY InitInv, StepInv, PTL DEF Spec

\* Every variable keeps its type.
THEOREM TypeCorrect == Spec => []TypeOK
<1>1. IInv => TypeOK
  BY DEF IInv
<1> QED
  BY <1>1, Invariance, PTL

\* Whatever nv_last_published names is a whole picture.
THEOREM KeepaliveIsHandedWhole == Spec => []HandedIsWhole
<1>1. IInv => HandedIsWhole
  BY DEF IInv, Buffers, HandedIsWhole
<1> QED
  BY <1>1, Invariance, PTL

\* A keepalive that is not slower than the blanking limit keeps the picture up,
\* whatever the game thread does.
THEOREM KeepaliveHolds == Spec => NotBlanked
<1>1. ASSUME IInv, Vblank, fresh PROVE ready'
  <2>1. CASE Sync
    BY <1>1, <2>1 DEF Sync, IInv, Following
  <2>2. CASE Follow
    BY <2>2 DEF Follow
  <2>3. CASE Repeat
    <3>1. loaded /\ stale < quiet
      BY <1>1, <2>3 DEF Repeat, IInv, Following
    <3>2. stale < StaleMax - 1
      BY <1>1, <3>1, Arithmetic DEF Vblank, IInv, TypeOK
    <3> QED
      BY <2>3, <3>1, <3>2 DEF Repeat
  <2> QED
    BY <1>1, <2>1, <2>2, <2>3 DEF Vblank
<1>2. IInv /\ [Next]_vars => [Vblank /\ fresh => ready']_vars
  BY <1>1
<1> QED
  BY <1>2, Invariance, PTL DEF Spec, NotBlanked
-----------------------------------------------------------------------------
(* NoticeBand.                                                             *)

BandTypeOK ==
    /\ live \in BOOLEAN /\ height \in 0 .. Lines
    /\ gen \in 0 .. MaxNotices
    /\ painted \in [Bufs -> 0 .. MaxNotices]
    /\ rows \in [Bufs -> [1 .. Lines -> 0 .. MaxNotices + 2]]
    /\ skip \in 0 .. Lines /\ due \in 0 .. Ended

\* No buffer is marked with a message to come; a message that is up has a number and
\* a line.
Marks ==
    /\ \A b \in Bufs : painted[b] <= gen
    /\ live => gen > 0 /\ height > 0

\* A buffer marked with the message that is up holds its lines.
BandStands ==
    live => \A b \in Bufs : painted[b] = gen => \A l \in 1 .. height : rows[b][l] = gen

\* The copy has left alone just the lines of the message, if that is still up.
CopyLeft ==
    main = "drawing" /\ stage = "copied" =>
        /\ \A l \in 1 .. Lines : l > skip => rows[active][l] = New
        /\ live => skip = height

\* The picture has its message, once the overlays are drawn.
PictureWhole ==
    main = "drawing" /\ stage = "overlaid" /\ due # Ended =>
        \A l \in 1 .. Lines : rows[active][l] = IF l <= due THEN gen ELSE New

BandInv == IInv /\ BandTypeOK /\ Marks /\ BandStands /\ CopyLeft /\ PictureWhole

\* A step of the notice is a step of the picture, or none.
LEMMA NoticeStepIsStep == [NoticeNext]_noticeVars => [Next]_vars
BY DEF NoticeNext, Notice, End, Copy, Overlay, Wipe, HandOver, Next, noticeVars

LEMMA NoticeNumbers ==
    /\ Lines \in Nat \ {0} /\ MaxNotices \in Nat
    /\ New = 0 /\ Old = MaxNotices + 1 /\ Black = MaxNotices + 2 /\ Ended = Lines + 1
BY NoticeConstants DEF New, Old, Black, Ended

LEMMA InitBand == NoticeInit => BandInv
<1> SUFFICES ASSUME NoticeInit PROVE BandInv
  OBVIOUS
<1>1. IInv
  BY InitInv DEF NoticeInit
<1>2. BandTypeOK
  <2>1. rows \in [Bufs -> [1 .. Lines -> 0 .. MaxNotices + 2]] /\ painted \in [Bufs -> 0 .. MaxNotices]
    BY NoticeNumbers DEF NoticeInit
  <2>2. height \in 0 .. Lines /\ gen \in 0 .. MaxNotices /\ skip \in 0 .. Lines /\ due \in 0 .. Ended
    BY NoticeNumbers DEF NoticeInit
  <2> QED
    BY <2>1, <2>2, Zenon DEF NoticeInit, BandTypeOK
<1>3. Marks
  BY DEF NoticeInit, Marks
<1>4. BandStands /\ CopyLeft /\ PictureWhole
  BY DEF NoticeInit, BandStands, CopyLeft, PictureWhole
<1> QED
  BY <1>1, <1>2, <1>3, <1>4 DEF BandInv

\* The lines a copy leaves in its buffer.
LEMMA CopyKeeps == ASSUME BandInv, Copy PROVE BandInv'
<1> USE DEF BandInv, BandTypeOK
<1>0. /\ main = "idle" /\ main' = "drawing" /\ active' = active /\ active \in Bufs
      /\ skip' = NoticeRows /\ stage' = "copied" /\ UNCHANGED <<live, height, gen, painted, due>>
  BY DEF Copy, Draw, IInv, TypeOK
<1>1. NoticeRows \in 0 .. Lines /\ (live => NoticeRows = height)
  BY NoticeNumbers DEF NoticeRows
<1>2. \A l \in 1 .. Lines :
        rows'[active][l] = IF l > NoticeRows THEN New
                           ELSE IF rows[active][l] = New THEN Old ELSE rows[active][l]
  BY <1>0 DEF Copy
<1>3. \A b \in Bufs : b # active => rows'[b] = rows[b]
  BY DEF Copy
<1>4. rows' \in [Bufs -> [1 .. Lines -> 0 .. MaxNotices + 2]]
  <2>1. [l \in 1 .. Lines |-> IF l > NoticeRows THEN New
                              ELSE IF rows[active][l] = New THEN Old ELSE rows[active][l]]
          \in [1 .. Lines -> 0 .. MaxNotices + 2]
    BY <1>0, NoticeNumbers
  <2> QED
    BY <1>0, <2>1 DEF Copy
<1>5. BandTypeOK'
  BY <1>0, <1>1, <1>4
<1>6. BandStands'
  <2> SUFFICES ASSUME live, NEW b \in Bufs, painted[b] = gen, NEW l \in 1 .. height
               PROVE  rows'[b][l] = gen
    BY <1>0 DEF BandStands
  <2>1. rows[b][l] = gen /\ l \in 1 .. Lines /\ gen # New
    BY NoticeNumbers DEF BandStands, Marks
  <2>2. CASE b = active
    BY <1>1, <1>2, <2>1, <2>2
  <2>3. CASE b # active
    BY <1>3, <2>1, <2>3
  <2> QED
    BY <2>2, <2>3
<1>7. CopyLeft'
  BY <1>0, <1>1, <1>2 DEF CopyLeft
<1>8. Marks' /\ PictureWhole'
  BY <1>0 DEF Marks, PictureWhole
<1>9. IInv'
  BY StepInv DEF Copy, Next
<1> QED
  BY <1>5, <1>6, <1>7, <1>8, <1>9

LEMMA OverlayKeeps == ASSUME BandInv, Overlay PROVE BandInv'
<1> USE DEF BandInv, BandTypeOK
<1>0. /\ main = "drawing" /\ stage = "copied" /\ stage' = "overlaid" /\ active \in Bufs
      /\ skip' = 0 /\ UNCHANGED vars /\ UNCHANGED <<live, height, gen, main, active>>
  BY DEF Overlay, IInv, TypeOK, vars, game
<1>1. NoticeRows \in 0 .. Lines /\ (live => NoticeRows = height) /\ (NoticeRows > 0 => live)
  BY NoticeNumbers DEF NoticeRows
<1>2. (\A l \in 1 .. Lines : l > skip => rows[active][l] = New) /\ (live => skip = height)
  BY <1>0 DEF CopyLeft
<1>3. due' = IF NoticeRows < skip THEN Ended ELSE NoticeRows
  BY DEF Overlay
<1>4. CASE NoticeRows > 0 /\ painted[active] # gen
  <2>1. /\ rows' = [rows EXCEPT ![active] =
                       [l \in 1 .. Lines |-> IF l <= NoticeRows THEN gen ELSE rows[active][l]]]
        /\ painted' = [painted EXCEPT ![active] = gen]
    BY <1>4 DEF Overlay
  <2>2. [l \in 1 .. Lines |-> IF l <= NoticeRows THEN gen ELSE rows[active][l]]
          \in [1 .. Lines -> 0 .. MaxNotices + 2]
    BY <1>0, NoticeNumbers
  <2>3. rows' \in [Bufs -> [1 .. Lines -> 0 .. MaxNotices + 2]] /\ painted' \in [Bufs -> 0 .. MaxNotices]
    BY <1>0, <2>1, <2>2
  <2>4. BandTypeOK'
    <3>1. due' \in 0 .. Ended /\ skip' \in 0 .. Lines
      BY <1>0, <1>1, <1>3, NoticeNumbers
    <3>2. live' \in BOOLEAN /\ height' \in 0 .. Lines /\ gen' \in 0 .. MaxNotices
      BY <1>0
    <3> QED
      BY <2>3, <3>1, <3>2, Zenon
  <2>5. \A l \in 1 .. Lines : rows'[active][l] = IF l <= NoticeRows THEN gen ELSE rows[active][l]
    BY <1>0, <2>1
  <2>6. \A b \in Bufs : b # active => rows'[b] = rows[b] /\ painted'[b] = painted[b]
    BY <2>1
  <2>7. painted'[active] = gen
    BY <1>0, <2>1
  <2>8. Marks'
    BY <1>0, <2>6, <2>7 DEF Marks
  <2>9. BandStands'
    <3> SUFFICES ASSUME NEW b \in Bufs, painted'[b] = gen, NEW l \in 1 .. height
                 PROVE  rows'[b][l] = gen
      BY <1>0 DEF BandStands
    <3>1. CASE b = active
      BY <1>1, <1>4, <2>5, <3>1, NoticeNumbers
    <3>2. CASE b # active
      BY <1>1, <1>4, <2>6, <3>2 DEF BandStands
    <3> QED
      BY <3>1, <3>2
  <2>10. PictureWhole'
    BY <1>0, <1>1, <1>2, <1>3, <1>4, <2>5 DEF PictureWhole
  <2> QED
    BY <1>0, <2>4, <2>8, <2>9, <2>10, StepInv DEF CopyLeft
<1>5. CASE ~(NoticeRows > 0 /\ painted[active] # gen)
  <2>1. UNCHANGED <<rows, painted>>
    BY <1>5 DEF Overlay
  <2>2. BandTypeOK'
    BY <1>0, <1>1, <1>3, <2>1, NoticeNumbers
  <2>3. Marks' /\ BandStands'
    BY <1>0, <2>1 DEF Marks, BandStands
  <2>4. \A l \in 1 .. NoticeRows : rows[active][l] = gen
    BY <1>0, <1>1, <1>5 DEF BandStands
  <2>5. PictureWhole'
    <3> SUFFICES ASSUME due' # Ended, NEW l \in 1 .. Lines
                 PROVE  rows[active][l] = IF l <= due' THEN gen ELSE New
      BY <1>0, <2>1 DEF PictureWhole
    <3>1. due' = NoticeRows /\ skip <= NoticeRows
      BY <1>1, <1>3
    <3> QED
      BY <1>1, <1>2, <2>4, <3>1
  <2> QED
    BY <1>0, <2>2, <2>3, <2>5, StepInv DEF CopyLeft
<1> QED
  BY <1>4, <1>5

LEMMA StepBand == BandInv /\ [NoticeNext]_noticeVars => BandInv'
<1> SUFFICES ASSUME BandInv, [NoticeNext]_noticeVars PROVE BandInv'
  OBVIOUS
<1> USE DEF BandInv
<1>0. IInv'
  BY NoticeStepIsStep, StepInv
<1>1. ASSUME NEW h \in 1 .. Lines, Notice(h) PROVE BandInv'
  <2>1. /\ main = "idle" /\ gen < MaxNotices /\ live' = TRUE /\ height' = h /\ gen' = gen + 1
        /\ UNCHANGED <<main, active, painted, rows, skip, stage, due>>
    BY <1>1 DEF Notice, vars, game
  <2>2. BandTypeOK'
    BY <2>1, NoticeNumbers DEF BandTypeOK
  <2>3. Marks' /\ \A b \in Bufs : painted'[b] # gen'
    BY <2>1 DEF Marks, BandTypeOK
  <2> QED
    BY <1>0, <2>1, <2>2, <2>3 DEF BandStands, CopyLeft, PictureWhole
<1>2. CASE End
  <2>1. live' = FALSE /\ UNCHANGED <<main, active, height, gen, painted, rows, skip, stage, due>>
    BY <1>2 DEF End, vars, game
  <2> QED
    BY <1>0, <2>1 DEF BandTypeOK, Marks, BandStands, CopyLeft, PictureWhole
<1>3. CASE Copy
  BY <1>3, CopyKeeps
<1>4. CASE Overlay
  BY <1>4, OverlayKeeps
<1>5. CASE Wipe
  <2>1. /\ rows' = [b \in Bufs |-> [l \in 1 .. Lines |-> Black]] /\ painted' = [b \in Bufs |-> 0]
        /\ stage' = "overlaid" /\ due' = Ended /\ UNCHANGED <<live, height, gen, skip>>
    BY <1>5 DEF Wipe
  <2>2. rows' \in [Bufs -> [1 .. Lines -> 0 .. MaxNotices + 2]] /\ painted' \in [Bufs -> 0 .. MaxNotices]
    BY <2>1, NoticeNumbers
  <2>3. BandTypeOK'
    BY <2>1, <2>2, NoticeNumbers DEF BandTypeOK
  <2>4. \A b \in Bufs : painted'[b] = 0
    BY <2>1
  <2>5. Marks' /\ BandStands'
    BY <2>1, <2>4 DEF Marks, BandStands, BandTypeOK
  <2> QED
    BY <1>0, <2>1, <2>3, <2>5 DEF CopyLeft, PictureWhole
<1>6. CASE HandOver
  <2>1. main' = "handed" /\ due' = Ended /\ UNCHANGED <<live, height, gen, painted, rows, skip, stage>>
    BY <1>6 DEF HandOver, Hand
  <2> QED
    BY <1>0, <2>1, NoticeNumbers DEF BandTypeOK, Marks, BandStands, CopyLeft, PictureWhole
<1>7. CASE (Publish \/ TickRead \/ TickStore \/ Vblank \/ Reset \/ UNCHANGED vars) /\ UNCHANGED notice
  <2>1. UNCHANGED <<live, height, gen, painted, rows, skip, stage, due>>
    BY <1>7 DEF notice
  <2>2. main' = "idle" \/ UNCHANGED <<main, active>>
    BY <1>7 DEF Publish, TickRead, TickStore, Vblank, Reset, vars, game
  <2>3. BandTypeOK' /\ Marks' /\ BandStands'
    BY <2>1 DEF BandTypeOK, Marks, BandStands
  <2>4. CopyLeft' /\ PictureWhole'
    BY <2>1, <2>2 DEF CopyLeft, PictureWhole
  <2> QED
    BY <1>0, <2>3, <2>4
<1> QED
  BY <1>1, <1>2, <1>3, <1>4, <1>5, <1>6, <1>7 DEF NoticeNext, noticeVars

LEMMA BandInvariance == NoticeSpec => []BandInv
  BY InitBand, StepBand, PTL DEF NoticeSpec

\* The notice takes nothing away from the pictures under it: what FramePublish promises
\* of them holds with a message over any of them.
THEOREM NoticeKeepsPictures == NoticeSpec => []HandedIsWhole /\ NotBlanked
<1>1. NoticeInit => Init
  BY DEF NoticeInit
<1>2. NoticeSpec => Spec
  BY <1>1, NoticeStepIsStep, PTL DEF NoticeSpec, Spec
<1> QED
  BY <1>2, KeepaliveIsHandedWhole, KeepaliveHolds

\* A picture that is handed on has the whole of the message that was up when it was
\* copied, and under it nothing but the cart's (WriteFrame, nv_draw_overlays and the
\* repaint after ClearScreen).
THEOREM BandAlwaysWhole == NoticeSpec => BandIsWhole
<1>1. BandInv /\ HandOver /\ due # Ended =>
        \A l \in 1 .. Lines : rows[active][l] = IF l <= due THEN gen ELSE New
  BY DEF BandInv, PictureWhole, HandOver, Hand
<1> QED
  BY <1>1, BandInvariance, PTL DEF BandIsWhole
-----------------------------------------------------------------------------
(* AudioRing.                                                              *)

Samples == 0 .. Numbers

\* The cell n further than b.
Ahead(b, n) == (b + n) % RingSize

RingTypeOK ==
    /\ ring \in [Cells -> Samples] /\ wptr \in Cells /\ rptr \in Cells
    /\ thread \in {"none", "render", "wait", "write"}
    /\ chunk \in Nat /\ put \in Nat /\ count \in Nat
    /\ aud_rd_ptr \in Cells /\ aud_wr_ptr \in Cells
    /\ state \in {"idle", "poll", "read", "tell"}
    /\ burst \in Nat /\ got \in Seq(Samples) /\ lost \in BOOLEAN

\* The FPGA fetches pairs of samples, never past the end of the ring, and has fetched
\* less than its burst.
Fetching ==
    /\ aud_rd_ptr % 2 = 0 /\ burst % 2 = 0 /\ Len(got) % 2 = 0
    /\ burst <= RingSize - aud_rd_ptr
    /\ state = "read" => Len(got) < burst
    /\ state # "read" => burst = 0 /\ got = << >>

\* Before the thread starts the ring is silent.  Once the FPGA has told of a pointer
\* other than 0, so is what it fetches.  After a RESET there is nothing for it to fetch.
Unstarted ==
    thread = "none" =>
        /\ \A c \in Cells : ring[c] = Silence
        /\ wptr = 0
        /\ rptr # 0 => \A k \in 1 .. Len(got) : got[k] = Silence
        /\ lost => aud_rd_ptr = 0 /\ aud_wr_ptr = 0 /\ state \in {"idle", "poll"}

\* The thread runs, and no RESET has taken the FPGA away from it.
Linked == thread # "none" /\ ~lost

\* What the FPGA has not told the thread is that of a RESET, before it fetches again.
Told ==
    thread # "none" => rptr = aud_rd_ptr \/ state = "tell" \/ (lost /\ aud_rd_ptr = 0)

\* While they are linked, each side is behind the other: the thread's copy of the FPGA's
\* pointer, the FPGA's pointer, its copy of the thread's, the thread's.  A burst was
\* planned with an older copy, and is not longer for it.
Pointers ==
    Linked =>
        /\ Between(rptr, aud_rd_ptr) + Between(aud_rd_ptr, wptr) = Between(rptr, wptr)
        /\ Between(aud_rd_ptr, aud_wr_ptr) <= Between(aud_rd_ptr, wptr)
        /\ burst <= Between(aud_rd_ptr, aud_wr_ptr)

\* What was fetched is still in the ring.
Fetched == Linked => \A k \in 1 .. Len(got) : got[k] = ring[Ahead(aud_rd_ptr, k - 1)]

\* The thread writes only where there is space, one sample after the other.
Writing ==
    /\ thread \in {"wait", "write"} => chunk \in Chunks
    /\ thread = "write" =>
          /\ put <= chunk /\ (~lost => chunk <= AudioSpace)
          /\ \A p \in 0 .. put - 1 : ring[Ahead(wptr, p)] = 1 + ((count + p) % Numbers)

RingInv == RingTypeOK /\ Fetching /\ Unstarted /\ Told /\ Pointers /\ Fetched /\ Writing

LEMMA RingNumbers ==
    /\ RingSize % 2 = 0 /\ Burst \in Nat /\ Burst >= 2 /\ Burst % 2 = 0
    /\ Numbers \in Nat /\ Numbers > RingSize
    /\ \A n \in Chunks : n \in Nat /\ n > 0 /\ n <= RingSize - 2
  BY RingConstants

LEMMA Size ==
    /\ RingSize \in Nat /\ RingSize > 2
    /\ \A c : c \in Cells <=> c \in Nat /\ c < RingSize
  BY RingConstants DEF Cells

\* A position is in the ring, or has gone around once.
LEMMA Wraps ==
    ASSUME NEW x \in Nat, x < 2 * RingSize
    PROVE  /\ x % RingSize \in Cells
           /\ x % RingSize = IF x < RingSize THEN x ELSE x - RingSize
  BY Size

\* How far it is from a to b.
LEMMA Distance ==
    ASSUME NEW a \in Cells, NEW b \in Cells
    PROVE  /\ Between(a, b) \in Cells
           /\ Between(a, b) = IF a <= b THEN b - a ELSE b + RingSize - a
<1> DEFINE x == b + RingSize - a
<1>1. x \in Nat /\ x < 2 * RingSize /\ x = b + RingSize - a
  BY Size
<1>2. Between(a, b) = x % RingSize
  BY DEF Between
<1> HIDE DEF x
<1>3. x % RingSize \in Cells /\ x % RingSize = IF x < RingSize THEN x ELSE x - RingSize
  BY <1>1, Wraps
<1> QED
  BY <1>1, <1>2, <1>3, Size

LEMMA Further ==
    ASSUME NEW b \in Cells, NEW n \in Nat, n <= RingSize
    PROVE  /\ Ahead(b, n) \in Cells
           /\ Ahead(b, n) = IF b + n < RingSize THEN b + n ELSE b + n - RingSize
<1> DEFINE x == b + n
<1>1. x \in Nat /\ x < 2 * RingSize
  BY Size
<1>2. x = b + n
  OBVIOUS
<1>3. Ahead(b, n) = x % RingSize
  BY DEF Ahead
<1> HIDE DEF x
<1>4. x % RingSize \in Cells /\ x % RingSize = IF x < RingSize THEN x ELSE x - RingSize
  BY <1>1, Wraps
<1> QED
  BY <1>1, <1>2, <1>3, <1>4, Size

\* The distance grows by it, as long as it does not go around a.
LEMMA GoOn ==
    ASSUME NEW a \in Cells, NEW b \in Cells, NEW n \in Nat, n < RingSize - Between(a, b)
    PROVE  Ahead(b, n) \in Cells /\ Between(a, Ahead(b, n)) = Between(a, b) + n
<1>1. Between(a, b) = IF a <= b THEN b - a ELSE b + RingSize - a
  BY Distance
<1>2. n <= RingSize
  BY <1>1, Size
<1>3. Ahead(b, n) \in Cells /\ Ahead(b, n) = IF b + n < RingSize THEN b + n ELSE b + n - RingSize
  BY <1>2, Further
<1>4. Between(a, Ahead(b, n)) =
        IF a <= Ahead(b, n) THEN Ahead(b, n) - a ELSE Ahead(b, n) + RingSize - a
  BY <1>3, Distance
<1> QED
  BY <1>1, <1>3, <1>4, Size

\* It shrinks by what a goes on.
LEMMA CatchUp ==
    ASSUME NEW a \in Cells, NEW b \in Cells, NEW n \in Nat, n <= Between(a, b)
    PROVE  /\ Ahead(a, n) \in Cells
           /\ Between(Ahead(a, n), b) = Between(a, b) - n /\ Between(a, Ahead(a, n)) = n
<1>1. Between(a, b) = IF a <= b THEN b - a ELSE b + RingSize - a
  BY Distance
<1>2. n <= RingSize
  BY <1>1, Size
<1>3. Ahead(a, n) \in Cells /\ Ahead(a, n) = IF a + n < RingSize THEN a + n ELSE a + n - RingSize
  BY <1>2, Further
<1> DEFINE c == Ahead(a, n)
<1> HIDE DEF c
<1>4. /\ Between(c, b) = IF c <= b THEN b - c ELSE b + RingSize - c
      /\ Between(a, c) = IF a <= c THEN c - a ELSE c + RingSize - a
  BY <1>3, Distance DEF c
<1>5. c \in Cells /\ c = IF a + n < RingSize THEN a + n ELSE a + n - RingSize
  BY <1>3 DEF c
<1>6. Between(c, b) = Between(a, b) - n /\ Between(a, c) = n
  BY <1>1, <1>4, <1>5, Size
<1> QED
  BY <1>3, <1>6 DEF c

\* Cells at different distances are different.
LEMMA Apart ==
    ASSUME NEW a \in Cells, NEW j \in Cells, NEW k \in Cells, j # k
    PROVE  Ahead(a, j) # Ahead(a, k)
<1>1. j \in Nat /\ k \in Nat /\ j <= RingSize /\ k <= RingSize
  BY Size
<1>2. /\ Ahead(a, j) = IF a + j < RingSize THEN a + j ELSE a + j - RingSize
      /\ Ahead(a, k) = IF a + k < RingSize THEN a + k ELSE a + k - RingSize
  BY <1>1, Further
<1> QED
  BY <1>2, Size

\* Going on twice, together not further than once around.
LEMMA GoOnAgain ==
    ASSUME NEW a \in Cells, NEW j \in Nat, NEW k \in Nat, j + k <= RingSize
    PROVE  Ahead(Ahead(a, j), k) = Ahead(a, j + k)
<1>1. j + k \in Nat /\ j <= RingSize /\ k <= RingSize
  BY Size
<1>2. /\ Ahead(a, j) \in Cells
      /\ Ahead(a, j) = IF a + j < RingSize THEN a + j ELSE a + j - RingSize
  BY <1>1, Further
<1> DEFINE x == Ahead(a, j)
           l == j + k
<1> HIDE DEF x, l
<1>3. Ahead(x, k) = IF x + k < RingSize THEN x + k ELSE x + k - RingSize
  BY <1>1, <1>2, Further DEF x
<1>4. Ahead(a, l) = IF a + l < RingSize THEN a + l ELSE a + l - RingSize
  BY <1>1, Further DEF l
<1>5. l = j + k /\ x = IF a + j < RingSize THEN a + j ELSE a + j - RingSize
  BY <1>2 DEF l, x
<1>6. Ahead(x, k) = Ahead(a, l)
  BY <1>1, <1>3, <1>4, <1>5, Size
<1> QED
  BY <1>6 DEF x, l

\* What is left of n without its last odd one.
LEMMA EvenPart ==
    ASSUME NEW n \in Nat
    PROVE  /\ n - (n % 2) \in Nat /\ (n - (n % 2)) % 2 = 0
           /\ n - (n % 2) <= n /\ (n > 1 => n - (n % 2) > 0)
  OBVIOUS

\* The plan is an even number of samples that are there, up to the end of the ring.
LEMMA PlanFits ==
    ASSUME RingTypeOK
    PROVE  /\ Plan \in Nat /\ Plan % 2 = 0
           /\ Plan <= Between(aud_rd_ptr, aud_wr_ptr) /\ Plan <= RingSize - aud_rd_ptr
           /\ Between(aud_rd_ptr, aud_wr_ptr) > 1 /\ aud_rd_ptr % 2 = 0 => Plan > 0
<1> DEFINE d == Between(aud_rd_ptr, aud_wr_ptr)
           n == Lesser(Lesser(d, Burst), RingSize - aud_rd_ptr)
<1>1. aud_rd_ptr \in Nat /\ aud_rd_ptr < RingSize /\ d \in Nat
  BY Distance, Size DEF RingTypeOK
<1>2. Plan = n - (n % 2)
  BY DEF Plan
<1>3. aud_rd_ptr % 2 = 0 => aud_rd_ptr < RingSize - 1
  BY <1>1, RingNumbers, Size
<1> HIDE DEF d
<1>4. /\ n \in Nat /\ n <= d /\ n <= RingSize - aud_rd_ptr
      /\ d > 1 /\ aud_rd_ptr < RingSize - 1 => n > 1
  BY <1>1, RingNumbers, Size DEF Lesser
<1> HIDE DEF n
<1>5. n - (n % 2) \in Nat /\ (n - (n % 2)) % 2 = 0 /\ n - (n % 2) <= n /\ (n > 1 => n - (n % 2) > 0)
  BY <1>4, EvenPart
<1> DEFINE p == n - (n % 2)
<1> HIDE DEF p
<1>6. Plan = p /\ p \in Nat /\ p % 2 = 0 /\ p <= n /\ (n > 1 => p > 0)
  BY <1>2, <1>5 DEF p
<1> QED
  BY <1>1, <1>3, <1>4, <1>6, Size DEF d

\* The thread waits for the FPGA while the FPGA waits for the thread only after a RESET.
LEMMA InvNoneWaits == RingInv => NoneWaits
<1> SUFFICES ASSUME RingInv, Blocked PROVE lost /\ aud_rd_ptr = 0 /\ wptr <= 1
  BY DEF NoneWaits
<1>0. thread = "wait" /\ AudioSpace < chunk /\ state = "idle" /\ aud_wr_ptr = wptr /\ Plan = 0
  BY DEF Blocked
<1>1. Between(aud_rd_ptr, wptr) <= 1 /\ Between(aud_rd_ptr, wptr) \in Nat
  BY <1>0, PlanFits, Distance, Size DEF RingInv, RingTypeOK, Fetching
<1>2. rptr # aud_rd_ptr
  <2>1. chunk \in Nat /\ chunk <= RingSize - 2
    BY <1>0, RingNumbers DEF RingInv, Writing
  <2> QED
    BY <1>0, <1>1, <2>1, Size DEF AudioSpace
<1>3. lost /\ aud_rd_ptr = 0
  BY <1>0, <1>2 DEF RingInv, Told
<1>4. Between(0, wptr) = wptr /\ wptr \in Nat
  BY <1>3, Distance, Size DEF RingInv, RingTypeOK
<1> QED
  BY <1>1, <1>3, <1>4

LEMMA InitRing == RingInit => RingInv
<1> SUFFICES ASSUME RingInit PROVE RingInv
  OBVIOUS
<1>1. 0 \in Cells /\ Silence \in Samples /\ 0 % 2 = 0
  BY Size, RingNumbers DEF Silence, Samples
<1>2. RingTypeOK
  BY <1>1 DEF RingInit, RingTypeOK
<1>3. Fetching
  BY <1>1, Size DEF RingInit, Fetching
<1>4. Unstarted /\ Told /\ Pointers /\ Fetched /\ Writing
  BY DEF RingInit, Unstarted, Told, Pointers, Linked, Fetched, Writing
<1> QED
  BY <1>2, <1>3, <1>4 DEF RingInv

LEMMA EvenGap ==
    ASSUME NEW x \in Nat, NEW y \in Nat, x % 2 = 0, y % 2 = 0
    PROVE  (x + 2) % 2 = 0 /\ (x + y) % 2 = 0 /\ (x < y => x + 2 <= y)
  OBVIOUS

\* Every number of a sample is one.
LEMMA Numbered == \A x \in Nat : 1 + (x % Numbers) \in Samples /\ x % Numbers \in Nat
<1> TAKE x \in Nat
<1>1. x % Numbers \in 0 .. Numbers - 1
  BY RingNumbers, Size
<1> DEFINE y == x % Numbers
<1> HIDE DEF y
<1>2. 1 + y \in Samples /\ y \in Nat
  BY <1>1, RingNumbers DEF y, Samples
<1> QED
  BY <1>2 DEF y

\* As far as b from a is b.
LEMMA Meets ==
    ASSUME NEW a \in Cells, NEW b \in Cells
    PROVE  Ahead(a, Between(a, b)) = b /\ Between(a, a) = 0
<1>1. /\ Between(a, b) \in Cells
      /\ Between(a, b) = IF a <= b THEN b - a ELSE b + RingSize - a
      /\ Between(a, a) = 0
  BY Distance, Size
<1> DEFINE d == Between(a, b)
<1>2. d \in Nat /\ d <= RingSize
  BY <1>1, Size
<1> HIDE DEF d
<1>3. Ahead(a, d) = IF a + d < RingSize THEN a + d ELSE a + d - RingSize
  BY <1>2, Further
<1>4. Ahead(a, d) = b
  BY <1>1, <1>2, <1>3, Size DEF d
<1> QED
  BY <1>1, <1>4 DEF d

\* The samples from a to b.
Stretch(r, a, b) == [k \in 1 .. Between(a, b) |-> r[(a + k - 1) % RingSize]]

LEMMA StretchIs ==
    ASSUME NEW r \in [Cells -> Samples], NEW a \in Cells, NEW b \in Cells
    PROVE  /\ Stretch(r, a, b) \in Seq(Samples) /\ Len(Stretch(r, a, b)) = Between(a, b)
           /\ \A k \in 1 .. Between(a, b) : Stretch(r, a, b)[k] = r[Ahead(a, k - 1)]
<1>1. Between(a, b) \in Nat /\ Between(a, b) < RingSize
  BY Distance, Size
<1>2. \A k \in 1 .. Between(a, b) :
        (a + k - 1) % RingSize = Ahead(a, k - 1) /\ Ahead(a, k - 1) \in Cells
  <2> TAKE k \in 1 .. Between(a, b)
  <2>1. a + k - 1 = a + (k - 1) /\ k - 1 \in Nat /\ k - 1 <= RingSize
    BY <1>1, Size
  <2>2. Ahead(a, k - 1) \in Cells
    BY <2>1, Further
  <2> QED
    BY <2>1, <2>2 DEF Ahead
<1>3. \A k \in 1 .. Between(a, b) : Stretch(r, a, b)[k] = r[Ahead(a, k - 1)]
  BY <1>2 DEF Stretch
<1>4. \A k \in 1 .. Between(a, b) : r[(a + k - 1) % RingSize] \in Samples
  BY <1>2
<1>5. Stretch(r, a, b) \in Seq(Samples)
  BY <1>1, <1>4, IsASeq DEF Stretch
<1>6. Len(Stretch(r, a, b)) = Between(a, b)
  BY <1>1, <1>5, LenProperties DEF Stretch
<1> QED
  BY <1>3, <1>5, <1>6

\* Types of what the invariant relates.
LEMMA Typed ==
    ASSUME RingInv
    PROVE  /\ Between(rptr, wptr) \in Nat /\ Between(rptr, wptr) < RingSize
           /\ Between(rptr, aud_rd_ptr) \in Nat
           /\ Between(aud_rd_ptr, wptr) \in Nat /\ Between(aud_rd_ptr, wptr) < RingSize
           /\ Between(aud_rd_ptr, aud_wr_ptr) \in Nat
           /\ Len(got) \in Nat
           /\ AudioSpace = RingSize - 1 - Between(rptr, wptr)
           /\ Linked => Between(aud_rd_ptr, wptr) <= Between(rptr, wptr)
<1>1. /\ Between(rptr, wptr) \in Cells /\ Between(rptr, aud_rd_ptr) \in Cells
      /\ Between(aud_rd_ptr, wptr) \in Cells /\ Between(aud_rd_ptr, aud_wr_ptr) \in Cells
  BY Distance DEF RingInv, RingTypeOK
<1>2. Len(got) \in Nat
  BY LenProperties DEF RingInv, RingTypeOK
<1> QED
  BY <1>1, <1>2, Size DEF RingInv, Pointers, AudioSpace

\* A burst is of samples that wait.
LEMMA BurstWaits ==
    ASSUME RingInv, Linked
    PROVE  burst \in Nat /\ burst <= Between(aud_rd_ptr, wptr)
<1>1. burst \in Nat /\ burst <= Between(aud_rd_ptr, aud_wr_ptr)
  BY DEF RingInv, RingTypeOK, Pointers
<1>2. /\ Between(aud_rd_ptr, aud_wr_ptr) \in Nat /\ Between(aud_rd_ptr, wptr) \in Nat
      /\ Between(aud_rd_ptr, aud_wr_ptr) <= Between(aud_rd_ptr, wptr)
  BY Typed DEF RingInv, Pointers
<1> QED
  BY <1>1, <1>2

\* A sample that is written is none of those that wait, nor of those just written.
LEMMA PutKeeps ==
    ASSUME RingInv, Put
    PROVE  /\ RingInv'
           /\ ~lost => Stretch(ring', aud_rd_ptr, wptr) = Stretch(ring, aud_rd_ptr, wptr)
<1> DEFINE new == 1 + ((count + put) % Numbers)
           at == Ahead(wptr, put)
           d == Between(aud_rd_ptr, wptr)
<1>1. /\ thread = "write" /\ put < chunk /\ put' = put + 1
      /\ ring' = [ring EXCEPT ![at] = new]
      /\ UNCHANGED <<wptr, rptr, thread, chunk, count, aud_rd_ptr, aud_wr_ptr, state, burst, got,
                     heard, lost>>
  BY DEF Put, fpga, Ahead
<1>2. /\ chunk \in Nat /\ put \in Nat /\ count \in Nat /\ wptr \in Cells /\ aud_rd_ptr \in Cells
      /\ ring \in [Cells -> Samples]
      /\ (~lost => chunk <= AudioSpace) /\ chunk \in Chunks
  BY <1>1 DEF RingInv, RingTypeOK, Writing
<1>3. d \in Nat /\ chunk < RingSize /\ (~lost => d + chunk < RingSize)
  <2>1. chunk < RingSize /\ d \in Nat
    BY <1>2, RingNumbers, Typed, Size
  <2>2. ASSUME ~lost PROVE d + chunk < RingSize
    BY <1>1, <1>2, <2>2, Typed, Size DEF Linked
  <2> QED
    BY <2>1, <2>2
<1>4. at \in Cells /\ new \in Samples
  <2>1. count + put \in Nat /\ put <= RingSize
    BY <1>1, <1>2, <1>3, Size
  <2> QED
    BY <1>2, <2>1, Numbered, Further
<1>5. ASSUME ~lost PROVE at = Ahead(aud_rd_ptr, d + put)
  <2>1. d + put <= RingSize
    BY <1>1, <1>2, <1>3, <1>5, Size
  <2>2. Ahead(aud_rd_ptr, d) = wptr
    BY <1>2, Meets
  <2> QED
    BY <1>2, <1>3, <2>1, <2>2, GoOnAgain
<1> HIDE DEF new, at, d
<1>6. ring' \in [Cells -> Samples] /\ ring'[at] = new
      /\ \A c \in Cells : c # at => ring'[c] = ring[c]
  BY <1>1, <1>2, <1>4
<1>7. ASSUME ~lost, NEW k \in Nat, k < d PROVE ring'[Ahead(aud_rd_ptr, k)] = ring[Ahead(aud_rd_ptr, k)]
  <2>1. k \in Cells /\ d + put \in Cells /\ k # d + put /\ k <= RingSize
    BY <1>1, <1>2, <1>3, <1>7, Size
  <2>2. at = Ahead(aud_rd_ptr, d + put)
    BY <1>5, <1>7
  <2>3. Ahead(aud_rd_ptr, k) # Ahead(aud_rd_ptr, d + put)
    BY <1>2, <2>1, Apart
  <2>4. Ahead(aud_rd_ptr, k) \in Cells
    BY <1>2, <1>7, <2>1, Further
  <2> QED
    BY <1>6, <2>2, <2>3, <2>4
<1>8. RingTypeOK'
  BY <1>1, <1>2, <1>6 DEF RingInv, RingTypeOK
<1>9. Fetching' /\ Unstarted' /\ Told' /\ Pointers'
  BY <1>1 DEF RingInv, Fetching, Unstarted, Told, Pointers, Linked
<1>10. Fetched'
  <2> SUFFICES ASSUME Linked, NEW k \in 1 .. Len(got)
               PROVE  got[k] = ring'[Ahead(aud_rd_ptr, k - 1)]
    BY <1>1 DEF Fetched, Linked
  <2>0. ~lost
    BY DEF Linked
  <2>1. got[k] = ring[Ahead(aud_rd_ptr, k - 1)]
    BY <1>1 DEF RingInv, Fetched
  <2>2. k - 1 \in Nat /\ k - 1 < d
    <3>1. got # << >>
      OBVIOUS
    <3>2. Len(got) < burst /\ burst <= d
      BY <1>1, <1>3, <3>1, BurstWaits DEF RingInv, Fetching, RingTypeOK, d
    <3> QED
      BY <1>3, <3>2, Typed DEF RingInv, RingTypeOK
  <2> QED
    BY <1>7, <2>0, <2>1, <2>2
<1>11. Writing'
  <2>1. put' <= chunk /\ AudioSpace' = AudioSpace
    BY <1>1, <1>2 DEF AudioSpace
  <2>2. ASSUME NEW q \in 0 .. put' - 1
        PROVE  ring'[Ahead(wptr, q)] = 1 + ((count + q) % Numbers)
    <3>1. q \in Nat /\ q <= put /\ q \in Cells /\ put \in Cells /\ q <= RingSize
      BY <1>1, <1>2, <1>3, Size
    <3>2. CASE q = put
      BY <1>6, <3>2 DEF at, new
    <3>3. CASE q # put
      <4>1. Ahead(wptr, q) # at /\ Ahead(wptr, q) \in Cells
        BY <1>2, <3>1, <3>3, Apart, Further DEF at
      <4>2. q \in 0 .. put - 1
        BY <1>2, <3>1, <3>3
      <4>3. ring[Ahead(wptr, q)] = 1 + ((count + q) % Numbers)
        BY <1>1, <4>2 DEF RingInv, Writing
      <4> QED
        BY <1>6, <4>1, <4>3
    <3> QED
      BY <3>2, <3>3
  <2> QED
    BY <1>1, <1>2, <2>1, <2>2 DEF Writing
<1>12. ASSUME ~lost PROVE Stretch(ring', aud_rd_ptr, wptr) = Stretch(ring, aud_rd_ptr, wptr)
  <2>1. \A k \in 1 .. d : ring'[Ahead(aud_rd_ptr, k - 1)] = ring[Ahead(aud_rd_ptr, k - 1)]
    BY <1>3, <1>7, <1>12
  <2>2. /\ Stretch(ring', aud_rd_ptr, wptr) \in Seq(Samples)
        /\ Len(Stretch(ring', aud_rd_ptr, wptr)) = d
        /\ \A k \in 1 .. d : Stretch(ring', aud_rd_ptr, wptr)[k] = ring'[Ahead(aud_rd_ptr, k - 1)]
    BY <1>2, <1>6, StretchIs DEF d
  <2>3. /\ Stretch(ring, aud_rd_ptr, wptr) \in Seq(Samples)
        /\ Len(Stretch(ring, aud_rd_ptr, wptr)) = d
        /\ \A k \in 1 .. d : Stretch(ring, aud_rd_ptr, wptr)[k] = ring[Ahead(aud_rd_ptr, k - 1)]
    BY <1>2, StretchIs DEF d
  <2> QED
    BY <2>1, <2>2, <2>3, SeqEqual
<1> QED
  BY <1>8, <1>9, <1>10, <1>11, <1>12 DEF RingInv


LEMMA StartKeeps == ASSUME RingInv, ThreadStart PROVE RingInv'
<1>1. /\ thread = "none" /\ thread' = "render" /\ aud_wr_ptr = wptr /\ (rptr = aud_rd_ptr \/ lost)
      /\ burst <= Between(aud_rd_ptr, wptr)
      /\ UNCHANGED <<ring, wptr, rptr, chunk, put, count, aud_rd_ptr, aud_wr_ptr, state, burst, got,
                     heard, lost>>
  BY DEF ThreadStart, ddr, fpga
<1>2. RingTypeOK' /\ Fetching'
  BY <1>1 DEF RingInv, RingTypeOK, Fetching
<1>3. Between(aud_rd_ptr, aud_rd_ptr) = 0
  BY Meets DEF RingInv, RingTypeOK
<1>4. Pointers'
  BY <1>1, <1>3, Typed DEF Pointers, Linked
<1>5. Fetched'
  <2> SUFFICES ASSUME ~lost, NEW k \in 1 .. Len(got) PROVE got[k] = ring[Ahead(aud_rd_ptr, k - 1)]
    BY <1>1 DEF Fetched, Linked
  <2>1. Len(got) < burst /\ got # << >>
    BY DEF RingInv, Fetching
  <2>2. wptr = 0 /\ \A c \in Cells : ring[c] = Silence
    BY <1>1 DEF RingInv, Unstarted
  <2>3. rptr # 0
    BY <1>1, <1>3, <2>1, <2>2, Typed DEF RingInv, RingTypeOK
  <2>4. got[k] = Silence
    BY <1>1, <2>3 DEF RingInv, Unstarted
  <2>5. k - 1 \in Nat /\ k - 1 <= RingSize
    BY <1>1, <2>1, Typed, Size DEF RingInv, RingTypeOK
  <2>6. Ahead(aud_rd_ptr, k - 1) \in Cells
    BY <2>5, Further DEF RingInv, RingTypeOK
  <2> QED
    BY <2>2, <2>4, <2>6
<1>6. Told'
  BY <1>1 DEF RingInv, Unstarted, Told
<1> QED
  BY <1>1, <1>2, <1>4, <1>5, <1>6 DEF RingInv, Unstarted, Writing

LEMMA AdvanceKeeps ==
    ASSUME RingInv, Advance
    PROVE  /\ RingInv'
           /\ chunk \in Nat /\ chunk > 0 /\ chunk <= RingSize - 1
           /\ ~lost => /\ Between(aud_rd_ptr, wptr) + chunk <= RingSize - 1
                       /\ Between(aud_rd_ptr, wptr') = Between(aud_rd_ptr, wptr) + chunk
<1>1. /\ thread = "write" /\ put = chunk /\ thread' = "render" /\ chunk' = 0 /\ put' = 0
      /\ wptr' = Ahead(wptr, chunk) /\ count' = (count + chunk) % Numbers
      /\ UNCHANGED <<ring, rptr, aud_rd_ptr, aud_wr_ptr, state, burst, got, heard, lost>>
  BY DEF Advance, fpga, Ahead
<1>2. /\ chunk \in Nat /\ chunk > 0 /\ chunk <= RingSize - 1 /\ count + chunk \in Nat
      /\ chunk \in Chunks
  <2>1. chunk \in Chunks /\ count \in Nat
    BY <1>1 DEF RingInv, RingTypeOK, Writing
  <2> QED
    BY <2>1, RingNumbers, Size
<1>3. ASSUME ~lost
      PROVE  /\ chunk < RingSize - Between(rptr, wptr)
             /\ Between(aud_rd_ptr, wptr) <= Between(rptr, wptr)
             /\ chunk < RingSize - Between(aud_rd_ptr, wptr)
             /\ Between(rptr, wptr') = Between(rptr, wptr) + chunk
             /\ Between(aud_rd_ptr, wptr') = Between(aud_rd_ptr, wptr) + chunk
  <2>1. chunk <= AudioSpace
    BY <1>1, <1>3 DEF RingInv, Writing
  <2>3. Between(aud_rd_ptr, wptr) <= Between(rptr, wptr)
    BY <1>1, <1>3, Typed DEF Linked
  <2> DEFINE a == Between(rptr, wptr)
             b == Between(aud_rd_ptr, wptr)
  <2>4. a \in Nat /\ b \in Nat /\ AudioSpace = RingSize - 1 - a /\ b <= a
    BY <2>3, Typed
  <2> HIDE DEF a, b
  <2>5. chunk < RingSize - a /\ chunk < RingSize - b
    BY <1>2, <2>1, <2>4, Size
  <2>6. chunk < RingSize - Between(rptr, wptr) /\ chunk < RingSize - Between(aud_rd_ptr, wptr)
    BY <2>5 DEF a, b
  <2> QED
    BY <1>1, <1>2, <2>3, <2>6, GoOn DEF RingInv, RingTypeOK
<1>4. wptr' \in Cells
  BY <1>1, <1>2, Further, Size DEF RingInv, RingTypeOK
<1>5. RingTypeOK'
  BY <1>1, <1>2, <1>4, Numbered DEF RingInv, RingTypeOK
<1>6. Pointers'
  <2> SUFFICES ASSUME ~lost PROVE Pointers'
    BY <1>1 DEF Pointers, Linked
  <2> QED
    BY <1>1, <1>2, <1>3, Typed DEF RingInv, Pointers, Linked
<1>7. Fetching' /\ Unstarted' /\ Told' /\ Fetched' /\ Writing'
  BY <1>1 DEF RingInv, Fetching, Unstarted, Told, Fetched, Linked, Writing
<1> QED
  BY <1>2, <1>3, <1>5, <1>6, <1>7, Typed, Size DEF RingInv

LEMMA ThreadKeeps ==
    ASSUME RingInv, (\E n \in Chunks : Render(n)) \/ FindSpace \/ Respawn
    PROVE  RingInv'
<1>1. ASSUME NEW n \in Chunks, Render(n) PROVE RingInv'
  <2>1. /\ thread = "render" /\ thread' = "wait" /\ chunk' = n /\ n \in Nat
        /\ UNCHANGED <<ring, wptr, rptr, put, count, aud_rd_ptr, aud_wr_ptr, state, burst, got,
                       heard, lost>>
    BY <1>1, RingNumbers DEF Render, ddr, fpga
  <2> QED
    BY <1>1, <2>1 DEF RingInv, RingTypeOK, Fetching, Unstarted, Told, Pointers, Linked, Fetched, Writing
<1>2. CASE FindSpace
  <2>1. /\ thread = "wait" /\ AudioSpace >= chunk /\ thread' = "write" /\ put' = 0
        /\ UNCHANGED <<ring, wptr, rptr, chunk, count, aud_rd_ptr, aud_wr_ptr, state, burst, got,
                       heard, lost>>
    BY <1>2 DEF FindSpace, ddr, fpga
  <2>2. RingTypeOK' /\ Fetching' /\ Unstarted' /\ Told' /\ Pointers' /\ Fetched'
    BY <2>1 DEF RingInv, RingTypeOK, Fetching, Unstarted, Told, Pointers, Linked, Fetched
  <2>3. AudioSpace' = AudioSpace /\ chunk \in Chunks /\ chunk \in Nat /\ AudioSpace \in Int
    BY <2>1, Typed, Size DEF AudioSpace, RingInv, RingTypeOK, Writing
  <2>4. Writing'
    BY <2>1, <2>3 DEF Writing
  <2> QED
    BY <2>2, <2>4 DEF RingInv
<1>3. CASE Respawn
  <2>1. /\ thread' = "none" /\ ring' = [c \in Cells |-> Silence] /\ wptr' = 0 /\ rptr' = 0
        /\ chunk' = 0 /\ put' = 0 /\ count' = 0
        /\ lost' = FALSE
        /\ UNCHANGED <<aud_rd_ptr, aud_wr_ptr, state, burst, got, heard>>
    BY <1>3 DEF Respawn
  <2>2. 0 \in Cells /\ Silence \in Samples
    BY Size, RingNumbers DEF Silence, Samples
  <2>3. ring' \in [Cells -> Samples] /\ \A c \in Cells : ring'[c] = Silence
    BY <2>1, <2>2
  <2> QED
    BY <2>1, <2>2, <2>3 DEF RingInv, RingTypeOK, Fetching, Unstarted, Told, Pointers, Linked, Fetched, Writing
<1> QED
  BY <1>1, <1>2, <1>3

LEMMA FpgaKeeps ==
    ASSUME RingInv, PollWptr \/ WptrCame \/ WptrTimeout \/ BeatTimeout \/ TellRptr \/ CoreReset
    PROVE  RingInv'
<1>1. CASE PollWptr \/ WptrTimeout
  <2>1. /\ state \in {"idle", "poll"} /\ state' \in {"poll", "idle"}
        /\ UNCHANGED <<ring, wptr, rptr, thread, chunk, put, count, aud_rd_ptr, aud_wr_ptr, burst, got,
                       heard, lost>>
    BY <1>1 DEF PollWptr, WptrTimeout, ddr, arm
  <2>2. AudioSpace' = AudioSpace
    BY <2>1 DEF AudioSpace
  <2> QED
    BY <2>1, <2>2 DEF RingInv, RingTypeOK, Fetching, Unstarted, Told, Pointers, Linked, Fetched, Writing
<1>2. CASE WptrCame
  <2>1. /\ state = "poll" /\ aud_wr_ptr' = wptr
        /\ UNCHANGED <<ring, wptr, rptr, thread, chunk, put, count, aud_rd_ptr, got, heard,
                       lost>>
        /\ \/ state' = "read" /\ burst' = Plan /\ Plan > 0
           \/ state' = "idle" /\ burst' = burst
    BY <1>2 DEF WptrCame, ddr, arm
  <2>2. burst = 0 /\ got = << >> /\ Len(got) = 0
    BY <2>1 DEF RingInv, Fetching
  <2>3. /\ Plan \in Nat /\ Plan % 2 = 0 /\ Plan <= Between(aud_rd_ptr, aud_wr_ptr)
        /\ Plan <= RingSize - aud_rd_ptr
    BY PlanFits DEF RingInv
  <2>4. RingTypeOK'
    BY <2>1, <2>2, <2>3 DEF RingInv, RingTypeOK
  <2>5. Fetching'
    BY <2>1, <2>2, <2>3 DEF RingInv, Fetching
  <2>6. Pointers'
    BY <2>1, <2>2, <2>3, Typed DEF RingInv, Pointers, Linked
  <2>7. AudioSpace' = AudioSpace
    BY <2>1 DEF AudioSpace
  <2>8. Told' /\ Fetched' /\ Writing'
    BY <2>1, <2>7 DEF RingInv, Told, Fetched, Linked, Writing
  <2>9. Unstarted'
    <3> SUFFICES ASSUME thread = "none", lost PROVE state' \in {"idle", "poll"} /\ aud_wr_ptr' = 0
      BY <2>1 DEF RingInv, Unstarted
    <3>1. aud_rd_ptr = 0 /\ aud_wr_ptr = 0 /\ wptr = 0 /\ 0 \in Cells
      BY Size DEF RingInv, Unstarted
    <3>2. Plan = 0
      BY <2>3, <3>1, Meets
    <3> QED
      BY <2>1, <3>1, <3>2
  <2> QED
    BY <2>4, <2>5, <2>6, <2>8, <2>9 DEF RingInv
<1>3. CASE BeatTimeout
  <2>1. /\ state = "read" /\ state' = "idle" /\ got' = << >> /\ burst' = 0
        /\ UNCHANGED <<ring, wptr, rptr, thread, chunk, put, count, aud_rd_ptr, aud_wr_ptr, lost>>
    BY <1>3 DEF BeatTimeout, ddr, arm
  <2>2. RingTypeOK'
    BY <2>1 DEF RingInv, RingTypeOK
  <2>3. Fetching'
    BY <2>1, Size DEF RingInv, RingTypeOK, Fetching
  <2>4. Pointers'
    BY <2>1, Typed DEF RingInv, Pointers, Linked
  <2>5. AudioSpace' = AudioSpace
    BY <2>1 DEF AudioSpace
  <2> QED
    BY <2>1, <2>2, <2>3, <2>4, <2>5 DEF RingInv, Unstarted, Told, Fetched, Writing
<1>4. CASE TellRptr
  <2>1. /\ state = "tell" /\ state' = "idle" /\ rptr' = aud_rd_ptr /\ lost' = (lost /\ ~Agreed)
        /\ UNCHANGED <<ring, wptr, thread, chunk, put, count, aud_rd_ptr, aud_wr_ptr, burst, got,
                       heard>>
    BY <1>4 DEF TellRptr, arm
  <2>2. burst = 0 /\ got = << >>
    BY <2>1 DEF RingInv, Fetching
  <2>a. lost \in BOOLEAN /\ lost' \in BOOLEAN /\ (~lost' => ~lost \/ Agreed)
    BY <2>1, Zenon DEF RingInv, RingTypeOK
  <2>3. RingTypeOK' /\ Fetching' /\ Fetched' /\ Told'
    BY <2>1, <2>2, <2>a DEF RingInv, RingTypeOK, Fetching, Fetched, Told
  <2>4. Unstarted'
    <3>1. thread = "none" => ~lost
      BY <2>1 DEF RingInv, Unstarted
    <3>2. thread = "none" => ~lost'
      BY <2>1, <3>1, Zenon
    <3> QED
      BY <2>1, <2>2, <3>2 DEF RingInv, Unstarted
  <2>5. Between(aud_rd_ptr, aud_rd_ptr) = 0
    BY Meets DEF RingInv, RingTypeOK
  <2>6. Pointers'
    <3> SUFFICES ASSUME thread # "none", ~lost' PROVE Pointers'
      BY <2>1 DEF Pointers, Linked
    <3>1. Between(aud_rd_ptr, aud_wr_ptr) <= Between(aud_rd_ptr, wptr)
      BY <2>a DEF RingInv, Pointers, Linked, Agreed
    <3> QED
      BY <2>1, <2>2, <2>5, <3>1, Typed DEF Pointers
  <2>7. AudioSpace' = RingSize - 1 - Between(aud_rd_ptr, wptr)
    BY <2>1 DEF AudioSpace
  <2>8. ASSUME thread = "write", ~lost' PROVE chunk <= AudioSpace'
    <3>1. CASE Agreed
      BY <2>7, <2>8, <3>1 DEF Agreed
    <3>2. CASE ~lost
      <4> DEFINE a == Between(rptr, wptr)
                 b == Between(aud_rd_ptr, wptr)
      <4>1. /\ a \in Nat /\ b \in Nat /\ b <= a
            /\ AudioSpace = RingSize - 1 - a /\ AudioSpace' = RingSize - 1 - b
        BY <2>7, <2>8, <3>2, Typed DEF Linked
      <4>2. chunk \in Nat /\ chunk <= AudioSpace
        BY <2>8, <3>2 DEF RingInv, RingTypeOK, Writing
      <4> HIDE DEF a, b
      <4> QED
        BY <4>1, <4>2, Size
    <3> QED
      BY <2>8, <2>a, <3>1, <3>2
  <2>9. Writing'
    BY <2>1, <2>8 DEF RingInv, Writing
  <2> QED
    BY <2>3, <2>4, <2>6, <2>9 DEF RingInv
<1>5. CASE CoreReset
  <2>1. /\ aud_rd_ptr' = 0 /\ aud_wr_ptr' = 0 /\ state' = "idle" /\ burst' = 0 /\ got' = << >>
        /\ lost' = TRUE
        /\ UNCHANGED <<ring, wptr, rptr, thread, chunk, put, count>>
    BY <1>5 DEF CoreReset, ddr, arm
  <2>2. 0 \in Cells /\ 0 % 2 = 0 /\ << >> \in Seq(Samples) /\ Len(<< >>) = 0
    BY Size
  <2>3. RingTypeOK' /\ Fetching'
    BY <2>1, <2>2, Size DEF RingInv, RingTypeOK, Fetching
  <2>4. Unstarted' /\ Told' /\ Pointers' /\ Fetched' /\ Writing'
    BY <2>1, <2>2 DEF RingInv, Unstarted, Told, Pointers, Fetched, Linked, Writing
  <2> QED
    BY <2>3, <2>4 DEF RingInv
<1> QED
  BY <1>1, <1>2, <1>3, <1>4, <1>5

\* The pair that comes are the next two cells, and the last pair ends the burst.
LEMMA BeatIs ==
    ASSUME RingInv, BeatCame
    PROVE  LET all == got \o <<Sample(aud_rd_ptr + Len(got)), Sample(aud_rd_ptr + Len(got) + 1)>>
           IN  /\ all \in Seq(Samples) /\ Len(all) = Len(got) + 2
               /\ (Len(got) + 2) % 2 = 0 /\ Len(got) + 2 <= burst
               /\ Linked => \A k \in 1 .. Len(all) : all[k] = ring[Ahead(aud_rd_ptr, k - 1)]
               /\ thread = "none" /\ rptr # 0 => \A k \in 1 .. Len(all) : all[k] = Silence
<1> DEFINE n == Len(got)
           x == Sample(aud_rd_ptr + n)
           y == Sample(aud_rd_ptr + n + 1)
           all == got \o <<x, y>>
<1>1. /\ n \in Nat /\ burst \in Nat /\ aud_rd_ptr \in Cells /\ got \in Seq(Samples)
      /\ ring \in [Cells -> Samples]
  BY Typed DEF RingInv, RingTypeOK
<1>2. n % 2 = 0 /\ burst % 2 = 0 /\ n < burst /\ burst <= RingSize - aud_rd_ptr
  BY DEF RingInv, Fetching, BeatCame
<1>3. (n + 2) % 2 = 0 /\ n + 2 <= burst
  BY <1>1, <1>2, EvenGap
<1> HIDE DEF n
<1>4. /\ aud_rd_ptr + n \in Cells /\ aud_rd_ptr + n + 1 \in Cells
      /\ n \in Nat /\ n <= RingSize /\ n + 1 \in Nat /\ n + 1 <= RingSize
      /\ aud_rd_ptr + n < RingSize /\ aud_rd_ptr + (n + 1) < RingSize
      /\ aud_rd_ptr + n + 1 = aud_rd_ptr + (n + 1)
  <2>1. aud_rd_ptr \in Nat /\ RingSize \in Nat
    BY <1>1, Size
  <2> DEFINE r == aud_rd_ptr
  <2> HIDE DEF r
  <2>2. /\ r + n \in Nat /\ r + n + 1 \in Nat /\ r + n < RingSize /\ r + n + 1 < RingSize
        /\ n <= RingSize /\ n + 1 \in Nat /\ n + 1 <= RingSize
        /\ r + (n + 1) < RingSize /\ r + n + 1 = r + (n + 1)
    BY <1>1, <1>2, <1>3, <2>1 DEF r
  <2> QED
    BY <1>1, <2>2, Size DEF r
<1>5. Ahead(aud_rd_ptr, n) = aud_rd_ptr + n /\ Ahead(aud_rd_ptr, n + 1) = aud_rd_ptr + n + 1
  BY <1>1, <1>4, Further
<1>6. x = ring[Ahead(aud_rd_ptr, n)] /\ y = ring[Ahead(aud_rd_ptr, n + 1)]
  BY <1>4, <1>5 DEF Sample
<1>7. x \in Samples /\ y \in Samples
  BY <1>1, <1>4, <1>5, <1>6
<1> HIDE DEF x, y
<1>8. <<x, y>> \in Seq(Samples) /\ Len(<<x, y>>) = 2 /\ <<x, y>>[1] = x /\ <<x, y>>[2] = y
  BY <1>7
<1>9. /\ all \in Seq(Samples) /\ Len(all) = n + 2
      /\ \A k \in 1 .. n + 2 : all[k] = IF k <= n THEN got[k] ELSE <<x, y>>[k - n]
  BY <1>1, <1>8, ConcatProperties DEF n
<1>10. all[n + 1] = x /\ all[n + 2] = y /\ \A k \in 1 .. n : all[k] = got[k]
  <2>1. n + 1 \in 1 .. n + 2 /\ n + 2 \in 1 .. n + 2 /\ ~(n + 1 <= n) /\ ~(n + 2 <= n)
        /\ (n + 1) - n = 1 /\ (n + 2) - n = 2 /\ \A k \in 1 .. n : k \in 1 .. n + 2 /\ k <= n
    BY <1>1
  <2> QED
    BY <1>8, <1>9, <2>1
<1> HIDE DEF all
<1>11. \A k \in 1 .. n + 2 : k \in 1 .. n \/ k = n + 1 \/ k = n + 2
  BY <1>1
<1>12. (n + 1) - 1 = n /\ (n + 2) - 1 = n + 1
  BY <1>1
<1>13. ASSUME Linked, NEW k \in 1 .. n + 2 PROVE all[k] = ring[Ahead(aud_rd_ptr, k - 1)]
  <2>1. CASE k \in 1 .. n
    BY <1>10, <1>13, <2>1 DEF RingInv, Fetched, n
  <2>2. CASE k = n + 1
    BY <1>6, <1>10, <1>12, <2>2
  <2>3. CASE k = n + 2
    BY <1>6, <1>10, <1>12, <2>3
  <2> QED
    BY <1>11, <2>1, <2>2, <2>3
<1>14. ASSUME thread = "none", rptr # 0, NEW k \in 1 .. n + 2 PROVE all[k] = Silence
  <2>1. x = Silence /\ y = Silence
    BY <1>4, <1>5, <1>6, <1>14 DEF RingInv, Unstarted
  <2>2. k \in 1 .. n => all[k] = Silence
    BY <1>10, <1>14 DEF RingInv, Unstarted, n
  <2> QED
    BY <1>10, <1>11, <2>1, <2>2
<1> QED
  BY <1>3, <1>9, <1>13, <1>14 DEF n, x, y, all

LEMMA BeatKeeps ==
    ASSUME RingInv, BeatCame
    PROVE  RingInv'
<1> DEFINE all == got \o <<Sample(aud_rd_ptr + Len(got)), Sample(aud_rd_ptr + Len(got) + 1)>>
<1>1. /\ all \in Seq(Samples) /\ Len(all) = Len(got) + 2
      /\ (Len(got) + 2) % 2 = 0 /\ Len(got) + 2 <= burst
      /\ Linked => \A k \in 1 .. Len(all) : all[k] = ring[Ahead(aud_rd_ptr, k - 1)]
      /\ thread = "none" /\ rptr # 0 => \A k \in 1 .. Len(all) : all[k] = Silence
  BY BeatIs
<1>2. /\ state = "read" /\ UNCHANGED <<ring, wptr, rptr, thread, chunk, put, count, aud_wr_ptr, lost>>
      /\ IF Len(all) < burst
         THEN got' = all /\ UNCHANGED <<aud_rd_ptr, state, burst, heard>>
         ELSE /\ aud_rd_ptr' = Ahead(aud_rd_ptr, burst) /\ state' = "tell"
              /\ heard' = all /\ got' = << >> /\ burst' = 0
  BY DEF BeatCame, ddr, arm, Ahead
<1> HIDE DEF all
<1>3. AudioSpace' = AudioSpace
  BY <1>2 DEF AudioSpace
<1>4. Writing'
  BY <1>2, <1>3 DEF RingInv, Writing
<1>5. CASE Len(all) < burst
  <2>1. got' = all /\ UNCHANGED <<aud_rd_ptr, state, burst, heard>>
    BY <1>2, <1>5
  <2>2. RingTypeOK' /\ Fetching'
    BY <1>1, <1>2, <1>5, <2>1 DEF RingInv, RingTypeOK, Fetching
  <2>3. Unstarted' /\ Told' /\ Fetched' /\ Pointers'
    BY <1>1, <1>2, <2>1 DEF RingInv, Unstarted, Told, Fetched, Pointers, Linked
  <2> QED
    BY <1>4, <2>2, <2>3 DEF RingInv
<1>6. CASE ~(Len(all) < burst)
  <2>1. aud_rd_ptr' = Ahead(aud_rd_ptr, burst) /\ state' = "tell" /\ got' = << >> /\ burst' = 0
    BY <1>2, <1>6
  <2>2. /\ burst \in Nat /\ aud_rd_ptr \in Cells /\ burst <= RingSize - aud_rd_ptr
        /\ burst <= RingSize /\ aud_rd_ptr % 2 = 0 /\ burst % 2 = 0
    <3>1. /\ burst \in Nat /\ aud_rd_ptr \in Cells /\ burst <= RingSize - aud_rd_ptr
          /\ aud_rd_ptr % 2 = 0 /\ burst % 2 = 0
      BY DEF RingInv, RingTypeOK, Fetching
    <3>2. aud_rd_ptr \in Nat /\ RingSize \in Nat
      BY <3>1, Size
    <3> QED
      BY <3>1, <3>2
  <2>3. /\ aud_rd_ptr' \in Cells /\ aud_rd_ptr' % 2 = 0
        /\ 0 <= RingSize - aud_rd_ptr'
    <3>1. aud_rd_ptr' \in Cells
      BY <2>1, <2>2, Further
    <3>2. aud_rd_ptr' = IF aud_rd_ptr + burst < RingSize THEN aud_rd_ptr + burst
                        ELSE aud_rd_ptr + burst - RingSize
      BY <2>1, <2>2, Further
    <3>3. aud_rd_ptr' = aud_rd_ptr + burst \/ aud_rd_ptr' = 0
      BY <2>2, <3>2, Size
    <3>4. (aud_rd_ptr + burst) % 2 = 0 /\ 0 % 2 = 0
      BY <2>2, EvenGap, Size
    <3> QED
      BY <3>1, <3>3, <3>4, Size
  <2>4. RingTypeOK' /\ Fetching'
    BY <1>2, <2>1, <2>3 DEF RingInv, RingTypeOK, Fetching
  <2>5. Unstarted' /\ Told' /\ Fetched'
    BY <1>2, <2>1 DEF RingInv, Unstarted, Told, Fetched
  <2>6. Pointers'
    <3> SUFFICES ASSUME Linked PROVE Pointers'
      BY <1>2 DEF Pointers, Linked
    <3>1. /\ burst <= Between(aud_rd_ptr, aud_wr_ptr) /\ burst <= Between(aud_rd_ptr, wptr)
          /\ wptr \in Cells /\ aud_wr_ptr \in Cells /\ rptr \in Cells
          /\ Between(rptr, aud_rd_ptr) + Between(aud_rd_ptr, wptr) = Between(rptr, wptr)
          /\ Between(aud_rd_ptr, aud_wr_ptr) <= Between(aud_rd_ptr, wptr)
      BY <2>2, BurstWaits DEF RingInv, RingTypeOK, Pointers
    <3>2. /\ Between(aud_rd_ptr', wptr) = Between(aud_rd_ptr, wptr) - burst
          /\ Between(aud_rd_ptr', aud_wr_ptr) = Between(aud_rd_ptr, aud_wr_ptr) - burst
      BY <2>1, <2>2, <3>1, CatchUp
    <3>3. burst < RingSize - Between(rptr, aud_rd_ptr)
      <4>1. /\ Between(rptr, aud_rd_ptr) \in Nat /\ Between(aud_rd_ptr, wptr) \in Nat
            /\ Between(rptr, wptr) \in Nat /\ Between(rptr, wptr) < RingSize /\ RingSize \in Nat
        BY Typed, Size
      <4> QED
        BY <2>2, <3>1, <4>1
    <3>4. Between(rptr, aud_rd_ptr') = Between(rptr, aud_rd_ptr) + burst
      BY <2>1, <2>2, <3>1, <3>3, GoOn
    <3> QED
      BY <1>2, <2>1, <2>2, <3>1, <3>2, <3>4, Typed DEF Pointers
  <2> QED
    BY <1>4, <2>4, <2>5, <2>6 DEF RingInv
<1> QED
  BY <1>5, <1>6

LEMMA StepRing == RingInv /\ [RingNext]_ringVars => RingInv'
<1> SUFFICES ASSUME RingInv, [RingNext]_ringVars PROVE RingInv'
  OBVIOUS
<1>1. CASE UNCHANGED ringVars
  <2>1. UNCHANGED <<ring, wptr, rptr, thread, chunk, put, count, aud_rd_ptr, aud_wr_ptr,
                  state, burst, got, lost>>
    BY <1>1 DEF ringVars, ddr, arm, fpga
  <2>2. AudioSpace' = AudioSpace
    BY <2>1 DEF AudioSpace
  <2> QED
    BY <2>1, <2>2 DEF RingInv, RingTypeOK, Fetching, Unstarted, Told, Pointers, Linked, Fetched, Writing
<1> QED
  BY <1>1, StartKeeps, ThreadKeeps, PutKeeps, AdvanceKeeps, FpgaKeeps, BeatKeeps DEF RingNext

LEMMA RingInvariance == RingSpec => []RingInv
  BY InitRing, StepRing, PTL DEF RingSpec

\* The thread never waits for the FPGA while the FPGA waits for the thread
\* (NativeVideoWriter_AudioSpace and aud_plan_samples), but for a thread that a RESET
\* of the core has met at the start of the ring.
THEOREM NoneEverWaits == RingSpec => []NoneWaits
  BY RingInvariance, InvNoneWaits, PTL


\* What waits is the stretch of the ring between the two pointers.
LEMMA QueueIs ==
    ASSUME RingInv
    PROVE  /\ Unread = Stretch(ring, aud_rd_ptr, wptr)
           /\ Unread \in Seq(Samples) /\ Len(Unread) = Between(aud_rd_ptr, wptr)
           /\ \A k \in 1 .. Between(aud_rd_ptr, wptr) : Unread[k] = ring[Ahead(aud_rd_ptr, k - 1)]
<1>1. Unread = Stretch(ring, aud_rd_ptr, wptr)
  BY DEF Unread, Stretch
<1> QED
  BY <1>1, StretchIs DEF RingInv, RingTypeOK

LEMMA NewQueueIs ==
    ASSUME RingInv'
    PROVE  /\ Unread' = Stretch(ring', aud_rd_ptr', wptr')
           /\ Unread' \in Seq(Samples) /\ Len(Unread') = Between(aud_rd_ptr', wptr')
           /\ \A k \in 1 .. Between(aud_rd_ptr', wptr') :
                 Unread'[k] = ring'[Ahead(aud_rd_ptr', k - 1)]
<1>1. Unread' = Stretch(ring', aud_rd_ptr', wptr')
  BY DEF Unread, Stretch, Between
<1> QED
  BY <1>1, StretchIs DEF RingInv, RingTypeOK

\* What SampleQueue sees.
LinkIs == IF thread = "none" THEN "down" ELSE IF lost THEN "lost" ELSE "up"
QueueSeen == IF thread = "none" \/ lost THEN << >> ELSE Unread
Shown == <<LinkIs, QueueSeen, count, heard>>

\* In agreement, all that waits is to be seen.
LEMMA UpIs == Linked => LinkIs = "up" /\ QueueSeen = Unread
  BY DEF Linked, LinkIs, QueueSeen
LEMMA NewUpIs == Linked' => LinkIs' = "up" /\ QueueSeen' = Unread'
  BY DEF Linked, LinkIs, QueueSeen
LEMMA LostIs == thread # "none" /\ lost => LinkIs = "lost" /\ QueueSeen = << >>
  BY DEF LinkIs, QueueSeen
LEMMA DownIs == thread = "none" => LinkIs = "down" /\ QueueSeen = << >>
  BY DEF LinkIs, QueueSeen

\* The samples that are made known are the next ones.
LEMMA AdvancePushes ==
    ASSUME RingInv, RingInv', Advance, ~lost
    PROVE  \E n \in 1 .. RingSize - 1 : Promise!Push(n)
<1> DEFINE d == Between(aud_rd_ptr, wptr)
           tail == Promise!Rendered(count, chunk)
<1>1. /\ thread = "write" /\ thread' = "render" /\ put = chunk
      /\ wptr' = Ahead(wptr, chunk) /\ count' = (count + chunk) % Numbers
      /\ UNCHANGED <<ring, aud_rd_ptr, heard>>
  BY DEF Advance, fpga, Ahead
<1>a. Linked /\ Linked'
  BY <1>1 DEF Linked, Advance, fpga
<1>2. /\ chunk \in Nat /\ chunk > 0 /\ d + chunk <= RingSize - 1 /\ d \in Nat
      /\ Between(aud_rd_ptr, wptr') = d + chunk /\ count \in Nat
      /\ aud_rd_ptr \in Cells /\ wptr \in Cells
  BY AdvanceKeeps, Typed DEF RingInv, RingTypeOK
<1>3. Ahead(aud_rd_ptr, d) = wptr
  BY <1>2, Meets
<1>4. /\ Unread \in Seq(Samples) /\ Len(Unread) = d
      /\ \A k \in 1 .. d : Unread[k] = ring[Ahead(aud_rd_ptr, k - 1)]
  BY QueueIs
<1>5. /\ Unread' \in Seq(Samples) /\ Len(Unread') = d + chunk
      /\ \A k \in 1 .. d + chunk : Unread'[k] = ring[Ahead(aud_rd_ptr, k - 1)]
  BY <1>1, <1>2, NewQueueIs
<1> HIDE DEF d
<1>6. /\ tail \in Seq(Samples) /\ Len(tail) = chunk
      /\ \A j \in 1 .. chunk : tail[j] = 1 + ((count + (j - 1)) % Numbers)
  <2>1. \A j \in 1 .. chunk :
          count + j - 1 = count + (j - 1) /\ count + j - 1 \in Nat
    BY <1>2
  <2>2. \A j \in 1 .. chunk : 1 + ((count + j - 1) % Numbers) \in Samples
    BY <2>1, Numbered
  <2>3. tail = [j \in 1 .. chunk |-> 1 + ((count + j - 1) % Numbers)]
    BY DEF Promise!Rendered
  <2> HIDE DEF tail
  <2>4. tail \in Seq(Samples)
    BY <1>2, <2>2, <2>3, IsASeq
  <2>5. Len(tail) = chunk
    BY <1>2, <2>3, <2>4, LenProperties
  <2> QED
    BY <2>1, <2>3, <2>4, <2>5
<1> HIDE DEF tail
<1>7. /\ Unread \o tail \in Seq(Samples) /\ Len(Unread \o tail) = d + chunk
      /\ \A k \in 1 .. d + chunk : (Unread \o tail)[k] = IF k <= d THEN Unread[k] ELSE tail[k - d]
  BY <1>4, <1>6, ConcatProperties
<1>8. \A k \in 1 .. d + chunk : Unread'[k] = (Unread \o tail)[k]
  <2> TAKE k \in 1 .. d + chunk
  <2>1. CASE k <= d
    <3>1. k \in 1 .. d
      BY <1>2, <2>1
    <3> QED
      BY <1>4, <1>5, <1>7, <2>1, <3>1
  <2>2. CASE ~(k <= d)
    <3> DEFINE p == k - d - 1
    <3>1. /\ p \in Nat /\ p \in 0 .. chunk - 1 /\ k - d \in 1 .. chunk /\ (k - d) - 1 = p
          /\ k - 1 = d + p /\ d + p <= RingSize
      BY <1>2, <2>2, Size
    <3> HIDE DEF p
    <3>2. Ahead(aud_rd_ptr, k - 1) = Ahead(wptr, p)
      BY <1>2, <1>3, <3>1, GoOnAgain
    <3>3. ring[Ahead(wptr, p)] = 1 + ((count + p) % Numbers)
      BY <1>1, <3>1 DEF RingInv, Writing
    <3>4. tail[k - d] = 1 + ((count + p) % Numbers)
      BY <1>6, <3>1
    <3> QED
      BY <1>5, <1>7, <2>2, <3>2, <3>3, <3>4
  <2> QED
    BY <2>1, <2>2
<1>9. Unread' = Unread \o tail
  BY <1>5, <1>7, <1>8, SeqEqual
<1>10. chunk \in 1 .. RingSize - 1 /\ Len(Unread) + chunk <= RingSize - 1
  BY <1>2, <1>4, Size
<1>11. Promise!Push(chunk)
  <2>1. LinkIs = "up" /\ LinkIs' = "up" /\ QueueSeen = Unread /\ QueueSeen' = Unread'
    BY <1>a, UpIs, NewUpIs
  <2> QED
    BY <1>1, <1>9, <1>10, <2>1 DEF Promise!Push, tail, LinkIs, QueueSeen
<1> QED
  BY <1>10, <1>11

\* A burst that has come is the first of what waits.
LEMMA FirstAre ==
    ASSUME RingInv, Linked, NEW s \in Seq(Samples), Len(s) <= Between(aud_rd_ptr, wptr),
           \A k \in 1 .. Len(s) : s[k] = ring[Ahead(aud_rd_ptr, k - 1)]
    PROVE  Promise!First(Len(s)) = s
<1> DEFINE d == Between(aud_rd_ptr, wptr)
           t == SubSeq(Unread, 1, Len(s))
<1>1. Len(s) \in Nat /\ d \in Nat
  BY Typed, LenProperties
<1>2. /\ Unread \in Seq(Samples) /\ Len(Unread) = d
      /\ \A k \in 1 .. d : Unread[k] = ring[Ahead(aud_rd_ptr, k - 1)]
  BY QueueIs
<1>3. \A k \in 1 .. Len(s) : k \in 1 .. d
  BY <1>1
<1>4. \A k \in 1 .. Len(s) : Unread[k] \in Samples
  BY <1>2, <1>3, ElementOfSeq
<1> DEFINE n == Len(s)
<1>5. n \in Int /\ 1 \in Int /\ n = Len(s) /\ n \in Nat
  BY <1>1
<1> HIDE DEF n, d
<1>6. /\ SubSeq(Unread, 1, n) \in Seq(Samples)
      /\ Len(SubSeq(Unread, 1, n)) = IF 1 <= n THEN n - 1 + 1 ELSE 0
      /\ \A k \in 1 .. n - 1 + 1 : SubSeq(Unread, 1, n)[k] = Unread[1 + k - 1]
  BY <1>4, <1>5, SubSeqProperties
<1>7. t \in Seq(Samples) /\ Len(t) = n /\ \A k \in 1 .. n : t[k] = Unread[k]
  <2>1. n - 1 + 1 = n /\ (IF 1 <= n THEN n - 1 + 1 ELSE 0) = n /\ \A k \in 1 .. n : 1 + k - 1 = k
    BY <1>5
  <2>2. t = SubSeq(Unread, 1, n)
    BY <1>5
  <2> HIDE DEF t
  <2> QED
    BY <1>6, <2>1, <2>2
<1> HIDE DEF t
<1>8. t = s
  BY <1>2, <1>3, <1>5, <1>7, SeqEqual
<1> QED
  BY <1>8, UpIs DEF Promise!First, t, QueueSeen

\* The last pair of a burst takes it from what waits.
LEMMA BeatPops ==
    ASSUME RingInv, RingInv', BeatCame, Linked, ~(Len(got) + 2 < burst)
    PROVE  \E k \in 1 .. Len(Unread) : Promise!Pop(k)
<1> DEFINE d == Between(aud_rd_ptr, wptr)
           all == got \o <<Sample(aud_rd_ptr + Len(got)), Sample(aud_rd_ptr + Len(got) + 1)>>
           rest == SubSeq(Unread, burst + 1, Len(Unread))
<1>1. /\ all \in Seq(Samples) /\ Len(all) = Len(got) + 2 /\ Len(got) + 2 <= burst
      /\ \A k \in 1 .. Len(all) : all[k] = ring[Ahead(aud_rd_ptr, k - 1)]
  BY BeatIs
<1>2. /\ UNCHANGED <<ring, wptr, thread, count, lost>>
      /\ aud_rd_ptr' = Ahead(aud_rd_ptr, burst) /\ heard' = all
  BY <1>1 DEF BeatCame, ddr, arm, Ahead
<1>3. /\ burst \in Nat /\ d \in Nat /\ burst <= d /\ Len(got) \in Nat /\ d <= RingSize
      /\ aud_rd_ptr \in Cells /\ wptr \in Cells
  <2>1. d \in Nat /\ d < RingSize /\ Len(got) \in Nat
    BY Typed
  <2>2. burst \in Nat /\ burst <= d
    BY BurstWaits
  <2>3. aud_rd_ptr \in Cells /\ wptr \in Cells
    BY DEF RingInv, RingTypeOK
  <2> QED
    BY <2>1, <2>2, <2>3, Size
<1>4. Len(all) = burst /\ burst > 0
  BY <1>1, <1>3
<1>5. heard' = Promise!First(burst)
  <2> HIDE DEF all
  <2>1. Promise!First(Len(all)) = all
    BY <1>1, <1>3, <1>4, FirstAre
  <2> QED
    BY <1>2, <1>4, <2>1
<1>6. /\ Unread \in Seq(Samples) /\ Len(Unread) = d
      /\ \A k \in 1 .. d : Unread[k] = ring[Ahead(aud_rd_ptr, k - 1)]
  BY QueueIs
<1>7. Between(aud_rd_ptr', wptr') = d - burst
  BY <1>2, <1>3, CatchUp
<1>8. /\ Unread' \in Seq(Samples) /\ Len(Unread') = d - burst
      /\ \A k \in 1 .. d - burst : Unread'[k] = ring[Ahead(Ahead(aud_rd_ptr, burst), k - 1)]
  BY <1>2, <1>7, NewQueueIs
<1> HIDE DEF d, all
<1>9. \A k \in burst + 1 .. d : Unread[k] \in Samples
  <2>1. \A k \in burst + 1 .. d : k \in 1 .. d
    BY <1>3
  <2> QED
    BY <1>6, <2>1, ElementOfSeq
<1>10. /\ rest \in Seq(Samples) /\ Len(rest) = d - burst
       /\ \A k \in 1 .. d - burst : rest[k] = Unread[burst + k]
  <2> DEFINE f == burst + 1
  <2>1. /\ f \in Int /\ d \in Int /\ d - f + 1 = d - burst
        /\ (IF f <= d THEN d - f + 1 ELSE 0) = d - burst
        /\ \A k \in 1 .. d - burst : f + k - 1 = burst + k
    BY <1>3
  <2>2. rest = SubSeq(Unread, f, d)
    BY <1>6
  <2>3. \A k \in f .. d : Unread[k] \in Samples
    BY <1>9
  <2> HIDE DEF f, rest
  <2>4. /\ SubSeq(Unread, f, d) \in Seq(Samples)
        /\ Len(SubSeq(Unread, f, d)) = IF f <= d THEN d - f + 1 ELSE 0
        /\ \A k \in 1 .. d - f + 1 : SubSeq(Unread, f, d)[k] = Unread[f + k - 1]
    BY <2>1, <2>3, SubSeqProperties
  <2> QED
    BY <2>1, <2>2, <2>4
<1> HIDE DEF rest
<1>11. \A k \in 1 .. d - burst : Unread'[k] = rest[k]
  <2> TAKE k \in 1 .. d - burst
  <2>1. /\ k - 1 \in Nat /\ burst + (k - 1) <= RingSize /\ burst + k \in 1 .. d
        /\ burst + (k - 1) = (burst + k) - 1
    BY <1>3, Size
  <2>2. Ahead(Ahead(aud_rd_ptr, burst), k - 1) = Ahead(aud_rd_ptr, (burst + k) - 1)
    BY <1>3, <2>1, GoOnAgain
  <2> QED
    BY <1>6, <1>8, <1>10, <2>1, <2>2
<1>12. Unread' = rest
  BY <1>8, <1>10, <1>11, SeqEqual
<1>13. burst \in 1 .. Len(Unread)
  BY <1>3, <1>4, <1>6
<1>14. Promise!Pop(burst)
  <2>1. Linked'
    BY <1>2 DEF Linked
  <2>2. LinkIs = "up" /\ LinkIs' = "up" /\ QueueSeen = Unread /\ QueueSeen' = Unread'
    BY <2>1, UpIs, NewUpIs
  <2> QED
    BY <1>2, <1>5, <1>12, <2>2 DEF Promise!Pop, rest, LinkIs, QueueSeen
<1> QED
  BY <1>13, <1>14

\* What has come of a burst that breaks off is the first of what waits.
LEMMA GotIsFirst ==
    ASSUME RingInv, Linked, got # << >>
    PROVE  Len(got) \in 1 .. Len(Unread) /\ Promise!First(Len(got)) = got
<1>1. /\ got \in Seq(Samples) /\ Len(got) \in Nat /\ Len(got) <= Between(aud_rd_ptr, wptr)
      /\ \A k \in 1 .. Len(got) : got[k] = ring[Ahead(aud_rd_ptr, k - 1)]
  <2>1. Len(got) < burst /\ burst \in Nat /\ burst <= Between(aud_rd_ptr, wptr)
    BY BurstWaits DEF RingInv, Fetching
  <2>2. Len(got) \in Nat /\ Between(aud_rd_ptr, wptr) \in Nat
    BY Typed
  <2>3. got \in Seq(Samples) /\ \A k \in 1 .. Len(got) : got[k] = ring[Ahead(aud_rd_ptr, k - 1)]
    BY DEF RingInv, RingTypeOK, Fetched
  <2> QED
    BY <2>1, <2>2, <2>3
<1>2. Len(got) \in 1 .. Len(Unread)
  BY <1>1, QueueIs, EmptySeq, Typed
<1>3. Promise!First(Len(got)) = got
  BY <1>1, FirstAre
<1> QED
  BY <1>2, <1>3

\* While the two have lost each other, only the number of samples rendered is kept.
LEMMA LostStep ==
    ASSUME RingInv, thread # "none", thread' # "none", lost, lost',
           count' = count \/ Advance
    PROVE  Promise!Adrift
<1>1. LinkIs = "lost" /\ LinkIs' = "lost" /\ QueueSeen = << >> /\ QueueSeen' = << >>
  BY DEF LinkIs, QueueSeen
<1>2. count' = count \/ \E n \in 1 .. RingSize - 1 : count' = (count + n) % Numbers
  <2> SUFFICES ASSUME Advance PROVE \E n \in 1 .. RingSize - 1 : count' = (count + n) % Numbers
    OBVIOUS
  <2>1. chunk \in 1 .. RingSize - 1
    BY AdvanceKeeps, Size
  <2>2. count' = (count + chunk) % Numbers
    BY DEF Advance
  <2> QED
    BY <2>1, <2>2
<1> QED
  BY <1>1, <1>2 DEF Promise!Adrift, LinkIs, QueueSeen

\* A step of the ring is a step of the queue, or none.
LEMMA RingStepIsStep ==
    ASSUME RingInv, RingInv', [RingNext]_ringVars
    PROVE  Promise!Next \/ Shown' = Shown
\* The samples and the pointers that wait depend on are as they were.
<1>0. ASSUME UNCHANGED <<ring, wptr, aud_rd_ptr>> PROVE Unread' = Unread
  BY <1>0, QueueIs, NewQueueIs
<1>t. ASSUME UNCHANGED <<thread, lost, count, heard>>, Unread' = Unread PROVE Shown' = Shown
  BY <1>t DEF Shown, LinkIs, QueueSeen
<1>1. CASE ThreadStart
  <2>1. /\ thread = "none" /\ thread' = "render"
        /\ UNCHANGED <<ring, wptr, aud_rd_ptr, count, heard, lost>>
    BY <1>1 DEF ThreadStart, ddr, fpga
  <2>2. LinkIs = "down" /\ LinkIs' = (IF lost THEN "lost" ELSE "up")
        /\ QueueSeen' = IF lost THEN << >> ELSE Unread'
    BY <2>1 DEF LinkIs, QueueSeen
  <2>3. CASE lost
    <3>1. Len(QueueSeen') <= RingSize - 1 /\ \A k \in DOMAIN QueueSeen' : QueueSeen'[k] = 0
      BY <2>2, <2>3, Size
    <3>2. Promise!Start
      BY <2>1, <2>2, <2>3, <3>1 DEF Promise!Start, LinkIs, QueueSeen
    <3> QED
      BY <3>2 DEF Promise!Next
  <2>4. CASE ~lost
    <3>1. /\ Unread' = Unread /\ Unread \in Seq(Samples) /\ Len(Unread) = Between(aud_rd_ptr, wptr)
          /\ \A k \in 1 .. Between(aud_rd_ptr, wptr) : Unread[k] = ring[Ahead(aud_rd_ptr, k - 1)]
      BY <1>0, <2>1, QueueIs
    <3>2. Len(Unread) <= RingSize - 1 /\ Len(Unread) \in Nat
      BY <3>1, Typed, Size
    <3>3. \A k \in DOMAIN Unread : Unread[k] = 0
      <4> TAKE k \in DOMAIN Unread
      <4>1. k \in 1 .. Between(aud_rd_ptr, wptr)
        BY <3>1, LenProperties
      <4>2. k - 1 \in Nat /\ k - 1 <= RingSize
        BY <3>1, <3>2, <4>1, Size
      <4>3. Ahead(aud_rd_ptr, k - 1) \in Cells
        BY <4>2, Further DEF RingInv, RingTypeOK
      <4> QED
        BY <2>1, <3>1, <4>1, <4>3 DEF RingInv, Unstarted, Silence
    <3>4. Promise!Start
      BY <2>1, <2>2, <2>4, <3>1, <3>2, <3>3 DEF Promise!Start, LinkIs, QueueSeen
    <3> QED
      BY <3>4 DEF Promise!Next
  <2> QED
    BY <2>3, <2>4
<1>2. CASE (\E n \in Chunks : Render(n)) \/ FindSpace
  <2>1. /\ thread # "none" /\ thread' # "none"
        /\ UNCHANGED <<ring, wptr, aud_rd_ptr, count, heard, lost>>
    BY <1>2 DEF Render, FindSpace, ddr, fpga
  <2> QED
    BY <1>0, <2>1 DEF Shown, LinkIs, QueueSeen
<1>3. CASE Put
  <2>1. thread # "none" /\ UNCHANGED <<wptr, aud_rd_ptr, thread, count, heard, lost>>
    BY <1>3 DEF Put, fpga
  <2>2. ~lost => Unread' = Unread
    BY <1>3, <2>1, PutKeeps, QueueIs, NewQueueIs
  <2> QED
    BY <2>1, <2>2 DEF Shown, LinkIs, QueueSeen
<1>4. CASE Advance
  <2>1. thread # "none" /\ thread' # "none" /\ lost' = lost
    BY <1>4 DEF Advance, fpga
  <2>2. CASE lost
    BY <1>4, <2>1, <2>2, LostStep DEF Promise!Next
  <2>3. CASE ~lost
    BY <1>4, <2>3, AdvancePushes DEF Promise!Next
  <2> QED
    BY <2>2, <2>3
<1>5. CASE Respawn
  <2>1. thread # "none" /\ thread' = "none" /\ count' = 0 /\ heard' = heard
    BY <1>5 DEF Respawn
  <2>2. LinkIs # "down" /\ LinkIs' = "down" /\ QueueSeen' = << >>
    BY <2>1 DEF LinkIs, QueueSeen
  <2>3. Promise!Die
    BY <2>1, <2>2 DEF Promise!Die, LinkIs, QueueSeen
  <2> QED
    BY <2>3 DEF Promise!Next
<1>6. CASE PollWptr \/ WptrCame \/ WptrTimeout \/ UNCHANGED ringVars
  <2>1. UNCHANGED <<ring, wptr, thread, aud_rd_ptr, count, heard, lost>>
    BY <1>6 DEF PollWptr, WptrCame, WptrTimeout, ringVars, ddr, arm, fpga
  <2> QED
    BY <1>0, <1>t, <2>1
<1>7. CASE TellRptr
  <2>1. /\ UNCHANGED <<ring, wptr, thread, aud_rd_ptr, count, heard>>
        /\ lost' = (lost /\ ~Agreed)
    BY <1>7 DEF TellRptr, arm
  <2>2. Unread' = Unread
    BY <1>0, <2>1
  <2>3. CASE lost' = lost
    BY <1>t, <2>1, <2>2, <2>3
  <2>4. CASE lost' # lost
    <3>1. lost /\ ~lost'
      <4>1. lost \in BOOLEAN /\ lost' \in BOOLEAN /\ (lost' => lost)
        BY <2>1, Zenon DEF RingInv, RingTypeOK
      <4> QED
        BY <2>4, <4>1, Zenon
    <3>2. CASE thread = "none"
      BY <1>7, <3>1, <3>2 DEF RingInv, Unstarted, TellRptr
    <3>3. CASE thread # "none"
      <4>1. LinkIs = "lost" /\ LinkIs' = "up" /\ QueueSeen' = Unread'
        BY <2>1, <3>1, <3>3 DEF LinkIs, QueueSeen
      <4>2. Len(Unread') <= RingSize - 1
        BY <2>2, QueueIs, Typed, Size
      <4>3. Promise!Back
        BY <2>1, <4>1, <4>2 DEF Promise!Back, LinkIs, QueueSeen
      <4> QED
        BY <4>3 DEF Promise!Next
    <3> QED
      BY <3>2, <3>3
  <2> QED
    BY <2>3, <2>4
<1>8. CASE (BeatCame \/ BeatTimeout \/ CoreReset) /\ thread = "none"
  <2>1. thread' = "none" /\ UNCHANGED count
    BY <1>8 DEF BeatCame, BeatTimeout, CoreReset, arm
  <2>2. LinkIs = "down" /\ LinkIs' = "down" /\ QueueSeen = << >> /\ QueueSeen' = << >>
    BY <1>8, <2>1 DEF LinkIs, QueueSeen
  <2>3. Promise!Noise
    BY <2>1, <2>2 DEF Promise!Noise, LinkIs, QueueSeen
  <2> QED
    BY <2>3 DEF Promise!Next
<1>9. CASE (BeatCame \/ BeatTimeout \/ CoreReset) /\ thread # "none" /\ lost
  <2>1. thread' # "none" /\ count' = count /\ lost'
    BY <1>9 DEF BeatCame, BeatTimeout, CoreReset, arm
  <2> QED
    BY <1>9, <2>1, LostStep DEF Promise!Next
<1>10. CASE BeatCame /\ Linked /\ Len(got) + 2 < burst
  <2>1. UNCHANGED <<ring, wptr, thread, aud_rd_ptr, count, heard, lost>>
    BY <1>10, BeatIs DEF BeatCame, ddr, arm
  <2> QED
    BY <1>0, <1>t, <2>1
<1>11. CASE BeatCame /\ Linked /\ ~(Len(got) + 2 < burst)
  <2>1. \E k \in 1 .. Len(Unread) : Promise!Pop(k)
    BY <1>11, BeatPops
  <2>2. QueueSeen = Unread
    BY <1>11, UpIs
  <2> QED
    BY <2>1, <2>2 DEF Promise!Next, QueueSeen
<1>12. CASE BeatTimeout /\ Linked
  <2>1. /\ heard' = (IF got = << >> THEN heard ELSE got)
        /\ UNCHANGED <<ring, wptr, thread, aud_rd_ptr, count, lost>>
    BY <1>12 DEF BeatTimeout, ddr, arm
  <2>2. Unread' = Unread
    BY <1>0, <2>1
  <2>3. CASE got = << >>
    BY <1>t, <2>1, <2>2, <2>3
  <2>4. CASE got # << >>
    <3>1. Len(got) \in 1 .. Len(Unread) /\ Promise!First(Len(got)) = got
      BY <1>12, <2>4, GotIsFirst
    <3>2. /\ LinkIs = "up" /\ LinkIs' = "up" /\ QueueSeen = Unread
          /\ QueueSeen' = Unread /\ heard' = got /\ count' = count
      BY <1>12, <2>1, <2>2, <2>4, UpIs DEF LinkIs, QueueSeen, Linked
    <3>3. Promise!Again(Len(got))
      BY <3>1, <3>2 DEF Promise!Again, LinkIs, QueueSeen
    <3> QED
      BY <3>1, <3>2, <3>3 DEF Promise!Next, QueueSeen
  <2> QED
    BY <2>3, <2>4
<1>13. CASE CoreReset /\ Linked
  <2>1. /\ heard' = (IF got = << >> THEN heard ELSE got)
        /\ lost' = TRUE /\ UNCHANGED <<thread, count>>
    BY <1>13 DEF CoreReset, arm
  <2>2. LinkIs = "up" /\ LinkIs' = "lost" /\ QueueSeen = Unread /\ QueueSeen' = << >>
    BY <1>13, <2>1, UpIs DEF LinkIs, QueueSeen, Linked
  <2>3. heard' = heard \/ \E k \in 1 .. Len(Unread) : heard' = Promise!First(k)
    BY <1>13, <2>1, GotIsFirst
  <2>4. Promise!Lose
    BY <2>1, <2>2, <2>3 DEF Promise!Lose, LinkIs, QueueSeen
  <2> QED
    BY <2>4 DEF Promise!Next
<1> QED
  BY <1>1, <1>2, <1>3, <1>4, <1>5, <1>6, <1>7, <1>8, <1>9, <1>10, <1>11, <1>12, <1>13
  DEF RingNext, Linked

\* Whatever is late, times out or is put off, and whenever the process is replaced,
\* the ring is the queue of SampleQueue: what a process renders is heard in its order
\* and whole, and nothing is heard that was written over - until a RESET of the core,
\* and again from when the FPGA has told the thread of a pointer it can go by.
THEOREM AllIsHeard == RingSpec => HearsAll
<1>1. RingInit => Promise!Init
  BY DEF RingInit, Promise!Init
<1>2. RingInv /\ RingInv' /\ [RingNext]_ringVars => [Promise!Next]_Shown
  BY RingStepIsStep
<1> QED
  BY <1>1, <1>2, RingInvariance, PTL DEF RingSpec, HearsAll, Promise!Spec, Shown, LinkIs, QueueSeen
=============================================================================
