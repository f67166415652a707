------------------------- MODULE InputReplayProofs -------------------------
(***************************************************************************)
(* Proofs about InputReplay, for any buttons, pointers, texts, files and   *)
(* limits.                                                                 *)
(***************************************************************************)
EXTENDS InputReplay, SequenceTheorems, TLAPS

\* The limits the reader of a take asks for are kept while it is made.
Limits ==
    /\ chars <= TextMax
    /\ named <= IdentMax
    /\ Len(mouse) <= Len(frames)
    /\ TakeIsSound

\* What a manifest says of a file is what the run found when it opened it.
Vouched(i, os) == \A n \in 1 .. Len(os) : i[os[n].file] \in {os[n].version, Unreadable}

\* While recording the cart files stand still, and the manifest is about them;
\* a replay knows the manifest of its take, and its verdict covers every drift.
Manifest ==
    /\ mode = 1 => /\ \A f \in Files : ident[f] \in {card[f], Unreadable}
                   /\ \A n \in 1 .. Len(opened) :
                         opened[n].version = card[opened[n].file]
    /\ take # NoTake => Vouched(take.ident, take.opened)
    /\ mode = 2 => take # NoTake /\ ident = take.ident
    /\ drift => ~identOk

\* After the first frame of a replay its baseline has what was always held.
Hands == pos > 0 => resting \subseteq prevLive

IInv == TypeOK /\ Limits /\ Manifest /\ Hands
-----------------------------------------------------------------------------
LEMMA AppendFacts ==
    ASSUME NEW S, NEW s \in Seq(S), NEW e \in S
    PROVE  /\ Append(s, e) \in Seq(S)
           /\ Len(Append(s, e)) = Len(s) + 1
           /\ Len(s) \in Nat
           /\ \A i \in 1 .. Len(s) : Append(s, e)[i] = s[i]
           /\ Append(s, e)[Len(s) + 1] = e
  BY AppendProperties, SMT

LEMMA EmptyFacts == \A S : <<>> \in Seq(S) /\ Len(<<>>) = 0
  OBVIOUS

\* What is stored of typed text fits, and is all of it unless the limit is met.
LEMMA StoredFacts ==
    ASSUME chars \in Nat, chars <= TextMax, NEW typed \in Seq(Chars)
    PROVE  /\ Stored(typed) \in Seq(Chars)
           /\ Len(Stored(typed)) \in Nat
           /\ chars + Len(Stored(typed)) <= TextMax
           /\ chars + Len(Stored(typed)) < TextMax => Stored(typed) = typed
<1>1. CASE chars + Len(typed) <= TextMax
  BY <1>1, SMT DEF Stored
<1>2. CASE ~(chars + Len(typed) <= TextMax)
  <2> DEFINE n == TextMax - chars
  <2>1. n \in Nat /\ n <= Len(typed) /\ chars + n = TextMax
    BY <1>2, InputConstants, SMT
  <2>2. Stored(typed) = SubSeq(typed, 1, n)
    BY <1>2 DEF Stored
  <2>3. SubSeq(typed, 1, n) \in Seq(Chars) /\ Len(SubSeq(typed, 1, n)) = n
    BY <2>1, SubSeqProperties, SMT
  <2> QED
    BY <2>1, <2>2, <2>3, SMT
<1> QED
  BY <1>1, <1>2

\* The inputs of a frame.
LEMMA HandedFacts ==
    ASSUME TypeOK, NEW held \in SUBSET Buttons, NEW at \in Pointers, NEW typed \in Seq(Chars)
    PROVE  Handed(held, at, typed) \in Inputs
  BY InputConstants DEF Handed, Inputs, TypeOK

\* A session leaves nothing behind.
LEMMA EndFacts ==
    ASSUME EndSession
    PROVE  /\ mode' = 0 /\ frames' = <<>> /\ mouse' = <<>> /\ text' = <<>> /\ chars' = 0
           /\ ident' = NoNames /\ named' = 0 /\ identOk' = TRUE
           /\ pos' = 0 /\ prevLive' = {} /\ prevMouse' = NoPointer
           /\ saw' = <<>> /\ opened' = <<>> /\ fed' = NoFed
           /\ reopened' = 0 /\ drift' = FALSE /\ resting' = Buttons
  BY DEF EndSession

\* So after it only the card and the take are to be looked at.
LEMMA EndInv ==
    ASSUME IInv, EndSession, card' \in Cards,
           take' \in Takes \cup {NoTake},
           take' # NoTake => Sound(take') /\ Vouched(take'.ident, take'.opened)
    PROVE  IInv'
<1>1. TypeOK'
  BY EndFacts, EmptyFacts, InputConstants DEF TypeOK, NoNames, Manifests, NoFed, IInv
<1>2. Limits'
  BY EndFacts, EmptyFacts, InputConstants DEF Limits, TakeIsSound
<1>3. Manifest'
  BY EndFacts DEF Manifest
<1>4. Hands'
  BY EndFacts, SMT DEF Hands
<1> QED
  BY <1>1, <1>2, <1>3, <1>4 DEF IInv
-----------------------------------------------------------------------------
\* The initial states have the invariant.
LEMMA InitInv == Init => IInv
<1> SUFFICES ASSUME Init PROVE IInv
  OBVIOUS
<1>1. card \in Cards /\ ident \in Manifests
  BY DEF Init, Cards, Manifests, NoNames
<1>2. TypeOK
  <2>1. /\ frames \in Seq(SUBSET Buttons) /\ Len(frames) <= MaxFrames
        /\ mouse \in Seq(Pointers) /\ text \in Seq(Seq(Chars))
        /\ saw \in Seq(Inputs) /\ opened \in Seq(Opens)
    BY EmptyFacts, InputConstants DEF Init
  <2>2. pos \in 0 .. MaxFrames /\ mode \in 0 .. 2
    BY InputConstants DEF Init
  <2> QED
    BY <1>1, <2>1, <2>2 DEF Init, TypeOK
<1>3. Limits
  BY EmptyFacts, InputConstants DEF Init, Limits, TakeIsSound
<1>4. Manifest
  BY DEF Init, Manifest
<1>5. Hands
  BY SMT DEF Init, Hands
<1> QED
  BY <1>2, <1>3, <1>4, <1>5 DEF IInv

\* A take of what was recorded is one that a replay can read, and vouches for
\* what the run opened.
LEMMA TakeFacts ==
    ASSUME IInv, mode = 1, NEW all \in Seq(SUBSET Buttons), NEW ss \in Seq(Inputs),
           all # <<>>, Len(all) <= MaxFrames, Len(mouse) <= Len(all),
           NEW t, t = [frames |-> all, mouse |-> mouse, text |-> text, chars |-> chars,
                       ident |-> ident, named |-> named, saw |-> ss, opened |-> opened]
    PROVE  t \in Takes /\ Sound(t) /\ Vouched(t.ident, t.opened)
<1>1. t \in Takes
  BY DEF Takes, IInv, TypeOK
<1>2. Len(all) \in 1 .. MaxFrames
  BY InputConstants, EmptySeq, SMT
<1>3. Sound(t)
  BY <1>2 DEF Sound, IInv, Limits
<1>4. Vouched(ident, opened)
  <2> SUFFICES ASSUME NEW n \in 1 .. Len(opened)
               PROVE  ident[opened[n].file] \in {opened[n].version, Unreadable}
    BY DEF Vouched
  <2>1. opened[n] \in Opens
    BY ElementOfSeq DEF IInv, TypeOK
  <2> QED
    BY <2>1 DEF IInv, Manifest, Opens
<1> QED
  BY <1>1, <1>3, <1>4

\* A frame that is recorded.
LEMMA RecordFrameInv ==
    ASSUME IInv, NEW held \in SUBSET Buttons, NEW at \in Pointers, NEW typed \in Texts,
           RecordFrame(held, at, typed)
    PROVE  IInv'
<1>0. typed \in Seq(Chars)
  BY InputConstants
<1> DEFINE put == Stored(typed)
<1>1. /\ put \in Seq(Chars) /\ Len(put) \in Nat /\ chars + Len(put) <= TextMax
      /\ Handed(held, at, typed) \in Inputs
  BY <1>0, StoredFacts, HandedFacts DEF IInv, TypeOK, Limits
<1> HIDE DEF put
<1>2. /\ frames' = Append(frames, held) /\ mouse' = Append(mouse, at)
      /\ text' = Append(text, put) /\ chars' = chars + Len(put)
      /\ saw' = Append(saw, Handed(held, at, typed))
      /\ fed' = Handed(held, at, typed) /\ prevMouse' = at
      /\ mode = 1 /\ Len(frames) < MaxFrames
      /\ UNCHANGED <<mode, manifest, pos, prevLive, card, take, opened, rerun>>
  BY DEF RecordFrame, Feed, put
<1>3. TypeOK'
  BY <1>1, <1>2, AppendFacts, InputConstants DEF IInv, TypeOK, manifest, rerun
<1>4. Limits'
  <2>1. Len(mouse') <= Len(frames')
    BY <1>2, AppendFacts, SMT DEF IInv, TypeOK, Limits
  <2> QED
    BY <2>1, <1>1, <1>2 DEF IInv, Limits, TakeIsSound, manifest
<1>5. Manifest'
  BY <1>2 DEF IInv, Manifest, manifest, rerun
<1>6. Hands'
  BY <1>2 DEF IInv, Hands, rerun
<1> QED
  BY <1>3, <1>4, <1>5, <1>6 DEF IInv

\* Memory runs out.
LEMMA RecordFrameOomInv ==
    ASSUME IInv, NEW held \in SUBSET Buttons, NEW at \in Pointers, NEW typed \in Texts,
           NEW pushed \in BOOLEAN, RecordFrameOom(held, at, typed, pushed)
    PROVE  IInv'
<1> DEFINE all == IF pushed THEN Append(frames, held) ELSE frames
           ss == IF pushed THEN Append(saw, Handed(held, at, typed)) ELSE saw
           t == [frames |-> all, mouse |-> mouse, text |-> text, chars |-> chars,
                 ident |-> ident, named |-> named, saw |-> ss, opened |-> opened]
<1>1. /\ mode = 1 /\ Len(frames) < MaxFrames /\ EndSession /\ card' = card
      /\ take' = take \/ (all # <<>> /\ take' = t)
  BY DEF RecordFrameOom
<1>2. /\ all \in Seq(SUBSET Buttons) /\ Len(all) <= MaxFrames /\ Len(mouse) <= Len(all)
  <2>1. frames \in Seq(SUBSET Buttons) /\ Len(mouse) \in Nat /\ Len(mouse) <= Len(frames)
    BY DEF IInv, TypeOK, Limits
  <2> QED
    BY <2>1, <1>1, AppendFacts, InputConstants, SMT
<1>3. ss \in Seq(Inputs)
  <2>1. saw \in Seq(Inputs) /\ Handed(held, at, typed) \in Inputs
    BY HandedFacts, InputConstants DEF IInv, TypeOK
  <2> HIDE DEF Handed
  <2> QED
    BY <2>1, AppendFacts
<1> HIDE DEF all, ss
<1>4. CASE take' = take
  BY <1>1, <1>4, EndInv DEF IInv, TypeOK, Limits, TakeIsSound, Manifest
<1>5. CASE all # <<>> /\ take' = t
  BY <1>1, <1>2, <1>3, <1>5, TakeFacts, EndInv DEF IInv, TypeOK
<1> QED
  BY <1>1, <1>4, <1>5

\* A take that is written whole.
LEMMA WrittenInv ==
    ASSUME IInv, mode = 1, frames # <<>>, Written, EndSession, card' = card
    PROVE  IInv'
<1>1. frames \in Seq(SUBSET Buttons) /\ saw \in Seq(Inputs)
  BY DEF IInv, TypeOK
<1>2. Len(frames) <= MaxFrames /\ Len(mouse) <= Len(frames)
  BY DEF IInv, TypeOK, Limits
<1>3. take' \in Takes /\ Sound(take') /\ Vouched(take'.ident, take'.opened)
  BY <1>1, <1>2, TakeFacts DEF Written
<1> QED
  BY <1>3, EndInv DEF IInv, TypeOK

\* The frames after the last one that fits.
LEMMA RecordFrameAtCapInv ==
    ASSUME IInv, NEW held \in SUBSET Buttons, NEW at \in Pointers, NEW typed \in Texts,
           RecordFrameAtCap(held, at, typed)
    PROVE  IInv'
<1>1. CASE Written /\ EndSession
  <2>1. mode = 1 /\ card' = card /\ frames # <<>>
    BY InputConstants, EmptyFacts, SMT DEF RecordFrameAtCap
  <2> QED
    BY <1>1, <2>1, WrittenInv
<1>2. CASE /\ Feed(held, at, typed)
           /\ UNCHANGED <<mode, streams, manifest, pos, prevLive, take, run, rerun>>
  <2>1. Handed(held, at, typed) \in Inputs
    BY HandedFacts, InputConstants DEF IInv
  <2>2. /\ fed' = Handed(held, at, typed) /\ prevMouse' = at /\ card' = card
        /\ UNCHANGED <<mode, frames, mouse, text, chars, ident, named, identOk, pos, prevLive,
                       take, saw, opened, reopened, drift, resting>>
    BY <1>2 DEF RecordFrameAtCap, Feed, streams, manifest, run, rerun
  <2>3. TypeOK'
    BY <2>1, <2>2 DEF IInv, TypeOK
  <2> QED
    BY <2>2, <2>3 DEF IInv, Limits, TakeIsSound, Manifest, Vouched, Hands
<1> QED
  BY <1>1, <1>2 DEF RecordFrameAtCap

\* A recording starts, with the entry cart vouched for.
LEMMA StartRecordingInv ==
    ASSUME IInv, StartRecording
    PROVE  IInv'
<1> DEFINE o == [file |-> Entry, version |-> card[Entry], frame |-> 0]
<1>1. /\ mode' = 1 /\ mode = 0 /\ take = NoTake /\ card[Entry] \in Versions
      /\ ident' = [NoNames EXCEPT ![Entry] = card[Entry]] /\ named' = 1
      /\ saw' = <<>> /\ opened' = <<o>>
      /\ UNCHANGED <<frames, mouse, text, chars, identOk, pos, prevLive, prevMouse, card,
                     take, fed, reopened, drift, resting>>
  BY DEF StartRecording, streams, rerun
<1>2. o \in Opens
  BY <1>1, InputConstants DEF Opens
<1>3. <<o>> \in Seq(Opens) /\ Len(<<o>>) = 1 /\ <<o>>[1] = o
  BY <1>2
<1>4. ident' \in Manifests
  BY <1>1 DEF NoNames, Manifests
<1>5. TypeOK'
  BY <1>1, <1>3, <1>4, EmptyFacts DEF IInv, TypeOK
<1>6. Limits'
  BY <1>1, InputConstants DEF IInv, Limits, TakeIsSound
<1>7. Manifest'
  <2>1. \A f \in Files : ident'[f] \in {card'[f], Unreadable}
    BY <1>1 DEF NoNames
  <2>2. \A n \in 1 .. Len(opened') : opened'[n].version = card'[opened'[n].file]
    BY <1>1, <1>3
  <2> QED
    BY <1>1, <2>1, <2>2 DEF IInv, Manifest
<1>8. Hands'
  BY <1>1 DEF IInv, Hands
<1> QED
  BY <1>5, <1>6, <1>7, <1>8 DEF IInv

\* A recorded run opens another file.
LEMMA OpenSiblingInv ==
    ASSUME IInv, NEW f \in Files, OpenSibling(f)
    PROVE  IInv'
<1> DEFINE o == [file |-> f, version |-> card[f], frame |-> Len(saw)]
<1>1. /\ mode = 1 /\ card[f] # Missing /\ opened' = Append(opened, o)
      /\ Names(f)
      /\ UNCHANGED <<mode, frames, mouse, text, chars, identOk, pos, prevLive, prevMouse,
                     card, take, saw, fed, reopened, drift, resting>>
  BY DEF OpenSibling, RecordOpens, streams, rerun
<1>2. /\ card[f] \in Versions \cup {Unreadable} /\ Len(saw) \in Nat
      /\ opened \in Seq(Opens) /\ ident \in Manifests /\ named \in Nat /\ card \in Cards
  BY <1>1 DEF IInv, TypeOK, Cards
<1>3. o \in Opens
  BY <1>2 DEF Opens
<1>4. /\ opened' \in Seq(Opens) /\ Len(opened') = Len(opened) + 1 /\ Len(opened) \in Nat
      /\ \A n \in 1 .. Len(opened) : opened'[n] = opened[n]
      /\ opened'[Len(opened) + 1] = o
  BY <1>1, <1>2, <1>3, AppendFacts
<1>5. /\ ident' \in Manifests /\ named' \in Nat /\ named' <= IdentMax
      /\ \A g \in Files : ident'[g] \in {card[g], Unreadable}
  BY <1>1, <1>2, InputConstants DEF Names, IInv, Limits, Manifest, Manifests
<1>6. TypeOK'
  BY <1>1, <1>4, <1>5 DEF IInv, TypeOK
<1>7. Limits'
  BY <1>1, <1>5 DEF IInv, Limits, TakeIsSound
<1>8. Manifest'
  <2>1. ASSUME NEW n \in 1 .. Len(opened') PROVE opened'[n].version = card[opened'[n].file]
    <3>1. CASE n \in 1 .. Len(opened)
      BY <1>1, <1>4, <3>1 DEF IInv, Manifest
    <3>2. CASE n = Len(opened) + 1
      BY <1>4, <3>2
    <3> QED
      BY <1>4, <3>1, <3>2
  <2> QED
    BY <1>1, <1>5, <2>1 DEF IInv, Manifest
<1>9. Hands'
  BY <1>1 DEF IInv, Hands
<1> QED
  BY <1>6, <1>7, <1>8, <1>9 DEF IInv

\* A take of a replay is a take.
LEMMA TakeIsTake ==
    ASSUME IInv, take # NoTake
    PROVE  /\ take \in Takes /\ Sound(take) /\ Vouched(take.ident, take.opened)
           /\ take.frames \in Seq(SUBSET Buttons) /\ take.mouse \in Seq(Pointers)
           /\ take.text \in Seq(Seq(Chars)) /\ take.chars \in Nat
           /\ take.ident \in Manifests /\ take.named \in Nat
           /\ take.opened \in Seq(Opens) /\ take.saw \in Seq(Inputs)
  BY DEF IInv, TypeOK, Limits, TakeIsSound, Manifest, Takes

\* A replay starts.
LEMMA StartReplayInv ==
    ASSUME IInv, StartReplay
    PROVE  IInv'
<1>1. /\ mode' = 2 /\ take # NoTake
      /\ frames' = take.frames /\ mouse' = take.mouse
      /\ text' = take.text /\ chars' = take.chars
      /\ ident' = take.ident /\ named' = take.named
      /\ UNCHANGED <<identOk, pos, prevLive, prevMouse, card, take, saw, opened, fed,
                     reopened, drift, resting>>
  BY DEF StartReplay, run, rerun
<1>2. TypeOK' /\ Limits'
  <2>1. TypeOK'
    <3>1. Len(take.frames) <= MaxFrames
      BY <1>1, TakeIsTake, InputConstants DEF Sound
    <3> QED
      BY <1>1, <3>1, TakeIsTake DEF IInv, TypeOK
  <2>2. Limits'
    BY <1>1, TakeIsTake, InputConstants DEF IInv, Limits, TakeIsSound, Sound
  <2> QED
    BY <2>1, <2>2
<1>3. Manifest'
  BY <1>1 DEF IInv, Manifest
<1>4. Hands'
  BY <1>1 DEF IInv, Hands
<1> QED
  BY <1>2, <1>3, <1>4 DEF IInv

\* A file is opened in a replay: if the take vouches for other content, the
\* verdict of the manifest is spoken in the same step.
LEMMA ReplayOpensInv ==
    ASSUME IInv, ReplayOpens
    PROVE  IInv'
<1> DEFINE n == reopened + 1
           o == take.opened[n]
<1>1. /\ mode = 2 /\ reopened < Len(take.opened) /\ reopened' = n
      /\ UNCHANGED <<mode, frames, mouse, text, chars, ident, named, pos, prevLive,
                     prevMouse, card, take, saw, opened, fed, resting>>
  BY DEF ReplayOpens, OpensNext, streams, run
<1>2. take # NoTake /\ ident = take.ident
  BY <1>1 DEF IInv, Manifest
<1>3. n \in 1 .. Len(take.opened) /\ reopened' \in Nat
  BY <1>1, <1>2, TakeIsTake DEF IInv, TypeOK
<1>4. o \in Opens /\ ident[o.file] \in {o.version, Unreadable}
  BY <1>2, <1>3, TakeIsTake, ElementOfSeq DEF Vouched
<1>5. /\ identOk' \in BOOLEAN /\ drift' \in BOOLEAN
      /\ drift' => ~identOk'
  <2>1. CASE card[o.file] = Missing
    BY <1>1, <2>1 DEF ReplayOpens, IInv, TypeOK, Manifest
  <2>2. CASE card[o.file] # Missing
    <3>1. /\ identOk' = (identOk /\ ident[o.file] \in {card[o.file], Unreadable})
          /\ drift' = (drift \/ (take.ident[o.file] # Unreadable /\ card[o.file] # o.version))
      BY <2>2 DEF ReplayOpens, Checks
    <3> QED
      BY <1>2, <1>4, <3>1 DEF IInv, TypeOK, Manifest
  <2> QED
    BY <2>1, <2>2
<1>6. TypeOK'
  BY <1>1, <1>3, <1>5 DEF IInv, TypeOK
<1> QED
  BY <1>1, <1>5, <1>6 DEF IInv, Limits, TakeIsSound, Manifest, Hands, Vouched

\* A frame of a replay.
LEMMA PlayFrameInv ==
    ASSUME IInv, NEW live \in SUBSET Buttons, NEW at \in Pointers, PlayFrame(live, at)
    PROVE  IInv'
<1> DEFINE held == frames[pos + 1]
           ptr == IF pos < Len(mouse) THEN mouse[pos + 1] ELSE at
           typed == IF pos < Len(text) THEN text[pos + 1] ELSE <<>>
<1>1. /\ mode = 2 /\ pos < Len(frames) /\ identOk
      /\ prevLive' = live /\ pos' = pos + 1 /\ resting' = resting \cap live
      /\ fed' = Handed(held, ptr, typed) /\ prevMouse' = ptr
      /\ UNCHANGED <<mode, frames, mouse, text, chars, ident, named, identOk, card, take,
                     saw, opened, reopened, drift>>
  BY DEF PlayFrame, Playing, Feed, streams, manifest, run
<1>2. held \in SUBSET Buttons /\ ptr \in Pointers /\ typed \in Seq(Chars)
  BY <1>1, ElementOfSeq DEF IInv, TypeOK
<1> HIDE DEF held, ptr, typed
<1>3. fed' \in Inputs
  BY <1>1, <1>2, HandedFacts DEF IInv
<1>4. pos' \in 0 .. MaxFrames
  BY <1>1, InputConstants DEF IInv, TypeOK
<1>5. TypeOK'
  BY <1>1, <1>2, <1>3, <1>4 DEF IInv, TypeOK
<1> QED
  BY <1>1, <1>5 DEF IInv, Limits, TakeIsSound, Manifest, Hands, Vouched

\* The user changes the card.
LEMMA CardChangesInv ==
    ASSUME IInv, NEW f \in Files, NEW c \in Versions \cup {Unreadable, Missing},
           CardChanges(f, c)
    PROVE  IInv'
<1>1. /\ mode # 1 /\ card' = [card EXCEPT ![f] = c]
      /\ UNCHANGED <<mode, frames, mouse, text, chars, ident, named, identOk, pos, prevLive,
                     prevMouse, take, saw, opened, fed, reopened, drift, resting>>
  BY DEF CardChanges, streams, manifest, run, rerun
<1>2. card' \in Cards
  BY <1>1 DEF IInv, TypeOK, Cards
<1>3. TypeOK'
  BY <1>1, <1>2 DEF IInv, TypeOK
<1> QED
  BY <1>1, <1>3 DEF IInv, Limits, TakeIsSound, Manifest, Hands, Vouched

\* What ends a session and leaves the take as it was.
LEMMA EndKeepsInv ==
    ASSUME IInv, EndSession, UNCHANGED <<card, take>>
    PROVE  IInv'
  BY EndInv DEF IInv, TypeOK, Limits, TakeIsSound, Manifest

LEMMA StopRecordingInv ==
    ASSUME IInv, StopRecording
    PROVE  IInv'
<1>1. mode = 1 /\ EndSession /\ card' = card
  BY DEF StopRecording
<1>2. CASE frames = <<>>
  BY <1>1, <1>2, EndKeepsInv DEF StopRecording
<1>3. CASE frames # <<>>
  BY <1>1, <1>3, WrittenInv DEF StopRecording
<1> QED
  BY <1>2, <1>3

\* Every step keeps the invariant.
LEMMA StepInv == IInv /\ [Next]_vars => IInv'
<1> SUFFICES ASSUME IInv, [Next]_vars PROVE IInv'
  OBVIOUS
<1>1. CASE StartRecording
  BY <1>1, StartRecordingInv
<1>2. CASE StopRecording
  BY <1>2, StopRecordingInv
<1>3. CASE StartReplay
  BY <1>3, StartReplayInv
<1>4. CASE ReplayOpens
  BY <1>4, ReplayOpensInv
<1>5. CASE ReplayEnds \/ SessionEnds
  BY <1>5, EndKeepsInv DEF ReplayEnds, SessionEnds
<1>6. CASE \E f \in Files : OpenSibling(f)
  BY <1>6, OpenSiblingInv
<1>7. CASE \E f \in Files, c \in Versions \cup {Unreadable, Missing} : CardChanges(f, c)
  BY <1>7, CardChangesInv
<1>8. ASSUME NEW held \in SUBSET Buttons, NEW at \in Pointers, NEW typed \in Texts,
             \/ RecordFrame(held, at, typed)
             \/ \E pushed \in BOOLEAN : RecordFrameOom(held, at, typed, pushed)
             \/ RecordFrameAtCap(held, at, typed)
      PROVE  IInv'
  BY <1>8, RecordFrameInv, RecordFrameOomInv, RecordFrameAtCapInv
<1>9. ASSUME NEW live \in SUBSET Buttons,
             TakeOver(live) \/ \E at \in Pointers : PlayFrame(live, at)
      PROVE  IInv'
  BY <1>9, PlayFrameInv, EndKeepsInv DEF TakeOver
<1>10. CASE UNCHANGED vars
  BY <1>10 DEF IInv, TypeOK, Limits, TakeIsSound, Manifest, Hands, Vouched,
               vars, streams, manifest, run, rerun
<1> QED
  BY <1>1, <1>2, <1>3, <1>4, <1>5, <1>6, <1>7, <1>8, <1>9, <1>10 DEF Next

\* The invariant holds in every reachable state.
THEOREM Invariant == Spec => []IInv
  BY InitInv, StepInv, PTL DEF Spec

\* Every variable keeps its type, and a take never grows past the cap.
THEOREM TypeCorrect == Spec => []TypeOK
  BY Invariant, PTL DEF IInv

\* Whatever p8rec_write puts on the card has sizes that p8rec_load accepts,
\* for any caps, any text and an allocation that fails anywhere.
THEOREM WhatIsWrittenIsRead == Spec => []TakeIsSound
<1>1. IInv => TakeIsSound
  BY DEF IInv, Limits
<1> QED
  BY Invariant, <1>1, PTL

\* No frame of a take goes to a run that has opened another file than the take
\* vouches for.
THEOREM DriftStopsTheReplay == Spec => NoFrameAfterDrift
<1>1. IInv /\ [Next]_vars => [mode = 2 /\ pos' = pos + 1 => ~drift]_vars
  <2> SUFFICES ASSUME IInv, Next, mode = 2, pos' = pos + 1 PROVE ~drift
    BY DEF vars
  <2>1. pos \in Nat
    BY DEF IInv, TypeOK
  <2>2. pos' # pos /\ pos' # 0
    BY <2>1
  <2>3. ~EndSession
    BY <2>2 DEF EndSession
  <2>4. PICK live \in SUBSET Buttons, at \in Pointers : PlayFrame(live, at)
    BY <2>2, <2>3 DEF Next, StartRecording, StopRecording, StartReplay, ReplayOpens,
       ReplayEnds, SessionEnds, OpenSibling, CardChanges, RecordFrame, RecordFrameOom,
       RecordFrameAtCap, TakeOver
  <2> QED
    BY <2>4 DEF PlayFrame, IInv, Manifest
<1> QED
  BY Invariant, <1>1, PTL DEF Spec, NoFrameAfterDrift

\* A take-over needs a button that was up in some frame of the replay.
THEOREM TakeOverNeedsAPress == Spec => RestingHandsLetItPlay
<1>1. IInv => \A live \in SUBSET Buttons : TakeOver(live) => ~(live \subseteq resting)
  <2> SUFFICES ASSUME IInv, NEW live \in SUBSET Buttons, TakeOver(live), live \subseteq resting
               PROVE  FALSE
    OBVIOUS
  <2>1. live \ Baseline(live) # {}
    BY DEF TakeOver
  <2>2. pos # 0 /\ Baseline(live) = prevLive
    BY <2>1 DEF Baseline
  <2>3. pos > 0
    BY <2>2 DEF IInv, TypeOK
  <2> QED
    BY <2>1, <2>2, <2>3 DEF IInv, Hands
<1>2. IInv /\ [Next]_vars =>
        [\A live \in SUBSET Buttons : TakeOver(live) => ~(live \subseteq resting)]_vars
  BY <1>1
<1> QED
  BY Invariant, <1>2, PTL DEF Spec, RestingHandsLetItPlay
-----------------------------------------------------------------------------
(* That a replay is the recorded run once more needs the streams to be of     *)
(* one length.                                                                *)

\* Streams say, frame by frame, what was handed to the run they are of; the
\* mouse moved from where the frame before left it.
Mirror(fs, ms, ts, cs, ss) ==
    /\ Len(ms) = Len(fs) /\ Len(ts) = Len(fs) /\ Len(ss) = Len(fs)
    /\ \A i \in 1 .. Len(fs) :
          /\ ss[i].held = fs[i] /\ ss[i].at = ms[i]
          /\ ss[i].from = IF i = 1 THEN ms[1] ELSE ms[i - 1]
          /\ cs < TextMax => ss[i].typed = ts[i]

\* Where the mouse was after so many frames.
After(ms, n) == IF n = 0 THEN NoPointer ELSE ms[n]

Idle ==
    mode = 0 => /\ frames = <<>> /\ mouse = <<>> /\ text = <<>> /\ saw = <<>>
                /\ pos = 0 /\ prevMouse = NoPointer

Recorded ==
    mode = 1 => /\ Mirror(frames, mouse, text, chars, saw)
                /\ Len(frames) < MaxFrames => prevMouse = After(mouse, Len(frames))

Kept == take # NoTake => Mirror(take.frames, take.mouse, take.text, take.chars, take.saw)

Replayed ==
    mode = 2 => /\ frames = take.frames /\ mouse = take.mouse
                /\ text = take.text /\ chars = take.chars
                /\ pos <= Len(frames) /\ prevMouse = After(mouse, pos)

Mirrored == Idle /\ Recorded /\ Kept /\ Replayed /\ SameInputs

LEMMA MirroredInit == Init => Mirrored
  BY DEF Init, Mirrored, Idle, Recorded, Kept, Replayed, SameInputs

\* After a session only the take is to be looked at.
LEMMA MirroredEnd ==
    ASSUME EndSession, Kept'
    PROVE  Mirrored'
  BY EndFacts DEF Mirrored, Idle, Recorded, Replayed, SameInputs

\* A frame that is recorded is mirrored.
LEMMA MirroredRecord ==
    ASSUME IInv, Mirrored,
           NEW held \in SUBSET Buttons, NEW at \in Pointers, NEW typed \in Texts,
           RecordFrame(held, at, typed)
    PROVE  Mirrored'
<1> DEFINE put == Stored(typed)
           in == Handed(held, at, typed)
           n == Len(frames)
<1>1. /\ frames' = Append(frames, held) /\ mouse' = Append(mouse, at)
      /\ text' = Append(text, put) /\ chars' = chars + Len(put)
      /\ saw' = Append(saw, in) /\ prevMouse' = at
      /\ mode = 1 /\ mode' = 1 /\ n < MaxFrames /\ take' = take
  BY DEF RecordFrame, Feed
<1>2. typed \in Seq(Chars) /\ chars \in Nat /\ chars <= TextMax
  BY InputConstants DEF IInv, TypeOK, Limits
<1>3. /\ put \in Seq(Chars) /\ Len(put) \in Nat
      /\ chars + Len(put) < TextMax => put = typed /\ chars < TextMax
  BY <1>2, StoredFacts, InputConstants
<1>4. in \in Inputs
  BY <1>2, HandedFacts DEF IInv
<1>5. /\ in.held = held /\ in.at = at /\ in.typed = typed
      /\ in.from = IF prevMouse = NoPointer THEN at ELSE prevMouse
  BY DEF Handed
<1>6. /\ frames \in Seq(SUBSET Buttons) /\ mouse \in Seq(Pointers)
      /\ text \in Seq(Seq(Chars)) /\ saw \in Seq(Inputs)
      /\ n \in Nat /\ Len(mouse) = n /\ Len(text) = n /\ Len(saw) = n
      /\ prevMouse = After(mouse, n)
  BY <1>1 DEF IInv, TypeOK, Mirrored, Recorded, Mirror
<1> HIDE DEF put, in
<1>7. /\ Len(frames') = n + 1 /\ Len(mouse') = n + 1 /\ Len(text') = n + 1
      /\ Len(saw') = n + 1
      /\ frames'[n + 1] = held /\ mouse'[n + 1] = at
      /\ text'[n + 1] = put /\ saw'[n + 1] = in
      /\ \A i \in 1 .. n : /\ frames'[i] = frames[i] /\ mouse'[i] = mouse[i]
                           /\ text'[i] = text[i] /\ saw'[i] = saw[i]
  BY <1>1, <1>3, <1>4, <1>6, AppendFacts
<1>8. Mirror(frames', mouse', text', chars', saw')
  <2> SUFFICES ASSUME NEW i \in 1 .. n + 1
               PROVE  /\ saw'[i].held = frames'[i] /\ saw'[i].at = mouse'[i]
                      /\ saw'[i].from = IF i = 1 THEN mouse'[1] ELSE mouse'[i - 1]
                      /\ chars' < TextMax => saw'[i].typed = text'[i]
    BY <1>7 DEF Mirror
  <2>1. CASE i \in 1 .. n
    <3>1. /\ saw[i].held = frames[i] /\ saw[i].at = mouse[i]
          /\ saw[i].from = IF i = 1 THEN mouse[1] ELSE mouse[i - 1]
          /\ chars < TextMax => saw[i].typed = text[i]
      BY <1>1, <2>1 DEF Mirrored, Recorded, Mirror
    <3>2. 1 \in 1 .. n /\ (i # 1 => i - 1 \in 1 .. n)
      BY <1>6, <2>1
    <3> QED
      BY <1>1, <1>3, <1>7, <2>1, <3>1, <3>2
  <2>2. CASE i = n + 1
    <3>1. CASE n = 0
      BY <1>1, <1>3, <1>5, <1>6, <1>7, <2>2, <3>1 DEF After
    <3>2. CASE n # 0
      <4>1. n \in 1 .. n /\ i # 1 /\ i - 1 = n
        BY <1>6, <2>2, <3>2
      <4>2. prevMouse = mouse[n] /\ mouse[n] \in Pointers /\ mouse'[n] = mouse[n]
        BY <1>6, <1>7, <3>2, <4>1, ElementOfSeq DEF After
      <4> QED
        BY <1>1, <1>3, <1>5, <1>7, <2>2, <4>1, <4>2, InputConstants
    <3> QED
      BY <3>1, <3>2
  <2> QED
    BY <1>6, <2>1, <2>2
<1>9. prevMouse' = After(mouse', Len(frames'))
  BY <1>1, <1>6, <1>7 DEF After
<1>10. Recorded'
  BY <1>8, <1>9 DEF Recorded
<1> QED
  BY <1>1, <1>10 DEF Mirrored, Idle, Kept, Replayed, SameInputs

\* Out of memory: no button is stored without its mouse.
LEMMA MirroredOom ==
    ASSUME ~SplitOom, IInv, Mirrored, NEW held \in SUBSET Buttons, NEW at \in Pointers,
           NEW typed \in Texts, NEW pushed \in BOOLEAN,
           RecordFrameOom(held, at, typed, pushed)
    PROVE  Mirrored'
<1>1. /\ mode = 1 /\ ~pushed /\ EndSession
      /\ \/ take' = take
         \/ take' = [frames |-> frames, mouse |-> mouse, text |-> text, chars |-> chars,
                     ident |-> ident, named |-> named, opened |-> opened, saw |-> saw]
  BY DEF RecordFrameOom
<1>2. Kept'
  BY <1>1 DEF Mirrored, Kept, Recorded
<1> QED
  BY <1>1, <1>2, MirroredEnd

\* A take that is written mirrors the run.
LEMMA MirroredWritten ==
    ASSUME Mirrored, mode = 1, Written, EndSession
    PROVE  Mirrored'
<1>1. Kept'
  BY DEF Written, Mirrored, Recorded, Kept
<1> QED
  BY <1>1, MirroredEnd

LEMMA MirroredAtCap ==
    ASSUME IInv, Mirrored, NEW held \in SUBSET Buttons, NEW at \in Pointers,
           NEW typed \in Texts, RecordFrameAtCap(held, at, typed)
    PROVE  Mirrored'
<1>1. mode = 1 /\ Len(frames) = MaxFrames
  BY DEF RecordFrameAtCap
<1>2. CASE Written /\ EndSession
  BY <1>1, <1>2, MirroredWritten
<1>3. CASE UNCHANGED <<mode, streams, manifest, pos, prevLive, take, run, rerun>>
  <2>1. UNCHANGED <<mode, frames, mouse, text, chars, pos, take, saw>>
    BY <1>3 DEF streams, run
  <2>2. ~(Len(frames') < MaxFrames)
    BY <1>1, <2>1, InputConstants
  <2> QED
    BY <1>1, <2>1, <2>2 DEF Mirrored, Idle, Recorded, Kept, Replayed, SameInputs
<1> QED
  BY <1>2, <1>3 DEF RecordFrameAtCap

\* A frame of a replay is the frame of the recorded run.
LEMMA MirroredPlay ==
    ASSUME IInv, Mirrored, NEW live \in SUBSET Buttons, NEW at \in Pointers,
           PlayFrame(live, at)
    PROVE  Mirrored'
<1> DEFINE n == pos + 1
           s == take.saw[n]
<1>1. /\ mode = 2 /\ mode' = 2 /\ pos < Len(frames) /\ pos' = n
      /\ UNCHANGED <<frames, mouse, text, chars, take>>
  BY DEF PlayFrame, Playing, streams
<1>2. /\ take # NoTake /\ frames = take.frames /\ mouse = take.mouse
      /\ text = take.text /\ chars = take.chars /\ prevMouse = After(mouse, pos)
  BY <1>1 DEF IInv, Manifest, Mirrored, Replayed
<1>3. /\ Mirror(frames, mouse, text, chars, take.saw) /\ take.saw \in Seq(Inputs)
      /\ frames \in Seq(SUBSET Buttons) /\ mouse \in Seq(Pointers)
  BY <1>2, TakeIsTake DEF Mirrored, Kept
<1>4. /\ Len(mouse) = Len(frames) /\ Len(text) = Len(frames)
      /\ Len(take.saw) = Len(frames) /\ Len(frames) \in Nat
      /\ n \in 1 .. Len(frames) /\ pos \in Nat
      /\ pos # 0 => pos \in 1 .. Len(frames)
  BY <1>1, <1>3 DEF Mirror, IInv, TypeOK
<1>5. /\ s.held = frames[n] /\ s.at = mouse[n]
      /\ s.from = IF n = 1 THEN mouse[1] ELSE mouse[n - 1]
      /\ chars < TextMax => s.typed = text[n]
      /\ s \in Inputs
  BY <1>3, <1>4, ElementOfSeq DEF Mirror
<1>6. /\ prevMouse' = mouse[n]
      /\ fed' = Handed(frames[n], mouse[n], text[n])
  BY <1>1, <1>4 DEF PlayFrame, Feed
<1>7. s.from = IF prevMouse = NoPointer THEN mouse[n] ELSE prevMouse
  <2>1. CASE pos = 0
    BY <1>2, <1>5, <2>1 DEF After
  <2>2. CASE pos # 0
    <3>1. mouse[pos] \in Pointers /\ prevMouse = mouse[pos]
      BY <1>2, <1>3, <1>4, <2>2, ElementOfSeq DEF After
    <3> QED
      BY <1>4, <1>5, <2>2, <3>1, InputConstants
  <2> QED
    BY <2>1, <2>2
<1>8. /\ fed' = [held |-> s.held, at |-> s.at, typed |-> text[n], from |-> s.from]
  BY <1>5, <1>6, <1>7 DEF Handed
<1>9. [fed' EXCEPT !.typed = <<>>] = [s EXCEPT !.typed = <<>>]
  <2>1. s = [held |-> s.held, from |-> s.from, at |-> s.at, typed |-> s.typed]
    BY <1>5 DEF Inputs
  <2> QED
    BY <1>8, <2>1
<1>10. chars < TextMax => fed'.typed = s.typed
  BY <1>5, <1>8
<1>11. SameInputs'
  BY <1>1, <1>2, <1>9, <1>10 DEF SameInputs
<1>12. Replayed'
  <2>1. pos' <= Len(frames) /\ prevMouse' = After(mouse, pos')
    BY <1>1, <1>4, <1>6 DEF After
  <2> QED
    BY <1>1, <1>2, <2>1 DEF Replayed
<1> QED
  BY <1>1, <1>11, <1>12 DEF Mirrored, Idle, Recorded, Kept

\* Every step keeps the mirror.
LEMMA MirroredStep == ~SplitOom /\ IInv /\ Mirrored /\ [Next]_vars => Mirrored'
<1> SUFFICES ASSUME ~SplitOom, IInv, Mirrored, [Next]_vars PROVE Mirrored'
  OBVIOUS
<1>1. CASE StartRecording
  <2>1. /\ mode = 0 /\ mode' = 1 /\ take' = take /\ saw' = <<>>
        /\ UNCHANGED <<frames, mouse, text, chars, prevMouse>>
    BY <1>1 DEF StartRecording, streams
  <2> QED
    BY <2>1 DEF Mirrored, Idle, Recorded, Mirror, After, Kept, Replayed, SameInputs
<1>2. CASE StopRecording
  <2>1. mode = 1 /\ EndSession
    BY <1>2 DEF StopRecording
  <2>2. CASE Written
    BY <2>1, <2>2, MirroredWritten
  <2>3. CASE take' = take
    BY <2>1, <2>3, MirroredEnd DEF Mirrored, Kept
  <2> QED
    BY <1>2, <2>2, <2>3 DEF StopRecording
<1>3. CASE StartReplay
  <2>1. /\ mode = 0 /\ mode' = 2 /\ take # NoTake /\ pos' = pos
        /\ frames' = take.frames /\ mouse' = take.mouse
        /\ text' = take.text /\ chars' = take.chars /\ UNCHANGED <<prevMouse, take>>
    BY <1>3 DEF StartReplay
  <2>2. pos' = 0 /\ prevMouse' = NoPointer
    BY <2>1 DEF Mirrored, Idle
  <2>3. pos' <= Len(frames')
    BY <2>1, <2>2, TakeIsTake
  <2>4. Replayed'
    BY <2>1, <2>2, <2>3 DEF Replayed, After
  <2> QED
    BY <2>1, <2>2, <2>4 DEF Mirrored, Idle, Recorded, Kept, SameInputs
<1>4. CASE ReplayEnds \/ SessionEnds
  BY <1>4, MirroredEnd DEF ReplayEnds, SessionEnds, Mirrored, Kept
<1>5. ASSUME UNCHANGED <<mode, streams, pos, prevMouse, take, saw, fed>>
      PROVE  Mirrored'
  BY <1>5 DEF streams, Mirrored, Idle, Recorded, Kept, Replayed, SameInputs
<1>6. CASE ReplayOpens
  BY <1>5, <1>6 DEF ReplayOpens, run
<1>7. CASE \E f \in Files : OpenSibling(f)
  BY <1>5, <1>7 DEF OpenSibling
<1>8. CASE \E f \in Files, c \in Versions \cup {Unreadable, Missing} : CardChanges(f, c)
  BY <1>5, <1>8 DEF CardChanges, run
<1>9. ASSUME NEW held \in SUBSET Buttons, NEW at \in Pointers, NEW typed \in Texts,
             \/ RecordFrame(held, at, typed)
             \/ \E pushed \in BOOLEAN : RecordFrameOom(held, at, typed, pushed)
             \/ RecordFrameAtCap(held, at, typed)
      PROVE  Mirrored'
  BY <1>9, MirroredRecord, MirroredOom, MirroredAtCap
<1>10. ASSUME NEW live \in SUBSET Buttons, TakeOver(live)
       PROVE  Mirrored'
  BY <1>10, MirroredEnd DEF TakeOver, Mirrored, Kept
<1>11. CASE \E live \in SUBSET Buttons, at \in Pointers : PlayFrame(live, at)
  BY <1>11, MirroredPlay
<1>12. CASE UNCHANGED vars
  BY <1>5, <1>12 DEF vars, run
<1> QED
  BY <1>1, <1>2, <1>3, <1>4, <1>6, <1>7, <1>8, <1>9, <1>10, <1>11, <1>12 DEF Next

\* If no allocation fails between the pushes of one frame, a replay hands the
\* cart, frame for frame, what the recorded run was handed: buttons, mouse and
\* its motion, and typed text while there was room for it.
THEOREM ReplayIsTheRecordedRun == ASSUME ~SplitOom PROVE Spec => []SameInputs
<1>1. Spec => []Mirrored
  BY Invariant, MirroredInit, MirroredStep, PTL DEF Spec
<1>2. Mirrored => SameInputs
  BY DEF Mirrored
<1> QED
  BY <1>1, <1>2, PTL
=============================================================================
