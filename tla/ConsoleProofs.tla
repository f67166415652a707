---------------------------- MODULE ConsoleProofs ----------------------------
(***************************************************************************)
(* Console and its two parts, for every window and whatever the folders    *)
(* hold; for every card, every set of carts and what they load, and every  *)
(* number of slots.                                                        *)
(*                                                                         *)
(* SaveState.  The argument is about names.  m_cart may be named after a   *)
(* file that could not be read, but whenever its name can be read it is    *)
(* the cart that runs and whose globals are there; the same holds of the   *)
(* name in a state file and the globals next to it, and of the name in a   *)
(* breadcrumb and the cart that left it.  And m_cart is named as the state *)
(* that was loaded last, as long as its program only runs: so that the     *)
(* second load of it finds that program running.                           *)
(*                                                                         *)
(* CartBrowser.  CursorShown is inductive once the list is known to be a   *)
(* sequence and the direction that repeats to be a single step: the window *)
(* follows the cursor by one row, or jumps to an end of the list when the  *)
(* cursor does.                                                            *)
(***************************************************************************)
EXTENDS Console, TLAPS, FiniteSetTheorems, SequenceTheorems

(* SaveState.                                                              *)

TypeOK == CartTypeOK /\ StateTypeOK

\* What is the same in m_cart, in the state files and in the breadcrumbs.
Names ==
    /\ NamesWhatRuns
    /\ name \in Readable => sandbox.of = name
    /\ ~failed => name \in Readable
    /\ \A f \in Files : files[f].cart \in Readable => files[f].sandbox.of = files[f].cart

Inv == TypeOK /\ Names

LEMMA FilesByName == ASSUME NEW e \in Paths, NEW s \in Slots PROVE File(e, s) \in Files
BY DEF File, Files, Paths

LEMMA ReadablePaths == Readable \subseteq Paths /\ Entries \subseteq Readable /\ Zero \in Vals
BY CartConstants

LEMMA InitKeeps == ASSUME Init PROVE Inv
<1>1. PICK e \in Entries : name = e /\ code = e /\ running = e /\ phase = "created"
        /\ sandbox = [of |-> e, val |-> Zero] /\ ram = Blank(e)
        /\ entry = e /\ crumbs = << >> /\ failed = FALSE
  BY DEF Init, CartInit
<1>2. e \in Readable /\ e \in Paths /\ Zero \in Vals
  BY ReadablePaths
<1>3. CartTypeOK
  <2>1. sandbox \in Sandboxes /\ ram \in Rams
    BY <1>1, <1>2 DEF Blank, Rams, Sandboxes
  <2>2. crumbs \in Seq(Crumbs)
    BY <1>1, EmptySeq
  <2> QED  BY <1>1, <1>2, <2>1, <2>2 DEF CartTypeOK
<1>4. files = [f \in Files |-> [n |-> 0, ram |-> ram, cart |-> name, sandbox |-> sandbox]]
  BY DEF Init, Parts
<1>5. StateTypeOK
  <2>1. word \in [cmd : {0, Saves, Loads}, slot : Slots, seq : 0 .. SeqMod - 1]
    BY StateConstants DEF Init
  <2>2. [n |-> 0, ram |-> ram, cart |-> name, sandbox |-> sandbox]
          \in [n : 0 .. Sections, ram : Rams, cart : Paths, sandbox : Sandboxes]
    BY <1>3 DEF CartTypeOK, Sections
  <2>3. files \in [Files -> [n : 0 .. Sections, ram : Rams, cart : Paths, sandbox : Sandboxes]]
    BY <1>4, <2>2
  <2>4. last \in [Files -> Moments \cup {NoState}] /\ lastSeq \in 0 .. SeqMod - 1
    BY StateConstants DEF Init
  <2>5. recalled \in [file : Files \cup {NoState}, twice : BOOLEAN, stands : BOOLEAN]
    BY DEF Init, NoRecall
  <2> QED  BY <2>1, <2>3, <2>4, <2>5 DEF Init, StateTypeOK
<1>6. Names
  BY <1>1, <1>2, <1>4 DEF Names, NamesWhatRuns
<1> QED  BY <1>3, <1>5, <1>6 DEF Inv, TypeOK

\* Starting a cart that can be read.
LEMMA RunKeeps ==
    ASSUME NEW c \in Readable, Run(c)
    PROVE  running' = c /\ phase' \in {"created", "running"} /\ sandbox' \in Sandboxes /\ sandbox'.of = c
BY ReadablePaths DEF Run, Sandboxes

\* The breadcrumbs that are left when the last is followed.
LEMMA FrontKeeps ==
    ASSUME Inv, crumbs # << >>, crumbs' = SubSeq(crumbs, 1, Len(crumbs) - 1)
    PROVE  /\ crumbs' \in Seq(Crumbs)
           /\ \A k \in 1 .. Len(crumbs') : crumbs'[k].cart \in Readable => crumbs'[k].cart = crumbs'[k].from
           /\ Crumb \in Crumbs /\ (Crumb.cart \in Readable => Crumb.cart = Crumb.from)
<1>1. crumbs \in Seq(Crumbs) /\ Len(crumbs) \in Nat \ {0}
  BY EmptySeq DEF Inv, TypeOK, CartTypeOK
<1>2. \A k \in 1 .. Len(crumbs) - 1 : crumbs[k] \in Crumbs
  BY <1>1, ElementOfSeq
<1>3. /\ crumbs' \in Seq(Crumbs) /\ Len(crumbs') = Len(crumbs) - 1
      /\ \A k \in 1 .. Len(crumbs') : crumbs'[k] = crumbs[k]
  <2> DEFINE n == Len(crumbs) - 1
  <2>1. n \in Nat /\ 1 \in Int /\ n \in Int
    BY <1>1
  <2> HIDE DEF n
  <2>2. \A k \in 1 .. n : crumbs[k] \in Crumbs
    BY <1>2 DEF n
  <2>3. /\ SubSeq(crumbs, 1, n) \in Seq(Crumbs)
        /\ Len(SubSeq(crumbs, 1, n)) = IF 1 <= n THEN n - 1 + 1 ELSE 0
        /\ \A k \in 1 .. n - 1 + 1 : SubSeq(crumbs, 1, n)[k] = crumbs[1 + k - 1]
    BY <2>1, <2>2, SubSeqProperties
  <2>4. /\ SubSeq(crumbs, 1, n) \in Seq(Crumbs) /\ Len(SubSeq(crumbs, 1, n)) = n
        /\ \A k \in 1 .. n : SubSeq(crumbs, 1, n)[k] = crumbs[k]
    BY <2>1, <2>3
  <2> QED  BY <2>4 DEF n
<1>4. Crumb \in Crumbs
  BY <1>1, ElementOfSeq DEF Crumb
<1> QED  BY <1>1, <1>3, <1>4 DEF Crumb, Inv, Names, NamesWhatRuns

LEMMA ResetKeeps ==
    ASSUME Inv, Reset, UNCHANGED <<files, last>>
    PROVE  CartTypeOK' /\ Names'
<1>1. entry \in Readable /\ entry \in Paths
  BY ReadablePaths DEF Inv, TypeOK, CartTypeOK
<1>2. /\ running' = entry /\ phase' \in {"created", "running"}
      /\ sandbox' \in Sandboxes /\ sandbox'.of = entry
  BY <1>1, RunKeeps DEF Reset
<1>3. crumbs' \in Seq(Crumbs) /\ Len(crumbs') = 0
  BY EmptySeq DEF Reset
<1>4. name' = entry /\ code' = entry /\ UNCHANGED <<ram, entry, failed>>
  BY DEF Reset
<1>5. CartTypeOK'
  BY <1>1, <1>2, <1>3, <1>4 DEF Inv, TypeOK, CartTypeOK
<1> QED  BY <1>1, <1>2, <1>3, <1>4, <1>5 DEF Inv, Names, NamesWhatRuns

LEMMA BackKeeps ==
    ASSUME Inv, Back, UNCHANGED <<files, last>>
    PROVE  CartTypeOK' /\ Names'
<1>1. CASE Crumb.cart \in Readable
  <2>1. /\ name' = Crumb.cart /\ code' = Crumb.cart /\ Run(Crumb.cart)
        /\ crumbs' = SubSeq(crumbs, 1, Len(crumbs) - 1) /\ crumbs # << >>
        /\ UNCHANGED <<ram, entry, failed>>
    BY <1>1 DEF Back
  <2>2. /\ running' = Crumb.cart /\ phase' \in {"created", "running"}
        /\ sandbox' \in Sandboxes /\ sandbox'.of = Crumb.cart
    BY <1>1, <2>1, RunKeeps
  <2>3. CartTypeOK'
    BY <1>1, <2>1, <2>2, FrontKeeps, ReadablePaths DEF Inv, TypeOK, CartTypeOK
  <2>4. NamesWhatRuns'
    BY <2>1, <2>2, FrontKeeps DEF NamesWhatRuns
  <2> QED  BY <1>1, <2>1, <2>2, <2>3, <2>4 DEF Inv, Names
<1>2. CASE Crumb.cart \notin Readable
  BY <1>2, ResetKeeps DEF Back
<1> QED  BY <1>1, <1>2

\* The paths load() tries.
LEMMA TriesArePaths ==
    ASSUME NEW ask \in Asks, NEW k \in 1 .. Len(Tries(ask))
    PROVE  Tries(ask)[k] \in Paths /\ Len(Tries(ask)) \in Nat \ {0}
<1>1. ask.base \in Bases /\ Short[ask.base] \in Bases \cup {NoCart}
  BY CartConstants
<1>2. \A b \in Bases : Path(b, P8) \in Paths /\ Path(b, P8Png) \in Paths /\ Path(b, Png) \in Paths
  BY DEF Path, Paths
<1>3. CASE ask.bbs /\ Short[ask.base] = NoCart
  <2>1. Tries(ask) = <<Path(ask.base, P8Png), Path(ask.base, P8)>>
    BY <1>3 DEF Tries
  <2> QED  BY <1>1, <1>2, <2>1
<1>4. CASE ask.bbs /\ Short[ask.base] # NoCart
  <2>1. Short[ask.base] \in Bases
    BY <1>1, <1>4
  <2>2. Tries(ask) = <<Path(ask.base, P8Png), Path(ask.base, P8),
                       Path(Short[ask.base], P8Png), Path(Short[ask.base], P8)>>
    BY <1>4 DEF Tries
  <2> QED  BY <1>1, <1>2, <2>1, <2>2
<1>5. CASE ~ask.bbs
  <2>1. \/ Tries(ask) = <<Path(ask.base, P8), Path(ask.base, P8Png), Path(ask.base, Png)>>
        \/ Tries(ask) = <<Path(ask.base, P8), Path(ask.base, P8Png)>>
        \/ Tries(ask) = <<Path(ask.base, P8Png)>>
    BY <1>5 DEF Tries, Bare, P8, P8Png
  <2> QED  BY <1>1, <1>2, <2>1
<1> QED  BY <1>3, <1>4, <1>5

LEMMA LoadKeeps ==
    ASSUME Inv, NEW ask \in Asks, Load(ask), UNCHANGED <<files, last>>
    PROVE  CartTypeOK' /\ Names'
<1> DEFINE tries == Tries(ask)
<1>1. CASE \E k \in 1 .. Len(tries) : tries[k] \in Readable /\ (\A j \in 1 .. Len(tries) : tries[j] \in Readable => k <= j)
                                      /\ Found(ask, tries, k)
  <2>1. PICK k \in 1 .. Len(tries) : /\ tries[k] \in Readable /\ Found(ask, tries, k)
                                     /\ \A j \in 1 .. Len(tries) : tries[j] \in Readable => k <= j
    BY <1>1
  <2>2. name' = tries[k] /\ code' = tries[k] /\ failed' = (failed \/ k > 1) /\ UNCHANGED <<ram, entry>>
    BY <2>1 DEF Found
  <2>3. /\ running' = tries[k] /\ phase' \in {"created", "running"}
        /\ sandbox' \in Sandboxes /\ sandbox'.of = tries[k]
    BY <2>1, RunKeeps DEF Found
  <2> DEFINE before == IF k = 1 THEN name ELSE tries[k - 1]
             new == [cart |-> before, from |-> running]
  <2>4. new \in Crumbs /\ (before \in Readable => before = running)
    <3>1. CASE k = 1
      BY <3>1 DEF Inv, TypeOK, CartTypeOK, Names, NamesWhatRuns, Crumbs
    <3>2. CASE k # 1
      <4>1. k - 1 \in 1 .. Len(tries)
        BY <2>1, <3>2, TriesArePaths
      <4>2. tries[k - 1] \in Paths /\ tries[k - 1] \notin Readable
        BY <2>1, <4>1, TriesArePaths
      <4> QED  BY <3>2, <4>2 DEF Inv, TypeOK, CartTypeOK, Crumbs
    <3> QED  BY <3>1, <3>2
  <2>5. /\ crumbs' \in Seq(Crumbs)
        /\ \A i \in 1 .. Len(crumbs') : crumbs'[i].cart \in Readable => crumbs'[i].cart = crumbs'[i].from
    <3>1. crumbs \in Seq(Crumbs)
      BY DEF Inv, TypeOK, CartTypeOK
    <3>2. CASE ask.crumb
      <4>1. crumbs' = Append(crumbs, new)
        BY <2>1, <3>2 DEF Found
      <4>2. /\ crumbs' \in Seq(Crumbs) /\ Len(crumbs') = Len(crumbs) + 1
            /\ \A i \in 1 .. Len(crumbs) : crumbs'[i] = crumbs[i]
            /\ crumbs'[Len(crumbs) + 1] = new
        BY <2>4, <3>1, <4>1, AppendProperties
      <4> QED  BY <2>4, <3>1, <4>2, LenProperties DEF Inv, Names, NamesWhatRuns
    <3>3. CASE ~ask.crumb
      BY <2>1, <3>1, <3>3 DEF Found, Inv, Names, NamesWhatRuns
    <3> QED  BY <3>2, <3>3
  <2>6. CartTypeOK'
    BY <2>1, <2>2, <2>3, <2>5, ReadablePaths DEF Inv, TypeOK, CartTypeOK
  <2>7. NamesWhatRuns'
    BY <2>2, <2>3, <2>5 DEF NamesWhatRuns
  <2> QED  BY <2>1, <2>2, <2>3, <2>6, <2>7 DEF Inv, Names
<1>2. CASE /\ \A k \in 1 .. Len(tries) : tries[k] \notin Readable
           /\ name' = tries[Len(tries)] /\ failed' = TRUE
           /\ UNCHANGED <<code, game, entry, crumbs>>
  <2>1. Len(tries) \in 1 .. Len(tries)
    <3>1. Len(tries) \in Nat \ {0}
      BY DEF Tries
    <3> QED  BY <3>1
  <2>2. name' \in Paths /\ name' \notin Readable
    BY <1>2, <2>1, TriesArePaths
  <2> QED  BY <1>2, <2>2 DEF game, Inv, TypeOK, CartTypeOK, Names, NamesWhatRuns
<1> QED  BY <1>1, <1>2 DEF Load

LEMMA RerunKeeps ==
    ASSUME Inv, Rerun, UNCHANGED <<files, last>>
    PROVE  CartTypeOK' /\ Names'
<1>1. code \in Readable
  BY DEF Inv, TypeOK, CartTypeOK
<1>2. running' = code /\ phase' \in {"created", "running"} /\ sandbox' \in Sandboxes /\ sandbox'.of = code
  BY <1>1, RunKeeps DEF Rerun
<1> QED  BY <1>1, <1>2 DEF Rerun, Inv, TypeOK, CartTypeOK, Names, NamesWhatRuns

LEMMA TickKeeps ==
    ASSUME Inv, NEW v \in Vals, Tick(v), UNCHANGED <<files, last>>
    PROVE  CartTypeOK' /\ Names'
<1>1. ram' \in Rams /\ sandbox' \in Sandboxes
  BY DEF Tick, Inv, TypeOK, CartTypeOK, Rams, Sandboxes
<1>2. sandbox'.of \in {running, sandbox.of}
  BY DEF Tick
<1>3. name \in Readable => sandbox'.of = name
  BY <1>2 DEF Inv, Names, NamesWhatRuns
<1> QED  BY <1>1, <1>3 DEF Tick, Inv, TypeOK, CartTypeOK, Names, NamesWhatRuns

LEMMA FrameKeeps ==
    ASSUME Inv, Frame, UNCHANGED <<files, last>>
    PROVE  CartTypeOK' /\ Names'
BY LoadKeeps, BackKeeps, RerunKeeps, TickKeeps DEF Frame, Leave

-----------------------------------------------------------------------------
\* What a save leaves of the moment it was made at, and what no save does.
Saved ==
    \A f \in Files :
        /\ last[f] = NoState => files[f].n = 0
        /\ last[f] # NoState => files[f].ram = last[f].ram /\ files[f].sandbox = last[f].sandbox
        /\ last[f] # NoState /\ files[f].cart \in Readable => files[f].cart = last[f].cart

\* A sequence number that is not the last one is of a command of this process, or of
\* none at all.
Fresh == seeded /\ word.seq # lastSeq => asked \/ word.cmd = 0

\* The program runs that the state loaded last is of, once it had a frame.
Recalled ==
    /\ recalled.file # NoState => files[recalled.file].cart = name /\ (~polled => phase = "running")
    /\ recalled.twice => recalled.file # NoState /\ recalled.stands /\ phase = "running"

StateInv == Inv /\ Saved /\ Fresh /\ Recalled

\* Writing a state.
LEMMA SaveKeeps ==
    ASSUME Inv, Saved, NEW f \in Files, Save(f), ~UNCHANGED <<files, last>>
    PROVE  /\ files' \in [Files -> [n : 0 .. Sections, ram : Rams, cart : Paths, sandbox : Sandboxes]]
           /\ last' \in [Files -> Moments \cup {NoState}]
           /\ CartTypeOK' /\ Names' /\ Saved'
<1>1. PICK n \in 0 .. Sections : files' = [files EXCEPT ![f] = Parts(n)]
  BY StateConstants DEF Save, Written
<1>2. Parts(n) \in [n : 0 .. Sections, ram : Rams, cart : Paths, sandbox : Sandboxes]
  BY DEF Parts, Inv, TypeOK, CartTypeOK
<1>3. Moment \in Moments
  BY DEF Moment, Moments, Inv, TypeOK, CartTypeOK
<1>4. /\ files \in [Files -> [n : 0 .. Sections, ram : Rams, cart : Paths, sandbox : Sandboxes]]
      /\ last \in [Files -> Moments \cup {NoState}]
  BY DEF Inv, TypeOK, StateTypeOK
<1>5. last' = [last EXCEPT ![f] = Moment] /\ UNCHANGED cartVars
  BY DEF Save
<1>6. CartTypeOK' /\ NamesWhatRuns'
  BY <1>5 DEF cartVars, game, Inv, TypeOK, CartTypeOK, Names, NamesWhatRuns
<1>7. files'[f] = Parts(n) /\ last'[f] = Moment
  BY <1>1, <1>4, <1>5
<1>8. \A g \in Files \ {f} : files'[g] = files[g] /\ last'[g] = last[g]
  BY <1>1, <1>4, <1>5
<1>9. Parts(n).cart \in Readable => Parts(n).sandbox.of = Parts(n).cart
  BY DEF Parts, Inv, Names
<1>10. Names'
  <2>1. \A g \in Files : (files'[g]).cart \in Readable => (files'[g]).sandbox.of = (files'[g]).cart
    BY <1>7, <1>8, <1>9 DEF Inv, Names
  <2>2. UNCHANGED <<name, failed, sandbox>>
    BY <1>5 DEF cartVars, game
  <2> QED  BY <1>6, <2>1, <2>2 DEF Inv, Names
<1>11. Saved'
  <2>1. Parts(n).ram = Moment.ram /\ Parts(n).sandbox = Moment.sandbox /\ Moment # NoState
    BY <1>3, StateConstants DEF Parts, Moment
  <2>2. Parts(n).cart \in Readable => Parts(n).cart = Moment.cart
    BY DEF Parts, Moment, Inv, Names, NamesWhatRuns
  <2> QED  BY <1>7, <1>8, <2>1, <2>2 DEF Saved
<1> QED  BY <1>1, <1>2, <1>3, <1>4, <1>5, <1>6, <1>10, <1>11

\* Loading one: what comes back is a moment of the cart that is then running.
LEMMA RestoreKeeps ==
    ASSUME Inv, NEW f \in Files, LoadState(f), UNCHANGED <<files, last>>
    PROVE  CartTypeOK' /\ Names'
<1> DEFINE file == files[f]
<1>1. /\ file.ram \in Rams /\ file.sandbox \in Sandboxes /\ file.cart \in Paths
      /\ file.cart \in Readable => file.sandbox.of = file.cart
  BY DEF Inv, TypeOK, StateTypeOK, Names
<1>2. CASE UNCHANGED cartVars
  BY <1>2 DEF cartVars, game, Inv, TypeOK, CartTypeOK, Names, NamesWhatRuns
<1>3. CASE /\ ~OtherCart(file.cart) /\ Restore(f)
           /\ UNCHANGED <<name, code, running, phase, failed>>
  <2>1. ram' = file.ram /\ sandbox' = file.sandbox /\ UNCHANGED <<entry, crumbs>> /\ file.cart = name
    BY <1>3 DEF Restore, OtherCart
  <2>2. CartTypeOK'
    BY <1>1, <1>3, <2>1 DEF Inv, TypeOK, CartTypeOK
  <2> QED  BY <1>1, <1>3, <2>1, <2>2 DEF Inv, Names, NamesWhatRuns
<1>4. CASE /\ file.cart \in Readable /\ name' = file.cart /\ code' = file.cart
           /\ running' = file.cart /\ phase' = "created" /\ Restore(f) /\ UNCHANGED failed
  <2>1. ram' = file.ram /\ sandbox' = file.sandbox /\ UNCHANGED <<entry, crumbs>>
    BY <1>4 DEF Restore
  <2>2. CartTypeOK'
    BY <1>1, <1>4, <2>1 DEF Inv, TypeOK, CartTypeOK
  <2> QED  BY <1>1, <1>4, <2>1, <2>2 DEF Inv, Names, NamesWhatRuns
<1>5. CASE /\ file.cart \notin Readable /\ name' = file.cart /\ failed' = TRUE
           /\ UNCHANGED <<code, game, entry, crumbs>>
  BY <1>1, <1>5 DEF game, Inv, TypeOK, CartTypeOK, Names, NamesWhatRuns
<1> QED  BY <1>2, <1>3, <1>4, <1>5 DEF LoadState

LEMMA SlotOfCart == ASSUME Inv PROVE File(entry, word.slot) \in Files
<1>1. entry \in Paths /\ word.slot \in Slots
  BY ReadablePaths DEF Inv, TypeOK, CartTypeOK, StateTypeOK
<1> QED  BY <1>1, FilesByName

\* A state is loaded a second time where the first load left the program that it is of.
LEMMA RecallKeeps ==
    ASSUME StateInv, ~polled, polled' = TRUE, NEW f \in Files, LoadState(f), UNCHANGED files
    PROVE  /\ recalled' \in [file : Files \cup {NoState}, twice : BOOLEAN, stands : BOOLEAN]
           /\ Recalled'
<1>1. CASE recalled' = NoRecall
  BY <1>1 DEF NoRecall, Recalled
<1>2. CASE /\ Restore(f)
           /\ \/ ~OtherCart(files[f].cart) /\ UNCHANGED <<name, phase>>
              \/ OtherCart(files[f].cart) /\ name' = files[f].cart
  <2>1. /\ recalled'.file = f /\ recalled'.twice = (recalled.file = f) /\ recalled'.stands = TRUE
        /\ recalled' \in [file : Files \cup {NoState}, twice : BOOLEAN, stands : BOOLEAN]
    BY <1>2 DEF Restore
  <2>2. files'[f].cart = name'
    BY <1>2 DEF OtherCart
  <2>3. ASSUME recalled.file = f PROVE phase' = "running"
    <3>1. f # NoState
      BY StateConstants
    <3>2. files[f].cart = name /\ phase = "running"
      BY <2>3, <3>1 DEF StateInv, Recalled
    <3> QED  BY <1>2, <3>2 DEF OtherCart
  <2>4. f # NoState
    BY StateConstants
  <2> QED  BY <2>1, <2>2, <2>3, <2>4 DEF Recalled
<1> QED  BY <1>1, <1>2 DEF LoadState

\* The kinds of step.
LEMMA PressKeeps ==
    ASSUME StateInv, NEW c \in {Saves, Loads}, NEW s \in Slots, Press(c, s)
    PROVE  StateInv'
<1>1. (word.seq + 1) % SeqMod \in 0 .. SeqMod - 1
  BY StateConstants DEF StateInv, Inv, TypeOK, StateTypeOK
<1>2. word' \in [cmd : {0, Saves, Loads}, slot : Slots, seq : 0 .. SeqMod - 1] /\ asked' = TRUE
  BY <1>1 DEF Press
<1>3. UNCHANGED <<files, lastSeq, seeded, polled, last, recalled>> /\ UNCHANGED cartVars
  BY DEF Press
<1>4. StateTypeOK'
  BY <1>2, <1>3 DEF StateInv, Inv, TypeOK, StateTypeOK
<1>5. CartTypeOK' /\ Names'
  BY <1>3 DEF StateInv, cartVars, game, Inv, TypeOK, CartTypeOK, Names, NamesWhatRuns
<1> QED  BY <1>2, <1>3, <1>4, <1>5 DEF StateInv, Inv, TypeOK, Saved, Fresh, Recalled, cartVars, game

LEMMA CoreResetKeeps ==
    ASSUME StateInv, CoreReset
    PROVE  StateInv'
<1>1. word' \in [cmd : {0, Saves, Loads}, slot : Slots, seq : 0 .. SeqMod - 1] /\ word'.cmd = 0 /\ asked' = FALSE
  BY StateConstants DEF CoreReset
<1>2. UNCHANGED <<files, lastSeq, seeded, polled, last, recalled>> /\ UNCHANGED cartVars
  BY DEF CoreReset
<1>3. StateTypeOK'
  BY <1>1, <1>2 DEF StateInv, Inv, TypeOK, StateTypeOK
<1>4. CartTypeOK' /\ Names'
  BY <1>2 DEF StateInv, cartVars, game, Inv, TypeOK, CartTypeOK, Names, NamesWhatRuns
<1> QED  BY <1>1, <1>2, <1>3, <1>4 DEF StateInv, Inv, TypeOK, Saved, Fresh, Recalled, cartVars, game

LEMMA PollKeeps ==
    ASSUME StateInv, Poll
    PROVE  StateInv'
<1> DEFINE f == File(entry, word.slot)
<1>1. f \in Files
  BY SlotOfCart DEF StateInv
<1>2. seeded' = TRUE /\ lastSeq' = word.seq /\ asked' = FALSE /\ polled' = TRUE /\ word' = word
  BY DEF Poll
<1> HIDE DEF f
<1>3. /\ CartTypeOK' /\ Names' /\ Saved'
      /\ files' \in [Files -> [n : 0 .. Sections, ram : Rams, cart : Paths, sandbox : Sandboxes]]
      /\ last' \in [Files -> Moments \cup {NoState}]
      /\ recalled' \in [file : Files \cup {NoState}, twice : BOOLEAN, stands : BOOLEAN] /\ Recalled'
  <2>0. NoRecall \in [file : Files \cup {NoState}, twice : BOOLEAN, stands : BOOLEAN]
        /\ (recalled' = NoRecall => Recalled')
    BY DEF NoRecall, Recalled
  <2>1. CASE Save(f) /\ ~UNCHANGED <<files, last>>
    <3>1. recalled' = NoRecall
      BY <2>1 DEF Save
    <3> QED  BY <1>1, <2>0, <2>1, <3>1, SaveKeeps DEF StateInv
  <2>2. CASE LoadState(f) /\ UNCHANGED <<files, last>>
    <3>1. CartTypeOK' /\ Names'
      BY <1>1, <2>2, RestoreKeeps DEF StateInv
    <3>2. recalled' \in [file : Files \cup {NoState}, twice : BOOLEAN, stands : BOOLEAN] /\ Recalled'
      BY <1>1, <1>2, <2>2, RecallKeeps DEF Poll
    <3> QED  BY <2>2, <3>1, <3>2 DEF StateInv, Inv, TypeOK, StateTypeOK, Saved
  <2>3. CASE UNCHANGED <<files, last>> /\ UNCHANGED cartVars /\ recalled' \in {recalled, NoRecall}
    <3>1. CartTypeOK' /\ Names'
      BY <2>3 DEF cartVars, game, StateInv, Inv, TypeOK, CartTypeOK, Names, NamesWhatRuns
    <3>2. recalled' = recalled => Recalled'
      BY <1>2, <2>3 DEF StateInv, Recalled, cartVars, game
    <3> QED  BY <2>0, <2>3, <3>1, <3>2 DEF StateInv, Inv, TypeOK, StateTypeOK, Saved
  <2>4. Save(f) => UNCHANGED cartVars /\ recalled' = NoRecall
    BY DEF Save
  <2> QED  BY <2>1, <2>2, <2>3, <2>4 DEF Poll, f
<1>4. StateTypeOK'
  BY <1>2, <1>3 DEF StateInv, Inv, TypeOK, StateTypeOK
<1> QED  BY <1>2, <1>3, <1>4 DEF StateInv, Inv, TypeOK, Fresh

LEMMA PlayKeeps ==
    ASSUME StateInv, Play
    PROVE  StateInv'
<1>1. CartTypeOK' /\ Names'
  BY FrameKeeps DEF Play, Frame, StateInv
<1>2. recalled' \in [file : Files \cup {NoState}, twice : BOOLEAN, stands : BOOLEAN] /\ Recalled'
  <2>1. CASE recalled' = NoRecall
    BY <2>1 DEF NoRecall, Recalled
  <2>2. CASE (\E v \in Vals : Tick(v)) /\ recalled' = [recalled EXCEPT !.stands = @ /\ phase = "running"]
    <3>1. recalled \in [file : Files \cup {NoState}, twice : BOOLEAN, stands : BOOLEAN]
      BY DEF StateInv, Inv, TypeOK, StateTypeOK
    <3>2. /\ recalled'.file = recalled.file /\ recalled'.twice = recalled.twice
          /\ recalled'.stands = (recalled.stands /\ phase = "running")
          /\ recalled' \in [file : Files \cup {NoState}, twice : BOOLEAN, stands : BOOLEAN]
      BY <2>2, <3>1
    <3>3. UNCHANGED <<name, files>> /\ phase' = "running"
      BY <2>2 DEF Tick, Play
    <3> QED  BY <3>2, <3>3 DEF StateInv, Recalled
  <2> QED  BY <2>1, <2>2 DEF Play
<1> QED  BY <1>1, <1>2 DEF Play, StateInv, Inv, TypeOK, StateTypeOK, Saved, Fresh

LEMMA RestartKeeps ==
    ASSUME StateInv, NEW e \in Readable, Start(e) \/ Remount(e)
    PROVE  StateInv'
<1>1. e \in Readable /\ e \in Paths
  BY ReadablePaths
<1>2. /\ running' = e /\ phase' \in {"created", "running"}
      /\ sandbox' \in Sandboxes /\ sandbox'.of = e
  BY <1>1, RunKeeps DEF Start, Remount, Boot
<1>3. /\ name' = e /\ code' = e /\ entry' = e /\ failed' = FALSE
      /\ crumbs' \in Seq(Crumbs) /\ Len(crumbs') = 0 /\ ram' \in Rams
  <2>1. Blank(e) \in Rams
    BY <1>1, ReadablePaths DEF Blank, Rams
  <2>2. << >> \in Seq(Crumbs) /\ Len(<< >>) = 0
    BY EmptySeq
  <2> QED  BY <2>1, <2>2 DEF Start, Remount, Boot
<1>4. CartTypeOK'
  BY <1>1, <1>2, <1>3 DEF CartTypeOK
<1>5. /\ UNCHANGED <<files, word, last>> /\ polled' = FALSE /\ recalled' = NoRecall
      /\ \/ lastSeq' = 0 /\ seeded' = FALSE /\ asked' = FALSE
         \/ UNCHANGED <<lastSeq, seeded, asked>>
  BY DEF Start, Remount, Boot
<1>6. StateTypeOK'
  <2>1. 0 \in 0 .. SeqMod - 1
    BY StateConstants
  <2>2. recalled' \in [file : Files \cup {NoState}, twice : BOOLEAN, stands : BOOLEAN]
    BY <1>5 DEF NoRecall
  <2> QED  BY <1>5, <2>1, <2>2 DEF StateInv, Inv, TypeOK, StateTypeOK
<1>7. Names'
  BY <1>1, <1>2, <1>3, <1>5 DEF StateInv, Inv, Names, NamesWhatRuns
<1>8. Recalled'
  BY <1>5 DEF NoRecall, Recalled
<1> QED  BY <1>4, <1>5, <1>6, <1>7, <1>8 DEF StateInv, Inv, TypeOK, Saved, Fresh

LEMMA StepKeeps == StateInv /\ [Next]_vars => StateInv'
<1>1. ASSUME StateInv, Next PROVE StateInv'
  BY <1>1, ReadablePaths, PressKeeps, CoreResetKeeps, PollKeeps, PlayKeeps, RestartKeeps DEF Next, Restart
<1>2. ASSUME StateInv, UNCHANGED vars PROVE StateInv'
  BY <1>2 DEF vars, stateVars, cartVars, game, StateInv, Saved, Fresh, Recalled,
              Inv, TypeOK, CartTypeOK, StateTypeOK, Names, NamesWhatRuns
<1> QED  BY <1>1, <1>2

LEMMA StateInitKeeps == Init => StateInv
<1> SUFFICES ASSUME Init PROVE StateInv
  OBVIOUS
<1>1. Inv
  BY InitKeeps
<1>2. Saved /\ Fresh /\ Recalled
  BY DEF Init, Parts, Saved, Fresh, NoRecall, Recalled
<1> QED  BY <1>1, <1>2 DEF StateInv

LEMMA StateInvAlways == Spec => []StateInv
BY StateInitKeeps, StepKeeps, PTL DEF Spec

-----------------------------------------------------------------------------
\* What the invariant says of a state, and of a step from it.
LEMMA OwnGlobals == StateInv => GlobalsOfProgram
BY DEF StateInv, Inv, Names, NamesWhatRuns, GlobalsOfProgram

LEMMA LandsOnCart == StateInv /\ Back => running' \in {Crumb.from, entry}
<1> SUFFICES ASSUME StateInv, Back PROVE running' \in {Crumb.from, entry}
  OBVIOUS
<1>1. CASE Crumb.cart \in Readable
  <2>1. running' = Crumb.cart
    BY <1>1 DEF Back, Run
  <2>2. Crumb.cart = Crumb.from
    <3>1. crumbs # << >> /\ crumbs \in Seq(Crumbs)
      BY DEF Back, StateInv, Inv, TypeOK, CartTypeOK
    <3>2. Len(crumbs) \in 1 .. Len(crumbs)
      BY <3>1, EmptySeq
    <3> QED  BY <1>1, <3>2 DEF StateInv, Inv, Names, NamesWhatRuns, Crumb
  <2> QED  BY <2>1, <2>2
<1>2. CASE Crumb.cart \notin Readable
  BY <1>2 DEF Back, Reset, Run
<1> QED  BY <1>1, <1>2

\* The game a load brings back is that of the last save in the slot.
BringsBack(f) ==
    /\ last[f] # NoState /\ ram' = last[f].ram /\ sandbox' = last[f].sandbox
    /\ phase' = "running" \/ phase = "created" \/ last[f].cart # running \/ failed

LEMMA LoadsWhole == StateInv /\ Poll => UNCHANGED game \/ BringsBack(File(entry, word.slot))
<1> DEFINE f == File(entry, word.slot)
<1> SUFFICES ASSUME StateInv, Poll, ~UNCHANGED game PROVE BringsBack(f)
  OBVIOUS
<1>1. LoadState(f)
  BY DEF Poll, Save, cartVars
<1>2. f \in Files
  BY SlotOfCart DEF StateInv
<1>3. files[f].n = Sections /\ Restore(f)
  BY <1>1 DEF LoadState, cartVars
<1>4. last[f] # NoState
  BY <1>2, <1>3 DEF StateInv, Saved, Sections
<1>5. phase' = "running" \/ phase = "created" \/ last[f].cart # running \/ failed
  <2> SUFFICES ASSUME phase = "running", phase' # "running", ~failed PROVE last[f].cart # running
    BY DEF StateInv, Inv, TypeOK, CartTypeOK
  <2>1. OtherCart(files[f].cart) /\ files[f].cart \in Readable
    BY <1>1 DEF LoadState, game, cartVars
  <2>2. files[f].cart = last[f].cart
    BY <1>2, <1>4, <2>1 DEF StateInv, Saved
  <2>3. name = running
    BY DEF StateInv, Inv, Names, NamesWhatRuns
  <2> QED  BY <2>1, <2>2, <2>3 DEF OtherCart
<1> QED  BY <1>2, <1>3, <1>4, <1>5 DEF BringsBack, Restore, StateInv, Saved

LEMMA ActsOnCommand == StateInv /\ Poll /\ ~asked => UNCHANGED <<files, game>>
BY DEF StateInv, Fresh, Poll, News, cartVars, Saves, Loads

LEMMA SecondStands == StateInv => SecondLoadStands
BY DEF StateInv, Recalled, SecondLoadStands

\* Whatever is loaded, saved, restored, gone back to or restarted, and in which order:
\* as long as no file is refused, the program's globals are its own (bios.p8
\* create_sandbox; vm.cpp private_load, go_back, savestate_load).
THEOREM GlobalsAlwaysOfProgram == Spec => []GlobalsOfProgram
BY OwnGlobals, StateInvAlways, PTL

\* A breadcrumb leads to the cart that left it or to the mounted one (vm.cpp go_back).
THEOREM BackAlwaysLands == Spec => BackLands
BY LandsOnCart, StateInvAlways, PTL DEF BackLands

\* A state that was cut short, at whatever section, is not loaded at all.  One that is
\* complete is loaded whole, and into the program that runs when it is its own: only a
\* load that finds another cart, or a cart that lost its name to a file that was refused,
\* starts a program that will begin again over it (vm.cpp savestate_save, savestate_load).
THEOREM LoadAlwaysAllOrNothing == Spec => LoadIsAllOrNothing
<1>1. StateInv => (Poll => \/ UNCHANGED game
                           \/ LET moment == last[File(entry, word.slot)]
                              IN  /\ moment # NoState /\ ram' = moment.ram /\ sandbox' = moment.sandbox
                                  /\ phase' = "running" \/ phase = "created" \/ moment.cart # running \/ failed)
  BY LoadsWhole DEF BringsBack
<1> QED  BY <1>1, StateInvAlways, PTL DEF LoadIsAllOrNothing

\* The second load of a state, of whatever cart and after any number of frames, is into
\* the program it is of: none of its frames is a beginning that would overwrite what was
\* brought back ("the in-place mutation sticks", the comment in vm.cpp savestate_load).
THEOREM SecondLoadAlwaysStands == Spec => []SecondLoadStands
BY SecondStands, StateInvAlways, PTL

\* A command in DDR3 from before this process, or one it has taken up, is not taken up
\* (mister_main.cpp, the top of the game loop).
THEOREM NothingEverUnasked == Spec => NothingUnasked
BY ActsOnCommand, StateInvAlways, PTL DEF NothingUnasked

-----------------------------------------------------------------------------
(* CartBrowser.                                                            *)

\* scan_directory lists folders and carts.
Shown == {i \in Items : i.folder \/ i.cart}

\* What is read of a folder is a sequence of such items.
LEMMA ListingIsSequence ==
    ASSUME NEW d \in Folders \cup {Root}, NEW s \in Listings[d]
    PROVE  s \in Seq(Shown)
<1>1. PICK c \in Contents[d] : s \in Sorted({i \in c : i.folder \/ i.cart})
  BY DEF Listings
<1> DEFINE shown == {i \in c : i.folder \/ i.cart}
<1>2. IsFiniteSet(c) /\ c \subseteq Items
  BY BrowserConstants
<1>3. shown \subseteq Items /\ IsFiniteSet(shown)
  BY <1>2, FS_Subset
<1>4. Cardinality(shown) \in Nat
  BY <1>3, FS_CardinalityType
<1>5. s \in [1 .. Cardinality(shown) -> shown]
  BY <1>1 DEF Sorted
<1>6. s \in [1 .. Cardinality(shown) -> Shown]
  BY <1>2, <1>5 DEF Shown
<1> QED  BY <1>4, <1>6, SeqDef

\* A step by one row keeps the cursor in the list and the window over it.
LEMMA WindowFollows ==
    ASSUME NEW dir \in {-1, 1}, entries \in Seq(Shown), CursorShown, MoveCursor(dir)
    PROVE  CursorShown'
<1>0. Len(entries) \in Nat /\ (entries = << >> <=> Len(entries) = 0)
  BY EmptySeq, LenProperties
<1>1. entries' = entries /\ cursor' = (IF entries = << >> THEN 0 ELSE Wrapped(cursor + dir))
      /\ scroll' = Window(cursor')
  BY DEF MoveCursor
<1>2. Visible \in Nat \ {0}
  BY BrowserConstants
<1>3. CASE entries = << >>
  BY <1>0, <1>1, <1>2, <1>3 DEF CursorShown, Window
<1>4. CASE entries # << >>
  <2>1. cursor \in 0 .. Len(entries) - 1 /\ scroll \in 0 .. cursor /\ cursor < scroll + Visible
        /\ (scroll = 0 \/ scroll + Visible <= Len(entries))
    BY <1>4 DEF CursorShown
  <2>2. cursor' \in 0 .. Len(entries) - 1
    BY <1>0, <1>1, <1>4, <2>1 DEF Wrapped
  <2>3. scroll' \in 0 .. cursor' /\ cursor' < scroll' + Visible
    <3>1. scroll \in Nat /\ cursor' \in Nat /\ scroll' = Window(cursor')
      BY <1>0, <1>1, <1>4, <2>1, <2>2
    <3>2. ASSUME NEW c \in Nat, NEW k \in Nat, NEW v \in Nat \ {0}
          PROVE  LET w == IF c < k THEN c ELSE IF c >= k + v THEN c - v + 1 ELSE k
                 IN  w \in 0 .. c /\ c < w + v
      OBVIOUS
    <3> QED
      BY <1>2, <3>1, <3>2 DEF Window
  <2>4. scroll' = 0 \/ scroll' + Visible <= Len(entries)
    BY <1>0, <1>1, <1>2, <2>1, <2>2 DEF Window
  <2> QED  BY <1>1, <1>4, <2>2, <2>3, <2>4 DEF CursorShown
<1> QED  BY <1>3, <1>4

\* A folder that was just read is shown from its top.
LEMMA OpensAtTop ==
    ASSUME NEW d \in Folders \cup {Root}, Open(d)
    PROVE  entries' \in Seq(Shown) /\ CursorShown'
<1>1. entries' \in Seq(Shown) /\ cursor' = 0 /\ scroll' = 0
  BY ListingIsSequence DEF Open
<1>2. Len(entries') \in Nat /\ (entries' = << >> <=> Len(entries') = 0)
  BY <1>1, EmptySeq, LenProperties
<1>3. Visible \in Nat \ {0}
  BY BrowserConstants
<1> QED  BY <1>1, <1>2, <1>3 DEF CursorShown

\* The invariant in two parts: what the handlers of the list keep, and what those of
\* the keyboard and the gamepad do.
\* The list, in one formula.
List ==
    /\ stack \in Seq(Folders \cup {Root}) /\ stack # << >>
    /\ entries \in Seq(Shown) /\ CursorShown
    /\ result \in {i \in Shown : i.cart} \cup {NoChoice, Left}

Inputs ==
    held \in Turns /\ pad \in BOOLEAN /\ axes \in [Axes -> Turns] /\ keys \in SUBSET Arrows

BrowserInv == List /\ Inputs

LEMMA EnterFolderKeeps ==
    ASSUME List, EnterFolder
    PROVE  List'
<1>1. CASE entries = << >>
  BY <1>1 DEF List, EnterFolder, CursorShown
<1>2. CASE entries # << >>
  <2>0. Len(entries) \in Nat /\ cursor \in 0 .. Len(entries) - 1
    BY <1>2, LenProperties DEF List, CursorShown
  <2>1. entries[cursor + 1] \in Shown
    BY <2>0, ElementOfSeq DEF List
  <2>2. CASE entries[cursor + 1].folder
    <3>1. entries[cursor + 1] \in Folders
      BY <2>1, <2>2 DEF Folders, Shown
    <3>2. stack' = Append(stack, entries[cursor + 1]) /\ Open(entries[cursor + 1]) /\ result' = result
      BY <1>2, <2>2 DEF EnterFolder
    <3>3. stack' \in Seq(Folders \cup {Root}) /\ stack' # << >>
      BY <3>1, <3>2, AppendProperties DEF List
    <3> QED  BY <3>1, <3>2, <3>3, OpensAtTop DEF List
  <2>3. CASE ~entries[cursor + 1].folder
    <3>1. entries[cursor + 1].cart
      BY <2>1, <2>3 DEF Shown
    <3> QED  BY <1>2, <2>1, <2>3, <3>1 DEF EnterFolder, List, CursorShown
  <2> QED  BY <2>2, <2>3
<1> QED  BY <1>1, <1>2

LEMMA GoBackKeeps ==
    ASSUME List, GoBack
    PROVE  List'
<1>1. CASE Len(stack) > 1
  <2>1. stack' = SubSeq(stack, 1, Len(stack) - 1) /\ Open(stack'[Len(stack')]) /\ result' = result
    BY <1>1 DEF GoBack
  <2>2. Len(stack) \in Nat
    BY LenProperties DEF List
  <2>3. stack' \in Seq(Folders \cup {Root}) /\ Len(stack') = Len(stack) - 1
    BY <1>1, <2>1, <2>2, SubSeqProperties DEF List
  <2>4. stack' # << >> /\ stack'[Len(stack')] \in Folders \cup {Root}
    BY <1>1, <2>2, <2>3, EmptySeq, ElementOfSeq
  <2> QED  BY <2>1, <2>3, <2>4, OpensAtTop DEF List
<1>2. CASE ~(Len(stack) > 1)
  BY <1>2 DEF GoBack, List, CursorShown
<1> QED  BY <1>1, <1>2

LEMMA MoveCursorKeeps ==
    ASSUME List, NEW dir \in {-1, 1}, MoveCursor(dir)
    PROVE  List'
<1>1. CursorShown'
  BY WindowFollows DEF List
<1> QED  BY <1>1 DEF MoveCursor, List

LEMMA QuitKeeps == ASSUME List, Quit \/ Stay PROVE List'
BY DEF List, Quit, Stay, CursorShown

LEMMA TurnsAreSteps == ASSUME NEW t \in Turns, t # 0 PROVE t \in {-1, 1}
BY DEF Turns

LEMMA BrowserStepKeeps == ASSUME BrowserInv, [BrowserNext]_browser PROVE BrowserInv'
<1>1. CASE UNCHANGED browser
  BY <1>1 DEF browser, BrowserInv, List, Inputs, CursorShown
<1>2. ASSUME NEW arrow \in Arrows, ArrowDown(arrow) PROVE BrowserInv'
  <2>1. Turn(arrow) \in {-1, 1}
    BY DEF Turn
  <2>2. List'
    BY <1>2, <2>1, QuitKeeps, MoveCursorKeeps, EnterFolderKeeps, GoBackKeeps DEF ArrowDown, BrowserInv
  <2>3. Inputs'
    BY <1>2, <2>1 DEF ArrowDown, BrowserInv, Inputs, Turns
  <2> QED  BY <2>2, <2>3 DEF BrowserInv
<1>3. ASSUME NEW arrow \in Arrows, ArrowUp(arrow) PROVE BrowserInv'
  <2>1. List'
    BY <1>3, QuitKeeps DEF ArrowUp, BrowserInv
  <2>2. Inputs'
    BY <1>3 DEF ArrowUp, BrowserInv, Inputs, Turns
  <2> QED  BY <2>1, <2>2 DEF BrowserInv
<1>4. CASE OtherKey \/ Button
  <2>1. List'
    BY <1>4, QuitKeeps, EnterFolderKeeps, GoBackKeeps DEF OtherKey, Button, BrowserInv
  <2>2. Inputs'
    BY <1>4 DEF OtherKey, Button, input, BrowserInv, Inputs
  <2> QED  BY <2>1, <2>2 DEF BrowserInv
<1>5. ASSUME NEW a \in Axes, NEW turn \in Turns, VerticalAxis(a, turn) PROVE BrowserInv'
  <2>1. axes' \in [Axes -> Turns]
    BY <1>5 DEF VerticalAxis, BrowserInv, Inputs
  <2>2. Vertical(axes') \in Turns
    BY <2>1 DEF Vertical, Combined, Axes
  <2>3. List'
    BY <1>5, <2>2, TurnsAreSteps, QuitKeeps, MoveCursorKeeps DEF VerticalAxis, BrowserInv
  <2>4. Inputs'
    BY <1>5, <2>1, <2>2 DEF VerticalAxis, Stay, BrowserInv, Inputs
  <2> QED  BY <2>3, <2>4 DEF BrowserInv
<1>6. ASSUME NEW a \in Axes, NEW turn \in Turns, HorizontalAxis(a, turn) PROVE BrowserInv'
  <2>1. List'
    BY <1>6, QuitKeeps, EnterFolderKeeps, GoBackKeeps DEF HorizontalAxis, BrowserInv
  <2>2. Inputs'
    BY <1>6 DEF HorizontalAxis, BrowserInv, Inputs
  <2> QED  BY <2>1, <2>2 DEF BrowserInv
<1>7. CASE Repeat
  <2>1. List'
    BY <1>7, TurnsAreSteps, MoveCursorKeeps DEF Repeat, BrowserInv, Inputs
  <2>2. Inputs'
    BY <1>7 DEF Repeat, input, BrowserInv, Inputs
  <2> QED  BY <2>1, <2>2 DEF BrowserInv
<1> QED  BY <1>1, <1>2, <1>3, <1>4, <1>5, <1>6, <1>7 DEF BrowserNext

LEMMA BrowserInitKeeps == ASSUME BrowserInit PROVE BrowserInv
<1>1. entries \in Seq(Shown)
  BY ListingIsSequence DEF BrowserInit
<1>2. Len(entries) \in Nat /\ (entries = << >> <=> Len(entries) = 0)
  BY <1>1, EmptySeq, LenProperties
<1>3. Visible \in Nat \ {0}
  BY BrowserConstants
<1>4. CursorShown
  BY <1>2, <1>3 DEF BrowserInit, CursorShown
<1>5. stack \in Seq(Folders \cup {Root}) /\ stack # << >>
  BY DEF BrowserInit
<1> QED  BY <1>1, <1>4, <1>5 DEF BrowserInit, BrowserInv, List, Inputs, Turns, Axes, Arrows

\* In every state of the browser the row under the cursor exists and is on the screen,
\* and rows are only left empty when the whole list is shown (move_cursor, and the two
\* handlers that read another folder).
THEOREM CursorAlwaysShown == BrowserSpec => []CursorShown
<1>1. BrowserInit => BrowserInv
  BY BrowserInitKeeps
<1>2. BrowserInv /\ [BrowserNext]_browser => BrowserInv'
  BY BrowserStepKeeps
<1>3. BrowserInv => CursorShown
  BY DEF BrowserInv, List
<1> QED  BY <1>1, <1>2, <1>3, PTL DEF BrowserSpec
-----------------------------------------------------------------------------
(* With a gamepad the direction that repeats is a function of the two axes,  *)
(* and of nothing that happened before.                                      *)

PadInv == Inputs /\ RepeatFollowsPad

LEMMA PadInitKeeps == ASSUME BrowserInit PROVE RepeatFollowsPad
<1>1. held = Vertical(axes)
  BY DEF BrowserInit, Vertical, Combined, Axes
<1> QED  BY <1>1 DEF RepeatFollowsPad

LEMMA PadStepKeeps == ASSUME PadInv, [BrowserNext]_browser PROVE RepeatFollowsPad'
<1>1. CASE UNCHANGED browser
  BY <1>1 DEF browser, PadInv, RepeatFollowsPad, Vertical
<1>2. ASSUME NEW arrow \in Arrows, ArrowDown(arrow) \/ ArrowUp(arrow) PROVE RepeatFollowsPad'
  BY <1>2 DEF ArrowDown, ArrowUp, RepeatFollowsPad
<1>3. CASE OtherKey \/ Button \/ Repeat
  BY <1>3 DEF OtherKey, Button, Repeat, input, PadInv, RepeatFollowsPad, Vertical
<1>4. ASSUME NEW a \in Axes, NEW turn \in Turns, VerticalAxis(a, turn) PROVE RepeatFollowsPad'
  <2>1. pad' = pad /\ held = Vertical(axes)
    BY <1>4 DEF VerticalAxis, PadInv, RepeatFollowsPad
  <2>2. held' = Vertical(axes')
    BY <1>4, <2>1 DEF VerticalAxis
  <2> QED  BY <2>2 DEF RepeatFollowsPad, Vertical
<1>5. ASSUME NEW a \in Axes, NEW turn \in Turns, HorizontalAxis(a, turn) PROVE RepeatFollowsPad'
  <2>1. axes'["y1"] = axes["y1"] /\ axes'["y7"] = axes["y7"] /\ held' = held /\ pad' = pad
    BY <1>5 DEF HorizontalAxis, PadInv, Inputs
  <2> QED  BY <2>1 DEF PadInv, RepeatFollowsPad, Vertical
<1> QED  BY <1>1, <1>2, <1>3, <1>4, <1>5 DEF BrowserNext

\* Whatever the order in which the stick and the hat are pushed and let go of, the
\* list runs in the direction they say together, the stick first, and stops when they
\* say none (the axis handlers of run_cart_browser).
THEOREM RepeatAlwaysFollowsPad == BrowserSpec => []RepeatFollowsPad
<1>1. BrowserInit => BrowserInv /\ RepeatFollowsPad
  BY BrowserInitKeeps, PadInitKeeps
<1>2. BrowserInv /\ RepeatFollowsPad /\ [BrowserNext]_browser => (BrowserInv /\ RepeatFollowsPad)'
  <2> SUFFICES ASSUME BrowserInv, RepeatFollowsPad, [BrowserNext]_browser PROVE BrowserInv' /\ RepeatFollowsPad'
    OBVIOUS
  <2>1. RepeatFollowsPad'
    BY PadStepKeeps DEF BrowserInv, PadInv
  <2> QED  BY <2>1, BrowserStepKeeps
<1> QED  BY <1>1, <1>2, PTL DEF BrowserSpec
-----------------------------------------------------------------------------
(* Console.                                                                *)

ConsoleInv == StateInv /\ BrowserInv /\ RepeatFollowsPad

LEMMA BrowseKeeps == ASSUME ConsoleInv, Browse PROVE ConsoleInv'
<1>1. BrowserInv' /\ RepeatFollowsPad'
  BY BrowserStepKeeps, PadStepKeeps DEF Browse, ConsoleInv, BrowserInv, PadInv
<1>2. StateInv'
  BY StepKeeps DEF Browse, ConsoleInv
<1> QED  BY <1>1, <1>2 DEF ConsoleInv

\* What the browser returned is a cart, and it can be started.
LEMMA LaunchKeeps == ASSUME ConsoleInv, Launch PROVE ConsoleInv'
<1>1. result \in Items /\ result.cart
  BY DEF Launch, ConsoleInv, BrowserInv, List, Shown
<1>2. PathOf[result] \in Readable /\ Start(PathOf[result])
  BY <1>1, LaunchesCarts DEF Launch
<1>3. StateInv'
  BY <1>2, RestartKeeps DEF ConsoleInv
<1>4. /\ stack' = <<Root>> /\ entries' = << >> /\ cursor' = 0 /\ scroll' = 0
      /\ held' = 0 /\ pad' = FALSE /\ axes' = [a \in Axes |-> 0] /\ keys' = {} /\ result' = NoChoice
  BY DEF Launch
<1>5. CursorShown'
  BY <1>4, BrowserConstants DEF CursorShown
<1>6. stack' \in Seq(Folders \cup {Root}) /\ stack' # << >> /\ entries' \in Seq(Shown)
  BY <1>4, EmptySeq
<1>7. BrowserInv'
  BY <1>4, <1>5, <1>6 DEF BrowserInv, List, Inputs, Turns, Axes, Arrows
<1> QED  BY <1>3, <1>4, <1>7 DEF ConsoleInv, RepeatFollowsPad

LEMMA GameKeeps == ASSUME ConsoleInv, Game PROVE ConsoleInv'
<1>1. StateInv'
  BY StepKeeps DEF Game, ConsoleInv
<1>2. BrowserInv' /\ RepeatFollowsPad'
  BY BrowserStepKeeps, PadStepKeeps DEF Game, ConsoleInv, BrowserInv, PadInv
<1> QED  BY <1>1, <1>2 DEF ConsoleInv

LEMMA ConsoleInvAlways == ConsoleSpec => []ConsoleInv
<1>1. ConsoleInit => ConsoleInv
  <2> SUFFICES ASSUME ConsoleInit PROVE ConsoleInv
    OBVIOUS
  <2>1. StateInv
    BY StateInitKeeps DEF ConsoleInit
  <2>2. BrowserInv /\ RepeatFollowsPad
    BY BrowserInitKeeps, PadInitKeeps DEF ConsoleInit
  <2> QED  BY <2>1, <2>2 DEF ConsoleInv
<1>2. ConsoleInv /\ [ConsoleNext]_<<vars, browser, playing>> => ConsoleInv'
  <2> SUFFICES ASSUME ConsoleInv, [ConsoleNext]_<<vars, browser, playing>> PROVE ConsoleInv'
    OBVIOUS
  <2>1. CASE UNCHANGED <<vars, browser, playing>>
    BY <2>1, StepKeeps, BrowserStepKeeps, PadStepKeeps DEF ConsoleInv, BrowserInv, PadInv
  <2> QED  BY <2>1, BrowseKeeps, LaunchKeeps, GameKeeps DEF ConsoleNext
<1> QED  BY <1>1, <1>2, PTL DEF ConsoleSpec

\* The two parts keep their promises in the whole, from the list of carts through every
\* cart the user launches there: a launch restarts the engine for a cart that can be
\* read and leaves the list as it was before the first (mister_main.cpp, main).
THEOREM ConsoleKeepsPromises ==
    ConsoleSpec => /\ [](GlobalsOfProgram /\ SecondLoadStands /\ CursorShown /\ RepeatFollowsPad)
                   /\ BackLands /\ LoadIsAllOrNothing /\ NothingUnasked
<1>1. ConsoleInv => GlobalsOfProgram /\ SecondLoadStands /\ CursorShown /\ RepeatFollowsPad
  BY OwnGlobals, SecondStands DEF ConsoleInv, BrowserInv, List
<1>2. ConsoleInv => StateInv
  BY DEF ConsoleInv
<1>3. ConsoleSpec => BackLands
  BY <1>2, LandsOnCart, ConsoleInvAlways, PTL DEF BackLands
<1>4. ConsoleSpec => LoadIsAllOrNothing
  <2>1. StateInv => (Poll => \/ UNCHANGED game
                             \/ LET moment == last[File(entry, word.slot)]
                                IN  /\ moment # NoState /\ ram' = moment.ram /\ sandbox' = moment.sandbox
                                    /\ phase' = "running" \/ phase = "created" \/ moment.cart # running \/ failed)
    BY LoadsWhole DEF BringsBack
  <2> QED  BY <1>2, <2>1, ConsoleInvAlways, PTL DEF LoadIsAllOrNothing
<1>5. ConsoleSpec => NothingUnasked
  BY <1>2, ActsOnCommand, ConsoleInvAlways, PTL DEF NothingUnasked
<1> QED  BY <1>1, <1>3, <1>4, <1>5, ConsoleInvAlways, PTL
=============================================================================
