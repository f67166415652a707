------------------------------ MODULE SaveState ------------------------------
(***************************************************************************)
(* Save states: the slots of the OSD, on top of CartFiles.                 *)
(*                                                                         *)
(* The core tells the engine of a save or load through a DDR3 word with a  *)
(* sequence number; the engine reads the word between two frames.  A state *)
(* is a file per mounted cart and slot, written over the old one section   *)
(* by section; nothing looks at the results of the writes, so that a full  *)
(* card or a loss of power leaves the first sections of it.                *)
(*                                                                         *)
(* The sections are the memory, the cart's name, the globals, and the rest *)
(* (m_state and the menu), which goes with them.                           *)
(*                                                                         *)
(* A state of the cart that runs is put into it.  A state of another cart  *)
(* starts that cart, and is put into what its first frame then overwrites: *)
(* it takes a second load, of what by then is the state of the cart that   *)
(* runs.                                                                   *)
(***************************************************************************)
EXTENDS CartFiles

CONSTANTS
    Slots,
    Cuts,      \* after how many sections a write may end: all, or fewer
    SeqMod,    \* the sequence number wraps here
    NoState    \* nothing was ever saved in a slot

Moments == [ram : Rams, cart : Readable, sandbox : Sandboxes]

Files == [base : Bases, slot : Slots]
File(e, s) == [base |-> e.base, slot |-> s]
Sections == 4

ASSUME StateConstants ==
    /\ Cuts \subseteq 0 .. Sections
    /\ SeqMod \in Nat /\ SeqMod > 1 /\ NoState \notin Moments \cup Files

Saves == 1
Loads == 2

VARIABLES
    files,    \* the state files: n sections are there, whatever the others say
    word,     \* DDR3 0x10: the command, its slot and its number
    lastSeq,  \* ss_last_seq
    seeded,   \* ss_seq_seeded
    polled,   \* has the word been read for this frame?
    last,     \* history: what the last save in a file was of
    asked,    \* history: was there a command since the engine last read the word?
    recalled  \* history: the file last loaded, if nothing but frames of its program
              \* came after; was it twice; does the program go on from it?

stateVars == <<files, word, lastSeq, seeded, polled, last, asked, recalled>>
vars == <<cartVars, stateVars>>

Moment == [ram |-> ram, cart |-> running, sandbox |-> sandbox]

\* The first n sections of a state of this moment.
Parts(n) == [n |-> n, ram |-> ram, cart |-> name, sandbox |-> sandbox]

StateTypeOK ==
    /\ files \in [Files -> [n : 0 .. Sections, ram : Rams, cart : Paths, sandbox : Sandboxes]]
    /\ last \in [Files -> Moments \cup {NoState}]
    /\ word \in [cmd : {0, Saves, Loads}, slot : Slots, seq : 0 .. SeqMod - 1]
    /\ lastSeq \in 0 .. SeqMod - 1
    /\ seeded \in BOOLEAN /\ polled \in BOOLEAN /\ asked \in BOOLEAN
    /\ recalled \in [file : Files \cup {NoState}, twice : BOOLEAN, stands : BOOLEAN]

NoRecall == [file |-> NoState, twice |-> FALSE, stands |-> FALSE]

\* The word is what a process before this one left in it.
Init ==
    /\ CartInit
    /\ files = [f \in Files |-> Parts(0)]
    /\ last = [f \in Files |-> NoState]
    /\ \E s \in Slots, c \in {0, Saves, Loads} : word = [cmd |-> c, slot |-> s, seq |-> 0]
    /\ lastSeq = 0 /\ seeded = FALSE /\ polled = FALSE /\ asked = FALSE
    /\ recalled = NoRecall
-----------------------------------------------------------------------------
\* The core: a line of the OSD, or F1 to F4.
Press(c, s) ==
    /\ word' = [cmd |-> c, slot |-> s, seq |-> (word.seq + 1) % SeqMod]
    /\ asked' = TRUE
    /\ UNCHANGED <<cartVars, files, lastSeq, seeded, polled, last, recalled>>

\* The core's RESET, which the engine lives through: a command it has not read is gone.
CoreReset ==
    /\ \E s \in Slots : word' = [cmd |-> 0, slot |-> s, seq |-> 0]
    /\ asked' = FALSE
    /\ UNCHANGED <<cartVars, files, lastSeq, seeded, polled, last, recalled>>

\* Mutant: the file is opened "r+b", and what is not written over stays.
WrittenOver(old, n) ==
    [n |-> IF n > old.n THEN n ELSE old.n,
     ram |-> IF n > 0 THEN ram ELSE old.ram,
     cart |-> IF n > 1 THEN name ELSE old.cart,
     sandbox |-> IF n > 2 THEN sandbox ELSE old.sandbox]

\* fopen "wb" empties the file; n sections reach the card.
Written(old, n) == Parts(n)

\* A file that cannot be opened stays as it is.
Save(f) ==
    /\ \/ UNCHANGED <<files, last>>
       \/ /\ \E n \in Cuts : files' = [files EXCEPT ![f] = Written(files[f], n)]
          /\ last' = [last EXCEPT ![f] = Moment]
    /\ recalled' = NoRecall
    /\ UNCHANGED cartVars

\* What was saved is of another cart than the one m_cart is named after.
\* Mutant: it is not looked at.
NeverOther(saved) == FALSE
\* Mutant: ... than the one that was mounted.
OtherThanMounted(saved) == saved # entry
OtherCart(saved) == saved # name

Restore(f) ==
    /\ ram' = files[f].ram /\ sandbox' = files[f].sandbox
    /\ recalled' = [file |-> f, twice |-> recalled.file = f, stands |-> TRUE]
    /\ UNCHANGED <<entry, crumbs>>

LoadState(f) ==
    LET file == files[f]
    IN  \/ file.n < Sections /\ recalled' = NoRecall /\ UNCHANGED cartVars
        \/ /\ file.n = Sections /\ ~OtherCart(file.cart)
           /\ Restore(f)
           /\ UNCHANGED <<name, code, running, phase, failed>>
        \/ /\ file.n = Sections /\ OtherCart(file.cart) /\ file.cart \in Readable
           /\ name' = file.cart /\ code' = file.cart
           /\ running' = file.cart /\ phase' = "created"
           /\ Restore(f)
           /\ UNCHANGED failed
        \/ /\ file.n = Sections /\ OtherCart(file.cart) /\ file.cart \notin Readable
           /\ name' = file.cart /\ failed' = TRUE /\ recalled' = NoRecall
           /\ UNCHANGED <<code, game, entry, crumbs>>

\* Mutant: there is no first read that only takes the number.
NewsFromStart == word.seq # lastSeq
News == seeded /\ word.seq # lastSeq

\* The top of the game loop.
Poll ==
    /\ ~polled /\ polled' = TRUE
    /\ seeded' = TRUE /\ lastSeq' = word.seq /\ asked' = FALSE
    /\ LET f == File(entry, word.slot)
       IN  \/ News /\ word.cmd = Saves /\ Save(f)
           \/ News /\ word.cmd = Loads /\ LoadState(f) /\ UNCHANGED <<files, last>>
           \/ (~News \/ word.cmd \notin {Saves, Loads}) /\ UNCHANGED <<cartVars, files, last, recalled>>
    /\ UNCHANGED word

\* step: the frame of the program that goes on, or begins.
Play ==
    /\ polled /\ polled' = FALSE
    /\ \/ Leave /\ recalled' = NoRecall
       \/ /\ \E v \in Vals : Tick(v)
          /\ recalled' = [recalled EXCEPT !.stands = @ /\ phase = "running"]
    /\ UNCHANGED <<files, word, lastSeq, seeded, last, asked>>

\* vm::vm, load(e) and run().
Boot(e) ==
    /\ name' = e /\ code' = e /\ crumbs' = << >> /\ entry' = e
    /\ Run(e) /\ ram' = Blank(e)
    /\ polled' = FALSE /\ failed' = FALSE /\ recalled' = NoRecall
    /\ UNCHANGED <<files, word, last>>

\* ... in a new process, after the last one died, was reset or was quit;
Start(e) == Boot(e) /\ lastSeq' = 0 /\ seeded' = FALSE /\ asked' = FALSE

\* ... in the same one, which has kept its statics, for a cart the user mounts.
Remount(e) == e # entry /\ Boot(e) /\ UNCHANGED <<lastSeq, seeded, asked>>

Restart == \E e \in Entries : Start(e) \/ Remount(e)

Next ==
    \/ CoreReset \/ \E c \in {Saves, Loads}, s \in Slots : Press(c, s)
    \/ Poll \/ Play \/ Restart

Spec == Init /\ [][Next]_vars
-----------------------------------------------------------------------------
(* Properties.                                                             *)

\* As long as every file that was asked for could be read, the program that runs finds
\* its own globals, whatever was loaded, restored or gone back to.
GlobalsOfProgram == ~failed => sandbox.of = running

\* Loading a state brings back all of the moment its slot was last saved at, or
\* leaves the game alone: a save that was cut short is not half a state.  A program
\* that runs is put back to it and does not begin again, unless it is not the one the
\* state is of, or a file was refused and the running cart has lost its name.
LoadIsAllOrNothing ==
    [][Poll => \/ UNCHANGED game
               \/ LET moment == last[File(entry, word.slot)]
                  IN  /\ moment # NoState /\ ram' = moment.ram /\ sandbox' = moment.sandbox
                      /\ phase' = "running" \/ phase = "created" \/ moment.cart # running \/ failed]_vars

\* "cart-mismatch loads require two Load State presses": never three.  When a state is
\* loaded a second time, and between the two its program has done nothing but run, then
\* the program goes on from the state, and no frame of it is a beginning.
SecondLoadStands == recalled.twice => recalled.stands

\* A process does not take up a command from before it started, or one twice.
NothingUnasked == [][Poll /\ ~asked => UNCHANGED <<files, game>>]_vars

\* "what cart was active at save time"
SavedCartWasActive ==
    \A f \in Files : last[f] # NoState => files[f].cart = last[f].cart
=============================================================================
