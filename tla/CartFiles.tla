------------------------------ MODULE CartFiles ------------------------------
(***************************************************************************)
(* Which cart runs.                                                        *)
(*                                                                         *)
(* A cart may load() another by name and leave a breadcrumb: a line of the *)
(* pause menu that leads back to it.  A load tries one file after another; *)
(* the file object takes the name of each before it is opened, and keeps   *)
(* the name of the last when none can be read.  The cart that was loaded   *)
(* starts on the next frame, in a table of globals of its own.             *)
(*                                                                         *)
(* Reset Cart ends the process: it is a Start of SaveState.                *)
(*                                                                         *)
(* A path is a base name and an extension.  What a program keeps in its    *)
(* globals, and in the memory loads do not touch, is one value.            *)
(***************************************************************************)
EXTENDS Naturals, Sequences

CONSTANTS
    Bases,     \* names of carts
    Short,     \* Short[b]: what follows the last underscore of b, or NoCart
    NoCart,
    Readable,  \* the paths that hold a cart
    Entries,   \* those the user mounts
    Asks,      \* what the carts load: [base, ext, bbs, crumb]
    Vals,
    Zero,
    MaxCrumbs

P8 == ".p8"
P8Png == ".p8.png"
Png == ".png"
Bare == ""
Paths == [base : Bases, ext : {P8, P8Png, Png}]

ASSUME CartConstants ==
    /\ Short \in [Bases -> Bases \cup {NoCart}] /\ NoCart \notin Bases
    /\ Readable \subseteq Paths /\ Entries \subseteq Readable
    /\ Asks \subseteq [base : Bases, ext : {Bare, P8, P8Png}, bbs : BOOLEAN, crumb : BOOLEAN]
    /\ Zero \in Vals /\ MaxCrumbs \in Nat

VARIABLES
    \* the file object m_cart
    name,     \* m_filename
    code,     \* the path whose program and data it holds
    \* the Lua state
    running,  \* the path the coroutine __z8_loop was made for
    phase,    \* "created" until the coroutine is first resumed, then "running"
    sandbox,  \* __z8_sandbox: the cart whose globals it holds, and their value
    ram,      \* m_ram: the cart whose data it was loaded with, and the rest
    \* the console
    entry,    \* m_entry_cart
    crumbs,   \* breadcrumbs; `from` is a history: the cart that ran
    failed    \* history: has a file been refused since the cart was mounted?

game == <<running, phase, sandbox, ram>>
cartVars == <<name, code, game, entry, crumbs, failed>>

Path(b, e) == [base |-> b, ext |-> e]
Rams == [rom : Readable, rest : Vals]
Sandboxes == [of : Readable, val : Vals]
Crumbs == [cart : Paths, from : Readable]

CartTypeOK ==
    /\ name \in Paths
    /\ {code, running, entry} \subseteq Readable
    /\ phase \in {"created", "running"}
    /\ sandbox \in Sandboxes /\ ram \in Rams
    /\ crumbs \in Seq(Crumbs)
    /\ failed \in BOOLEAN

Blank(e) == [rom |-> e, rest |-> Zero]

CartInit ==
    \E e \in Entries :
        /\ name = e /\ code = e /\ running = e /\ phase = "created"
        /\ sandbox = [of |-> e, val |-> Zero] /\ ram = Blank(e)
        /\ entry = e /\ crumbs = << >> /\ failed = FALSE
-----------------------------------------------------------------------------
(* Loading.                                                                *)

\* load() in the BIOS: the files it asks __load for, in this order.
Tries(ask) ==
    IF ask.bbs
    THEN IF Short[ask.base] = NoCart
         THEN <<Path(ask.base, P8Png), Path(ask.base, P8)>>
         ELSE <<Path(ask.base, P8Png), Path(ask.base, P8),
                Path(Short[ask.base], P8Png), Path(Short[ask.base], P8)>>
    ELSE CASE ask.ext = Bare -> <<Path(ask.base, P8), Path(ask.base, P8Png), Path(ask.base, Png)>>
           [] ask.ext = P8 -> <<Path(ask.base, P8), Path(ask.base, P8Png)>>
           [] OTHER -> <<Path(ask.base, P8Png)>>

\* vm::run: a coroutine for the program in m_cart, not resumed, and a new sandbox.
Run(c) ==
    /\ running' = c /\ phase' = "created"
    /\ sandbox' = [of |-> c, val |-> Zero]

\* private_load for tries[k], after those before it were refused.
Found(ask, tries, k) ==
    /\ name' = tries[k] /\ code' = tries[k]
    /\ failed' = (failed \/ k > 1)
    /\ Run(tries[k])
    /\ crumbs' = IF ask.crumb
                 THEN Append(crumbs, [cart |-> IF k = 1 THEN name ELSE tries[k - 1], from |-> running])
                 ELSE crumbs
    /\ UNCHANGED <<ram, entry>>

Load(ask) ==
    /\ phase = "running"
    /\ ask.crumb => Len(crumbs) < MaxCrumbs
    /\ LET tries == Tries(ask)
           good == {k \in 1 .. Len(tries) : tries[k] \in Readable}
       IN  \/ \E k \in good : (\A j \in good : k <= j) /\ Found(ask, tries, k)
           \/ /\ good = {}
              /\ name' = tries[Len(tries)] /\ failed' = TRUE
              /\ UNCHANGED <<code, game, entry, crumbs>>

\* vm::reset, for a breadcrumb that leads nowhere: load(entry), run().
Reset ==
    /\ name' = entry /\ code' = entry
    /\ crumbs' = << >>
    /\ Run(entry)
    /\ UNCHANGED <<ram, entry, failed>>

Crumb == crumbs[Len(crumbs)]

\* Mutant: what is in m_cart is run whether or not the file could be read.
BackUnchecked ==
    /\ crumbs # << >>
    /\ name' = Crumb.cart
    /\ code' = IF Crumb.cart \in Readable THEN Crumb.cart ELSE code
    /\ crumbs' = SubSeq(crumbs, 1, Len(crumbs) - 1)
    /\ failed' = (failed \/ Crumb.cart \notin Readable)
    /\ Run(code')
    /\ UNCHANGED <<ram, entry>>

\* The line of the pause menu a breadcrumb adds; a file that is gone is a Reset.
Back ==
    /\ crumbs # << >>
    /\ IF Crumb.cart \in Readable
       THEN /\ name' = Crumb.cart /\ code' = Crumb.cart
            /\ crumbs' = SubSeq(crumbs, 1, Len(crumbs) - 1)
            /\ Run(Crumb.cart)
            /\ UNCHANGED <<ram, entry, failed>>
       ELSE Reset
-----------------------------------------------------------------------------
(* A frame of the program.                                                 *)

\* run(), called by the cart.
Rerun ==
    /\ phase = "running"
    /\ Run(code)
    /\ UNCHANGED <<name, code, ram, entry, crumbs, failed>>

\* __z8_tick.  The first resumption loads the cart's data into memory and defines
\* its globals, whatever was put into them since the coroutine was made.
Tick(v) ==
    /\ ram' = [rom |-> IF phase = "created" THEN code ELSE ram.rom, rest |-> v]
    /\ sandbox' = [of |-> IF phase = "created" THEN running ELSE sandbox.of, val |-> v]
    /\ phase' = "running"
    /\ UNCHANGED <<name, code, running, entry, crumbs, failed>>

\* The frame in which another cart is asked for, or the same from its start.
Leave == Back \/ Rerun \/ \E ask \in Asks : Load(ask)

Frame == Leave \/ \E v \in Vals : Tick(v)
-----------------------------------------------------------------------------
(* Properties.                                                             *)

\* Going back lands in the cart that left the breadcrumb or, when it was left under
\* a name that cannot be read, in the cart that was mounted: never on nothing.
BackLands == [][Back => running' \in {Crumb.from, entry}]_cartVars

\* A file object whose name can be read holds that cart; what runs is what it holds.
NamesWhatRuns ==
    /\ code = running
    /\ name \in Readable => name = code
    /\ \A k \in 1 .. Len(crumbs) : crumbs[k].cart \in Readable => crumbs[k].cart = crumbs[k].from
=============================================================================
