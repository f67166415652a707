------------------------------- MODULE Console -------------------------------
(***************************************************************************)
(* The engine from the list of carts to the running cart: CartBrowser up   *)
(* to the cart the user launches, SaveState from there on.  What the       *)
(* browser keeps is local to it and gone when it returns.                  *)
(***************************************************************************)
EXTENDS SaveState, CartBrowser

CONSTANT PathOf  \* the path of an item that is a cart

VARIABLE playing  \* is there a g_vm?

ASSUME LaunchesCarts == \A i \in Items : i.cart => PathOf[i] \in Readable

\* What the engine holds before there is one means nothing.
ConsoleInit ==
    /\ BrowserInit /\ Init /\ playing = FALSE
    /\ entry = CHOOSE e \in Entries : TRUE

Browse == ~playing /\ BrowserNext /\ UNCHANGED <<vars, playing>>

Launch ==
    /\ ~playing /\ result \notin {NoChoice, Left}
    /\ Start(PathOf[result])
    /\ playing' = TRUE
    /\ stack' = <<Root>> /\ entries' = << >> /\ cursor' = 0 /\ scroll' = 0
    /\ held' = 0 /\ pad' = FALSE /\ axes' = [a \in Axes |-> 0]
    /\ keys' = {} /\ result' = NoChoice

Game == playing /\ Next /\ UNCHANGED <<browser, playing>>

ConsoleNext == Browse \/ Launch \/ Game

ConsoleSpec == ConsoleInit /\ [][ConsoleNext]_<<vars, browser, playing>>
=============================================================================
