------------------------------ MODULE MCConsole ------------------------------
(***************************************************************************)
(* An instance of Console for TLC: a title that loads a level by a bare    *)
(* name, by a BBS name, and a cart that is not there.  The level is on the *)
(* card as a picture only.  The browser's window has two rows, its folders *)
(* none to five.                                                           *)
(***************************************************************************)
EXTENDS Console

Title == [base |-> "title", ext |-> P8]
Picture == [base |-> "title", ext |-> P8Png]
Level == [base |-> "level", ext |-> P8Png]
MCBases == {"title", "level", "gone"}
MCShort == [b \in MCBases |-> IF b = "gone" THEN "level" ELSE NoCart]
MCReadable == {Title, Picture, Level}
MCEntries == {Title, Picture}
MCAsks ==
    {[base |-> "level", ext |-> Bare, bbs |-> FALSE, crumb |-> FALSE],
     [base |-> "level", ext |-> Bare, bbs |-> TRUE, crumb |-> TRUE],
     [base |-> "gone", ext |-> Bare, bbs |-> TRUE, crumb |-> FALSE],
     [base |-> "gone", ext |-> P8, bbs |-> FALSE, crumb |-> FALSE]}

Folder(n) == [name |-> n, folder |-> TRUE, cart |-> FALSE]
Cart(n) == [name |-> n, folder |-> FALSE, cart |-> TRUE]
Note == [name |-> 5, folder |-> FALSE, cart |-> FALSE]
MCItems == {Folder(0), Folder(3), Cart(1), Cart(2), Note}
MCContents ==
    [d \in {i \in MCItems : i.folder} \cup {Root} |->
        IF d = Root THEN {MCItems, {Folder(3), Cart(2), Cart(1)}} ELSE {{}, {Cart(1)}, MCItems}]
MCPathOf == [i \in MCItems |-> Title]
=============================================================================
