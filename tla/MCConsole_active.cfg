CONSTANTS
    Bases <- MCBases
    Short <- MCShort
    NoCart = NoCart
    Readable <- MCReadable
    Entries <- MCEntries
    Asks <- MCAsks
    Vals = {0, 1}
    Zero = 0
    MaxCrumbs = 1
    Slots = {0}
    Cuts = {2, 4}
    SeqMod = 2
    NoState = NoState
    Visible = 2
    Root = Root
    Items <- MCItems
    Contents <- MCContents
    NoChoice = NoChoice
    Left = Left
    MaxDepth = 2
    PathOf <- MCPathOf
SPECIFICATION ConsoleSpec
INVARIANT SavedCartWasActive
CHECK_DEADLOCK FALSE
