CONSTANTS
    Buttons <- OneButton
    Pointers = {p1, p2}
    Chars <- OneChar
    Texts <- NoneOrTwo
    Files <- TwoFiles
    Entry = "entry"
    Versions = {v1, v2}
    Unreadable = Unreadable
    Missing = Missing
    NoPointer = NoPointer
    NoTake = NoTake
    MaxFrames = 2
    TextMax = 3
    IdentMax = 2
    MaxOpens = 3
    SplitOom = FALSE
SPECIFICATION Spec
SYMMETRY Alike
INVARIANTS
    SameInputs
    TakeIsSound
PROPERTIES
    NoFrameAfterDrift
    RestingHandsLetItPlay
