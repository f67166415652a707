CONSTANTS
    NSlots = 2
    SeqMod = 3
    MinFrames = 2
    NoSlot = NoSlot
    TwiceUnderReset = FALSE
    Plays = FALSE
SPECIFICATION FairSpec
PROPERTIES
    PickersAgree
