CONSTANTS
    NSlots = 2
    SeqMod = 3
    MinFrames = 2
    NoSlot = NoSlot
    TwiceUnderReset = TRUE
    Plays = TRUE
SPECIFICATION Spec
PROPERTIES
    PressNotReverted
    PushWasPressed
    PlayWasPressed
