CONSTANTS
    celeste = celeste
    dusk = dusk
    sent = sent
    Carts <- TwoCarts
    NoCart = NoCart
    NSlots = 2
    MaxFrames = 1
    NoTake = NoTake
    NoFile = NoFile
    Shared = sent
    SharedCart = celeste
    Unwritable <- RecslotFails
    SwitchInRespawn = FALSE
SPECIFICATION FairSpec
INVARIANTS
    SessionAsAsked
    PlaysOwnTake
PROPERTIES
    TakesWrittenAsAsked
    NoSilentLoss
    RequestAnswered
