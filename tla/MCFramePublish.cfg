CONSTANTS
    StaleMax = 3
    TickGap = 3
    Lines = 2
    MaxNotices = 2
    RingSize = 6
    Chunks = {1, 3}
    Burst = 4
    Numbers = 7
SPECIFICATION MCSpec
INVARIANTS
    NoneWaits
PROPERTIES
    NotBlanked
    SettlesOnLastPicture
    BandIsWhole
    HearsAll
