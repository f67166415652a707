CONSTANTS
    Ids <- OneId
    Overlay = "overlay"
    Vals <- TwoVals
    Zero = "old"
    Absent = Absent
    Unseen = Unseen
    NoId = NoId
    NoTake = NoTake
    MinFrames = 2
    CopyFails = FALSE
    WriteFails = FALSE
SPECIFICATION Spec
PROPERTY
    RealSavesOnlyRead
