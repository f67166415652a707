CONSTANTS
    Ids <- OneId
    Overlay = "overlay"
    Vals <- TwoVals
    Zero = "old"
    Absent = Absent
    Unseen = Unseen
    NoId = NoId
    NoTake = NoTake
    MinFrames = 1
    CopyFails = TRUE
    WriteFails = TRUE
SPECIFICATION Spec
INVARIANTS
    PlaysRecordedWorld
    OneSaveDir
