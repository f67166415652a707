CONSTANTS
    Side = 16
    Tile = 4
    MapSide = 2
    NoArg = NoArg
    Poked <- MCPoked
    Windows <- MCWindows
    Cameras <- MCCameras
    FillPatterns <- MCFillPatterns
    Inks <- MCInks
    Spots <- MCSpots
    Corners <- MCCorners
    Segments <- MCSegments
    Radii <- MCRadii
    SpriteCalls <- MCSpriteCalls
    StretchCalls <- MCStretchCalls
    MapCalls <- MCMapCalls
    FirstSheet <- MCFirstSheet
    FirstCels <- MCFirstCels
    MaxSettings = 1
    MaxDraws = 1
    Words <- MCWords
    MaxWords = 4
    MaxLength = 50
SPECIFICATION AlgorithmsSpec
INVARIANTS FillsExactly LineAnyWay SpritesAgree RoundTrip CostIsReal
PROPERTY DrawsInsideWindow
CHECK_DEADLOCK FALSE
