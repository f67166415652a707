CONSTANTS
    NItems = 1
    Breadcrumb = TRUE
    QuitConfirm = FALSE
    Pads <- OneOrTwo
SPECIFICATION MCSpec
INVARIANTS
    InStep
    SameCommands
PROPERTY
    NoEcho
