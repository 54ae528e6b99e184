CONSTANTS
    File = {f1, f2}
    NoFile = NoFile
    MaxEdits = 2
    MaxTroubles = 1
    WireCap = 1
SPECIFICATION LiveSpec
INVARIANTS
    NothingForgotten
    CleanIsSent
PROPERTIES
    EveryEditArrives
CHECK_DEADLOCK FALSE
