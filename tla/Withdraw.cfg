SPECIFICATION Spec
CONSTANTS
    Folder = {1, 2}
    File = {1, 2}
    Name = {"d", "e"}
    FileName = "a"
    Patient = TRUE
    MaxOps = 2
    MaxLost = 1
    Floor = 1
    Ratio = 2
    Busy = FALSE
    MaxTroubles = 1
INVARIANTS
    Complete
    FolderCreatedOnce
PROPERTIES
    WithdrawnIsNotHere
    RemovedIsNotHere
CHECK_DEADLOCK FALSE
