SPECIFICATION LiveSpec
CONSTANTS
    MaxAttempts = 2
    MaxFaults = 2
    MaxStalls = 2
    Headroom = 1
    MaxSaves = 2
    MaxRemote = 1
INVARIANTS
    CleanIsThere
PROPERTIES
    ReplacesOnlyItsBase
    DeletesOnlyWhatItSaw
    UploadReturns
CHECK_DEADLOCK FALSE
