SPECIFICATION Spec
CONSTANTS
    Inode = {1, 2, 3, 4}
    MaxBody = 3
    MaxObject = 2
    MaxTurns = 2
PROPERTIES
    SeenIsKept
    NoBlindOverwrite
    EvictedIsSent
CHECK_DEADLOCK FALSE
