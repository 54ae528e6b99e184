SPECIFICATION ContentLiveSpec
CONSTANTS
    Object = {o1, o2}
    Hashed = {o1}
    None = None
    Stride = 2
    Size = 3
    Longer = 3
    MaxVersion = 3
    Depth = 1
    MaxRetries = 1
    Budget = 2
    MaxCalls = 3
INVARIANTS
    DeliversExactly
    LedgerIsOfTheWalk
PROPERTIES
    FetchReturns
CHECK_DEADLOCK FALSE
