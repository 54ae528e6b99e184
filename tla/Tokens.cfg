SPECIFICATION Spec
CONSTANTS
    Caller = {c1, c2}
    None = None
    MaxRejections = 2
    MaxBackoff = 2
    Lifetime = 1
    MaxTime = 3
    MaxIssued = 3
    MaxCalls = 4
    MaxCrashes = 1
INVARIANTS
    CredentialIsKnown
PROPERTIES
    AsksAreSpared
CHECK_DEADLOCK FALSE
