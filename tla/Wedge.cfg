SPECIFICATION BusySpec
CONSTANTS
  WedgedAfter = 2
  Chunks = 2
  ReplyCap = 1
  Tries = 2
  MaxQueue = 2
INVARIANTS
    NeverWaitsForNothing
PROPERTIES
    Recovers
    ComesDown
