SPECIFICATION LiveSpec
CONSTANTS
  File = {f1, f2}
  NoLink = NoLink
  NoCursor = NoCursor
  BlastLimit = 1
  MaxOps = 3
  MaxTroubles = 2
INVARIANTS
    TokenNotAhead
    NoGhost
PROPERTIES
    Converges
