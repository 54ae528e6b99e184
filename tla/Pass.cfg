SPECIFICATION PassSpec
CONSTANTS
  Id = {a, b, c}
  NoOne = NoOne
  Seg = {1, 2}
  Version = {t}
  MinItems = 2
  MaxChanged = 2
  MaxRounds = 1
  MaxLocal = 1
SYMMETRY Symmetry
INVARIANTS
    KeepsWork
    OneClaimant
    SkipsNothing
CHECK_DEADLOCK FALSE
