SPECIFICATION Spec
CONSTANTS
  Id = {r, a, b, c}
  Top = r
  NoOne = NoOne
  good = good
  dot = dot
  Name <- MCName
  BadName <- MCBadName
  Tag = {t}
  Looks <- MCLooks
  Source = {"ctag", "hash"}
  Conventional = "ctag"
  Offers <- MCOffers
  MaxDepth = 3
  BlastLimit = 1
  MinItems = 3
  MaxPage = 2
  MaxOps = 2
SYMMETRY Symmetry
INVARIANTS
    TreeSound
    TreeFollowsDrive
    MirrorAgrees
CHECK_DEADLOCK FALSE
