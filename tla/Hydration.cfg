SPECIFICATION Spec
CONSTANTS
  N = 2
  Readahead = 2
  Procs = {p1, p2}
  NoProc = NoProc
  NodumpCanFail = FALSE
  MaxJobs = 2
INVARIANTS
    UnmarkedIsWhole
    CountedIsPresent
    NoGhostAfterMark
PROPERTIES
    ImplementsPromise
    EveryAccessAnswered
