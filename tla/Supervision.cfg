SPECIFICATION Spec
CONSTANTS
  Readers = {r1, r2, r3}
  Fds = {f1, f2}
  NoFd = NoFd
  BufferEvents = 2
INVARIANTS
    StrandedAreBatchMates
PROPERTIES
    FailsClosed
    EveryReaderReleased
    TakeoverEnds
CHECK_DEADLOCK FALSE
