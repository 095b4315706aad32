CONSTANTS
  Callers = {c1, c2}
  Closers = {k1, k2}
  Capacity = 2
  Faults = {"wedge", "panic", "cancel", "close", "force"}
  Shutdown = Shutdown
  Stale = Stale
  None = None
SPECIFICATION FairSpec
INVARIANTS TypeOK CloseOkMeansClosed
PROPERTIES ClaimReleased CallsEnd CloseReturnsUnlessFull
