SPECIFICATION RotFairSpec
CONSTANTS
  w1 = w1
  w2 = w2
  Keys = {k1, k2}
  Values = {v1}
  Tomb = Tomb
  Absent = Absent
  None = None
  Writers = {w1, w2}
  Closer = Closer
  FlushThreshold = 2
  MaxPuts = 4
  AllowClose = TRUE
  FlushMayFail = TRUE
  Unreadable = Unreadable
  CloseWhileWriting = FALSE
INVARIANTS RotInv SendNeverBlocks PendingIsImmutable CloseFlushesAll
PROPERTIES ImplementsKV PutsReturn ImmutableClears CloseReturns
CHECK_DEADLOCK FALSE
