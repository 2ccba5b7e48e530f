SPECIFICATION DbSpec
CONSTANTS
  k1 = k1
  k2 = k2
  v1 = v1
  v2 = v2
  w1 = w1
  w2 = w2
  r1 = r1
  Keys = {k1, k2}
  Values = {v1}
  Tomb = Tomb
  Absent = Absent
  None = None
  Writers = {w1}
  Closer = Closer
  FlushThreshold = 1
  MaxPuts = 3
  AllowClose = FALSE
  FlushMayFail = FALSE
  Unreadable = Unreadable
  CloseWhileWriting = FALSE
  Readers = {r1}
  Callers = {}
  EmptyKey = NoKey
  Worker = Worker
  Tables <- Table
  CompactionThreshold = 2
  MaxFlushes = 3
  Faults = {}
INVARIANTS ReadInWindow BaseIsManifest
CHECK_DEADLOCK FALSE
