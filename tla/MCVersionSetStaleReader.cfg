SPECIFICATION VsSpec
CONSTANTS
  k1 = k1
  k2 = k2
  v1 = v1
  v2 = v2
  r1 = r1
  r2 = r2
  c1 = c1
  Keys <- OneKey
  Values = {v1}
  Tomb = Tomb
  Absent = Absent
  EmptyKey = NoKey
  Worker = Worker
  None = None
  Readers = {r1}
  Callers = {}
  Tables <- FullTables
  CompactionThreshold = 2
  MaxFlushes = 2
  Faults = {}
INVARIANT NoReadError
CHECK_DEADLOCK FALSE
