SPECIFICATION VsSpec
CONSTANTS
  k1 = k1
  k2 = k2
  v1 = v1
  v2 = v2
  r1 = r1
  r2 = r2
  c1 = c1
  Keys <- OneKey
  Values = {v1}
  Tomb = Tomb
  Absent = Absent
  EmptyKey = NoKey
  Worker = Worker
  None = None
  Readers = {}
  Callers = {c1}
  Tables <- FullTables
  CompactionThreshold = 2
  MaxFlushes = 3
  Faults = {"compact"}
PROPERTY NewFilesRetained
CHECK_DEADLOCK FALSE
