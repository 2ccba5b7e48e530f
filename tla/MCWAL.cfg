SPECIFICATION WalFairSpec
CONSTANTS
  w1 = w1
  w2 = w2
  Keys = {k1, k2}
  Values = {v1}
  Tomb = Tomb
  Absent = Absent
  None = None
  Torn = Torn
  Writers = {w1, w2}
  BufCap = 1
  PowerLoss = TRUE
  DiskFaults = TRUE
  AllowClose = TRUE
  MaxPuts = 2
  MaxCrashes = 2
INVARIANTS WalTypeOK ReplayRebuildsMemTable CloseIsDurable
PROPERTIES DurableStaysRecoverable EventuallySynced
CHECK_DEADLOCK FALSE
