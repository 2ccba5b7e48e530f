SPECIFICATION WalSpec
CONSTANTS
  w1 = w1
  w2 = w2
  Keys = {k1}
  Values = {v1}
  Tomb = Tomb
  Absent = Absent
  None = None
  Torn = Torn
  Writers = {w1}
  BufCap = 2
  PowerLoss = FALSE
  DiskFaults = FALSE
  AllowClose = FALSE
  MaxPuts = 2
  MaxCrashes = 1
INVARIANT AcknowledgedSurvive
CHECK_DEADLOCK FALSE
