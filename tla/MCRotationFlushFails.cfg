SPECIFICATION RotSpec
CONSTANTS
  w1 = w1
  w2 = w2
  Keys = {k1}
  Values = {v1}
  Tomb = Tomb
  Absent = Absent
  None = None
  Writers = {w1}
  Closer = Closer
  FlushThreshold = 1
  MaxPuts = 2
  AllowClose = TRUE
  FlushMayFail = TRUE
  Unreadable = Unreadable
  CloseWhileWriting = FALSE
INVARIANT ClosePersists
CHECK_DEADLOCK FALSE
