SPECIFICATION RotSpec
CONSTANTS
  w1 = w1
  w2 = w2
  Keys = {k1}
  Values = {v1}
  Tomb = Tomb
  Absent = Absent
  None = None
  Writers = {w1}
  Closer = Closer
  FlushThreshold = 1
  MaxPuts = 2
  AllowClose = TRUE
  FlushMayFail = FALSE
  Unreadable = Unreadable
  CloseWhileWriting = TRUE
INVARIANT NoPanic
CHECK_DEADLOCK FALSE
