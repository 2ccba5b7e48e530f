SPECIFICATION SkFairSpec
CONSTANTS
  w1 = w1
  w2 = w2
  r1 = r1
  Keys = {1, 2, 3}
  Values = {v1}
  Tomb = Tomb
  Absent = Absent
  None = None
  Writers = {w1, w2}
  Readers = {r1}
  MaxKey = 3
  MaxLevel = 2
  MaxPuts = 2
  Starts <- TwoStarts
  Ranges <- TwoRanges
INVARIANTS SkInv ReadsInWindow
PROPERTIES ImplementsFreezableTable ReadsAreWaitFree
CHECK_DEADLOCK FALSE
