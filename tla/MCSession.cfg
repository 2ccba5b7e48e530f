SPECIFICATION SesSpec
CONSTANTS
  c1 = c1
  c2 = c2
  Keys = {1, 2}
  Values = {v1, huge}
  Tomb = Tomb
  Absent = Absent
  None = None
  Clients = {c1, c2}
  Oversize = {huge}
  NotFoundLen = 9
  CountMod = 4
  Timeouts = TRUE
  EngineFaults = TRUE
  MaxCalls = 2
INVARIANTS SesInv ResultsInWindow MutationsInOrder
PROPERTY CleanCallsReturn
CHECK_DEADLOCK FALSE
