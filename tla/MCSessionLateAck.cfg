SPECIFICATION SesSpec
CONSTANTS
  c1 = c1
  c2 = c2
  Keys = {1}
  Values = {v1}
  Tomb = Tomb
  Absent = Absent
  None = None
  Clients = {c1}
  Oversize = {}
  NotFoundLen = 9
  CountMod = 4
  Timeouts = TRUE
  EngineFaults = FALSE
  MaxCalls = 2
INVARIANT AckFollowsMutation
CHECK_DEADLOCK FALSE
