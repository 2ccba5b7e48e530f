SPECIFICATION SrvSpec
CONSTANTS
  embedder = embedder
  c1 = c1
  c2 = c2
  Signal = Signal
  Embedders = {embedder}
  Conns = {c1, c2}
  MaxDatagrams = 2
  None = None
INVARIANTS SrvInv NoTelemetryAfterStop
PROPERTY StopsReturn
CHECK_DEADLOCK FALSE
