CONSTANTS
  Kinds = {"layer"}
  Sizes = {20}
  Preferred = 10
  MinSize = 0
  Requests = {10}
  Contents = {}
  Modes = {"free"}
  EarlyResize = TRUE
  MaxOpens = 1
  MaxQueue = 1
  MaxCloses = 0
CHECK_DEADLOCK FALSE
SPECIFICATION Spec
INVARIANT BufferOnlyAfterAck
