CONSTANTS
  Kinds = {"toplevel", "layer", "lock"}
  Sizes = {20}
  Preferred = 10
  MinSize = 0
  Requests = {20}
  Contents = {10}
  Modes = {"free", "fullscreen"}
  EarlyResize = FALSE
  MaxOpens = 2
  MaxQueue = 1
  MaxCloses = 1
CHECK_DEADLOCK FALSE
SPECIFICATION FairSpec
INVARIANT BufferOnlyAfterAck
INVARIANT NoLostFrame
PROPERTY DamageReachesScreen
PROPERTY FirstCloseReported
