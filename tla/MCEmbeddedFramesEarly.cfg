CONSTANTS
  Surfaces = {s1}
  EarlyRender = TRUE
CHECK_DEADLOCK FALSE
SPECIFICATION Spec
INVARIANT FrameIsComing
