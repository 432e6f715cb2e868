CONSTANTS
  Images = {i1, i2}
  Files = {file}
  Vectors = {svg}
  Icons = {icon}
  SvgIcons = {icon}
  Memory = {}
  Broken = {file}
  Buffers = {}
  NoBuffer = nobuffer
  MaxSize = 2
  MaxRequests = 2
  EarlyIcons = FALSE
CHECK_DEADLOCK FALSE
SYMMETRY Symmetry
SPECIFICATION Spec
INVARIANT OnlyNewestShown
INVARIANT ImageIsComing
