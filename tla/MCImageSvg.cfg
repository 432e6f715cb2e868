CONSTANTS
  Images = {i1}
  Files = {file}
  Vectors = {svg}
  Icons = {}
  SvgIcons = {}
  Memory = {}
  Broken = {}
  Buffers = {}
  NoBuffer = nobuffer
  MaxSize = 2
  MaxRequests = 2
  EarlyIcons = FALSE
CHECK_DEADLOCK FALSE
SPECIFICATION Spec
INVARIANT KeptPerResolution
