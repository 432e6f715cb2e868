CONSTANTS
  Images = {i1}
  Files = {file}
  Vectors = {}
  Icons = {}
  SvgIcons = {}
  Memory = {bytes1, bytes2}
  Broken = {}
  Buffers = {buffer1}
  NoBuffer = nobuffer
  MaxSize = 1
  MaxRequests = 2
  EarlyIcons = FALSE
CHECK_DEADLOCK FALSE
SPECIFICATION Spec
INVARIANT OnlyNewestShown
