CONSTANTS
  None = None
  Elements = {area, box, strip}
  AlwaysHover = {area}
  Typing = {box}
  Touchable = {strip}
  Fingers = {f1, f2}
  Buttons = {left}
  Left = left
  Windows = {w1, w2}
  Arrows = {}
  Letters = {a}
  DeadKeys = {acute}
  Modifiers = {shift}
  Nobody = nobody
  MaxKeyEvents = 2
  MaxHandlers = 2
  MaxDown = 2
  Menus = {m1}
  MaxPointerEvents = 2
  Outputs = {o1, o2}
  MaxLockEvents = 2
  MaxCalls = 3
  Cells = {c1, c2}
  Buffers = {0, 1, 2}
SPECIFICATION MCSpec
INVARIANT TapIsCaptured
INVARIANT DragEnds
INVARIANT KeysMatchSeat
INVARIANT RepeatIsHeld
INVARIANT PointerIsOnOpenWindow
INVARIANT BlockedWhilePopupOpen
INVARIANT SurfacesAreAskedToClose
CHECK_DEADLOCK FALSE
INVARIANT RepaintCoversStale
INVARIANT ScreenCatchesUp
