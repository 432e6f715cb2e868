CONSTANTS
  MaxBytes = 3
  Typed <- MCTyped
  Preedits <- MCPreedits
  Pasted <- MCPasted
  AppTexts <- MCAppTexts
  Kinds <- MCKinds
  Widths = {2, 7}
  Gap = 1
  MaxChildren = 3
  Views = {1, 10}
  Contents = {0, 25}
  Deltas = {15}
  StripPoints = {3, 8}
SPECIFICATION MCSpec
INVARIANT EditingInBounds
INVARIANT CursorOnCharacter
INVARIANT EditsAreReported
INVARIANT WalksCountCharacters
PROPERTY SelectionSpansAnchor
INVARIANT RoomMeansShown
INVARIANT ScrollWithinContent
PROPERTY ThumbFollowsPointer
