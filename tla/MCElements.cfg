CONSTANTS
  TreeElements = {"root", "a", "b", "c"}
  Root = "root"
  AutoSized = {"a"}
  Slots <- MCSlots
  Followed = {"c"}
  Numbers <- MCNumbers
  Points <- MCPoints
  TrackWidth = 4
  Labels <- MCLabels
  HasPopups = TRUE
  MaxPopups = 2
  Boxes = {"a", "b", "c"}
  Radios = {"a", "b"}
SPECIFICATION MCSpec
INVARIANT ChangeIsCovered
INVARIANT ControlsShowState
PROPERTY ChangeIsLaidOut
PROPERTY ChoiceIsTaken
PROPERTY RadioTakesOver
