CONSTANTS
  Width = 5
  Length <- MCLength
  Spots <- MCSpots
  Animated <- MCAnimated
  Duration = 2
  MaxChanges = 3
  Texts = {"a", "b"}
  Colors = {"red", "blue"}
  Scales = {1, 2}
  Widths = {1, 2}
  LinksOf <- MCLinksOf
  Nothing = Nothing
  MaxTextChanges = 2
  Surfaces = {s1, s2}
  EarlyRender = FALSE
SPECIFICATION MCSpec
INVARIANT GlobalsOutliveFrames
PROPERTY NoGhosts
PROPERTY ScreenSettles
PROPERTY TextSettles
PROPERTY ChangesAreShown
CHECK_DEADLOCK FALSE
