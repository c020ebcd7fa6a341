SPECIFICATION WalkSpec
CONSTANTS
  Rows = {1, 2, 3, 4, 5, 6, 7}
  First = {1, 2, 3, 4, 5}
  SameTime <- MCSameTime
  Limit = 2
  PageCap = 5
  Changes = 3
CHECK_DEADLOCK FALSE
INVARIANTS
  OffsetWalkIsExplained
  CursorWalkIsExact
PROPERTIES
  WalkEnds
