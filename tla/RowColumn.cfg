CONSTANTS
  Containers <- MCContainers
  Authored <- MCAuthored
SPECIFICATION MeasuredSpec
INVARIANTS
  LinesAreFilled
  SizesInBounds
  BoxesApart
  ContentIsHeld
