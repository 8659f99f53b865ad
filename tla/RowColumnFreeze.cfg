CONSTANTS
  Containers <- MCContainers
  Authored <- MCAuthored
SPECIFICATION MeasuredSpec
INVARIANT FreezingEnds
