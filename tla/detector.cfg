SPECIFICATION DSpec
CONSTANTS
  Keys = {"k1"}
  Rule <- MCRule
  Values = {0, 1, 2, 3}
  BaselineMaxN = 2
  StaleS = 3
  MaxOpenS = 5
  SweepEvery = 2
  WallSteps <- MCForward
  MaxWallSteps = 1
  MaxMono = 10
  Fixed = TRUE
  Absolute = TRUE
INVARIANTS
  SilentSignalIsRetired
  NothingStaysOpen
PROPERTIES
  BaselineLearnsOnlyHealth
