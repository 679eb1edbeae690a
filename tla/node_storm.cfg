SPECIFICATION Spec
CONSTANTS
  Keys = {k1, k2}
  Rule <- MCRule
  Values = {0, 2}
  BaselineMaxN = 1
  StaleS = 2
  MaxOpenS = 2
  SweepEvery = 2
  WallSteps = {}
  MaxWallSteps = 0
  MaxMono = 6
  ReopenS = 3
  MaxOpen = 1
  PreMax = 1
  HeadMax = 1
  DuringMax = 2
  PostMax = 1
  Step0 = 1
  StepMax = 2
  Downtimes = {0, 3}
  MaxRestarts = 0
  MaxLost = 1
  Fixed = FALSE
  Absolute = FALSE
  ForS = 1
  k1 = k1
  k2 = k2
SYMMETRY Symmetry
INVARIANTS
  LogMatchesState
