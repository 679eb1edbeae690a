SPECIFICATION Spec
CONSTANTS
  Keys = {"k1"}
  Rule <- MCRule
  Values = {0, 1, 2, 3}
  BaselineMaxN = 1
  StaleS = 3
  MaxOpenS = 5
  SweepEvery = 2
  WallSteps <- MCBackward
  MaxWallSteps = 1
  MaxMono = 8
  ReopenS = 2
  MaxOpen = 1
  PreMax = 1
  HeadMax = 1
  DuringMax = 2
  PostMax = 1
  Step0 = 1
  StepMax = 2
  Downtimes = {0, 3}
  MaxRestarts = 2
  MaxLost = 1
  Fixed = TRUE
  Absolute = TRUE
  ForS = 1
INVARIANTS
  TypeOK
  MemoryMatchesDisk
  LogAlternates
  WorstIsPeak
  HubAgrees
  EvidencePerTransition
PROPERTIES
  HoldBeforeClose
  DebounceBeforeOpen
