SPECIFICATION Spec
CONSTANTS
  Uids = {"u1", "u2"}
  Nodes = {"n1"}
  NodeOf <- MCNodeOf
  Severity <- MCSeverity
  MinSeverity = 2
  StaleS = 1
  RenotifyS = 3
  NotifyResolved = TRUE
  Mutes <- MCMutes
  SlowS = 1
  MaxFaults = 1
INVARIANTS
  AlertsTypeOK
  StampedIsTold
  ToldMatchesState
PROPERTIES
  QuietBetweenPages
  FiringIsPaged
  TrackingFollows
