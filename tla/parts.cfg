SPECIFICATION PartsSpec
CONSTANTS
  Configs <- MCConfigs
  Facts = {"a", "b"}
  NoFact = "none"
  MaxOom = 1
  ExcerptCap = 1
  Always = FALSE
  MaxLines = 4
  MaxFaults = 1
  Signals = {"s1", "s2", "s3"}
  MaxSignals = 2
  RingSize = 3
  MaxFeeds = 6
  WarnEvery = 2
  Now0 = 0
  MaxNow = 2
  Slots = {1, 2, 3}
  Routes = {"fleet", "logs"}
  Ttl <- MCTtl
  CacheMax = 1
  QueryS = 1
  MaxVersion = 1
  MaxClock = 3
  MaxBack = 1
  MaxRequests = 4
  MaxErrors = 1
  Incidents = {"u1", "u2"}
  Hosts = {"n1"}
  HostOf <- MCHostOf
  SevOf <- MCSevOf
  Lives <- MCLives
  Ages <- MCAges
  Until = 4
  HourS = 2
  BeatS = 1
  StaleAfter = 2
  DeadAfter = 4
  Moments = {0, 1, 2, 3, 4}
  WindowS = 1
  MaxSpans = 3
INVARIANTS
  CacheTypeOK
  EdgesMatchDisk
  OpenOnlyAfterFailure
  FactsMatchDisk
  ExcerptsAreExact
  EvidenceSplitsAtOnset
  SingleFlight
  AnswersGoForward
  AnswersAreFresh
  LocksBounded
  ViewsAgree
  DensityIsTrue
  ClustersAreComponents
PROPERTIES
  RingIsWindow
CHECK_DEADLOCK FALSE
