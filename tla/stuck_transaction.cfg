SPECIFICATION LongSpec
CONSTANTS
  Configs <- MCDefault
  Facts = {"a"}
  NoFact = "none"
  MaxOom = 0
  ExcerptCap = 1
  Always = FALSE
  MaxLines = 1
  MaxFaults = 0
PROPERTIES
  HeartbeatResumes
