SPECIFICATION FairSpec
CONSTANTS
  Labels = {"a", "b", "x"}
  Malformed = {"x"}
  Configs <- MCConfigs
  Threshold = 2
  Unsteady = {"b"}
  MaxConns = 1
  MaxEdits = 2
  Cycle = 6
INVARIANTS ConfigApplied FairShares HealthIsRecentOutcome
PROPERTIES RemovedWhenIdle NeverToRetired HealthConverges
CHECK_DEADLOCK FALSE
