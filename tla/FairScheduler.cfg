CONSTANTS
  Experiments = 2
  Callers <- TwoAndOne
  MaxActive = 2
  PerRun = 1
  MaxQueued = 2
SPECIFICATION MCSpec
INVARIANTS GenerationPassedTwice NoLostWakeUp
PROPERTIES Promise Served CloseEnds
CHECK_DEADLOCK FALSE
