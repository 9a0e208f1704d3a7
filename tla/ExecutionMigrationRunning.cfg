CONSTANTS
  Operators = {o1, o2}
  MaxBinding = 3
  MaxCommits = 2
  PlanWhileRunning = TRUE
SPECIFICATION Spec
PROPERTY HistoryKept
CHECK_DEADLOCK FALSE
