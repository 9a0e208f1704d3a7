CONSTANTS
  Operators = {o1, o2}
  MaxBinding = 3
  MaxCommits = 3
  PlanWhileRunning = FALSE
SPECIFICATION Spec
INVARIANT Journaled
PROPERTY HistoryKept
CHECK_DEADLOCK FALSE
