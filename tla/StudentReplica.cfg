CONSTANTS
  Main = main
  Workers = {w1, w2}
  Versions = {v1, v2}
  None = None
  MaxCalls = 6
  Faults = {"raise", "exit", "interrupt"}
SPECIFICATION Spec
INVARIANTS AnswersBelong Acknowledged
CHECK_DEADLOCK FALSE
