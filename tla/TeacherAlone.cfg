CONSTANTS
  Runs = {r1, r2}
  Slots = {s1}
  MaxRounds = 1
  MaxStarts = 2
  Faults = {"timeout", "backend", "stop", "shutdown"}
SPECIFICATION Spec
PROPERTY EndsAlone
CHECK_DEADLOCK FALSE
