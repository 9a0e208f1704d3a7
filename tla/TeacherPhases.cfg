CONSTANTS
  Runs = {r1, r2}
  Slots = {s1, s2}
  MaxRounds = 1
  MaxStarts = 2
  Faults = {"stop", "rerun"}
  Slot = s
SPECIFICATION MCSpec
SYMMETRY Symmetry
INVARIANTS WorkMatchesPhase StoppedWhenUnused InStep CalmNeverAborted
PROPERTY FailClosed
CHECK_DEADLOCK FALSE
