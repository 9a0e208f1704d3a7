CONSTANTS
  Runs = {r1, r2}
  Slots = {s1}
  MaxRounds = 2
  MaxStarts = 1
  Faults = {"refused", "load", "backend", "fail", "shutdown", "timeout"}
  MoreSlots = {s1, s2}
SPECIFICATION MCSpec
INVARIANT BackendMatchesPhase
PROPERTIES SwitchDisturbsNobody FailClosed EndUnlessKilled
CHECK_DEADLOCK FALSE
