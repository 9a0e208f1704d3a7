CONSTANTS
  Target = 2
  MaxBatches = 2
  Slots = 1
  MaxRuns = 3
  Diagnosed = {0}
  Failures = {"stop", "power"}
SPECIFICATION TelemetrySpec
INVARIANTS ReplayAgrees
CHECK_DEADLOCK FALSE
