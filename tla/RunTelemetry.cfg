CONSTANTS
  Target = 2
  MaxBatches = 2
  Slots = 1
  MaxRuns = 3
  Diagnosed = {0}
  Failures = {"stop", "power"}
SPECIFICATION TelemetryFairSpec
INVARIANTS LogMatchesLedger CloudFollowsLog ReplayAgreesUnlessOutage NothingUnpublished OncePerKey
PROPERTY EndsPublished
CHECK_DEADLOCK FALSE
