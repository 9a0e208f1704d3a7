CONSTANTS
  Target = 3
  MaxBatches = 3
  Slots = 2
  MaxRuns = 3
SPECIFICATION FairSpec
INVARIANTS Recoverable CommittedIsDurable NeverRefused SnapshotChain
PROPERTIES Promise EndsWhenResumed
CHECK_DEADLOCK FALSE
