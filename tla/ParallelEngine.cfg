CONSTANTS
  Slots = {s1, s2}
  BatchSize = 2
  TeacherSlots = 1
  MaxBatches = 2
  MaxSends = 3
  Faults = {"execute", "timeout", "sync", "collector", "run"}
SPECIFICATION FairSpec
INVARIANTS ModelUndisturbed ReceiptsTrue OnPolicy
PROPERTIES ScoresFirst RunEnds
CHECK_DEADLOCK FALSE
