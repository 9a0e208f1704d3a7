CONSTANTS
  Readers = {r1, r2}
  Writers = {w1, w2}
  Nobody = Nobody
SPECIFICATION FairSpec
INVARIANTS Exclusion MemoryExclusion
PROPERTIES WriterPriority Served
