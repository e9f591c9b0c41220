\* Two threads of one process, on rows of their own; pages stay where they are once
\* mapped, and are the same memory for both threads.
SPECIFICATION ProcessSpec
CONSTANTS
  CACHE_LINE_SIZE = 2
  l1_sets = 2
  l2_sets = 4
  SDATA_LINES = 4
  Tasks <- TwoRows
  SB_MAX_PID = 2
  PAGE_SIZE = 2
  Pages <- TwoPages
  Frames = {1, 2}
  Requests <- LinePageRequests
  Accesses <- LinePageAccesses
  GarbagePas = {5}
  Reclaimable = {}
INVARIANTS
  TypeOK
  OpenOwnsRegion
  SectionPreloaded
  SectionCovered
  RefillSameSet
PROPERTY
  RegistrySpec
