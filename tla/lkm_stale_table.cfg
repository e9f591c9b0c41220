\* Entries of an earlier section are still in the L2 table.
SPECIFICATION Spec
CONSTANTS
  CACHE_LINE_SIZE = 2
  l1_sets = 2
  l2_sets = 4
  SDATA_LINES = 4
  Tasks <- TwoRows
  SB_MAX_PID = 2
  PAGE_SIZE = 4
  Pages <- OnePage
  Frames = {0, 1}
  Requests <- OnePageRequests
  Accesses <- OnePageAccesses
  GarbagePas = {0, 5}
  Reclaimable = {}
INVARIANT
  RefillFromSection
