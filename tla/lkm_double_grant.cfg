\* Two threads on one row register at the same time.
SPECIFICATION Spec
CONSTANTS
  CACHE_LINE_SIZE = 2
  l1_sets = 2
  PAGE_SIZE = 4
  l2_sets = 2
  SDATA_LINES = 2
  Tasks <- Colliding
  SB_MAX_PID = 1
  Pages <- OnePage
  Frames = {0, 1}
  Requests <- OneRequest
  Accesses <- OneAccess
  GarbagePas = {0}
  Reclaimable = {}
INVARIANT
  NoDuplicateGrant
