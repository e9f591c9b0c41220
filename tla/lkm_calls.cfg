\* Two threads whose ids fall on the same row of the tables; their page comes and
\* goes.
SPECIFICATION CallsSpec
CONSTANTS
  CACHE_LINE_SIZE = 2
  l1_sets = 2
  PAGE_SIZE = 4
  l2_sets = 2
  SDATA_LINES = 2
  Tasks <- Colliding
  SB_MAX_PID = 1
  Pages <- OnePage
  Frames = {0}
  Requests <- OneLineRequest
  Accesses <- OneAccess
  GarbagePas = {0}
  Reclaimable <- OnePage
PROPERTY
  CallsReturn
