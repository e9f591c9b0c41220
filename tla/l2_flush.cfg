\* The L1 cache on ARMv7.
SPECIFICATION CacheSpec
CONSTANTS
  CACHE_LINE_SIZE = 64
  l1_sets = 4
  l2_sets = 8
  l1_ways = 4
  l2_ways = 16
  Architecture = "arm"
  SDATA_LINES = 8
  Tasks <- OneTask
  SB_MAX_PID = 1
  PAGE_SIZE = 128
  Pages <- TwoPages
  Frames = {0, 1, 2}
  Requests <- OneOrTwoLines
  Accesses <- SectionAndOther
  GarbagePas = {0}
  Reclaimable = {}
INVARIANT
  SectionResident
