\* The L1 cache on ARMv8: a section of one or two lines and a load beside it;
\* PRIME and PROBE; loading and removing the module.
SPECIFICATION CachesSpec
CONSTANTS
  CACHE_LINE_SIZE = 64
  l1_sets = 4
  l2_sets = 8
  l1_ways = 4
  l2_ways = 16
  Architecture = "arm64"
  SDATA_LINES = 8
  Tasks <- OneTask
  SB_MAX_PID = 1
  PAGE_SIZE = 128
  Pages <- TwoPages
  Frames = {0, 1, 2}
  Requests <- OneOrTwoLines
  Accesses <- SectionAndOther
  GarbagePas = {0}
  Reclaimable = {}
  ProgramLines = {0}
  PrimeBase = 1024
  CommandThreads = {1, 2}
  BufferWays = 2
INVARIANTS
  SectionResident
  PrimeClears
  ProbeNotices
  CommandsServed
