\* An instrumented program with two threads, one with manual sections, and a
\* program with two threads and calls placed by hand.
SPECIFICATION LibrarySpec
CONSTANTS
  Threads <- TwoThreads
  SB_MAX_PID = 64
  Variables = {v1}
  FlatVariables = {v1, v2}
  Garbage <- ThreePairs
  Attributes <- TwoAttributes
  MaxSections = 1
  ManualAllowed = FALSE
  FileMayFail = TRUE
INVARIANTS
  SectionsProtected
  AttributesRestored
