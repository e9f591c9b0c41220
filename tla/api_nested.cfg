\* An instrumented function that calls another one.
SPECIFICATION Spec
CONSTANTS
  Threads <- OneThread
  SB_MAX_PID = 64
  Variables = {v1, v2}
  Attributes <- TwoAttributes
  MaxSections = 2
  ManualAllowed = FALSE
  FileMayFail = FALSE
INVARIANT
  SectionProtected
