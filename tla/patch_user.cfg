\* Two threads patch ranges that share a page while pages are unmapped and moved.
SPECIFICATION FairSpec
CONSTANTS
  Patchers <- TwoPatchers
  WORDS_PER_PAGE = 2
  TextPages = {0, 1}
  Loads = {0, 1, 2}
  Ranges <- OverlappingRanges
  Frames = {0, 1, 2, 3}
  TextHome <- InOrder
  MaxMoves = 1
INVARIANTS
  TypeOK
  RefsBalanced
  PatchedExactly
PROPERTY
  CallReturns
CHECK_DEADLOCK FALSE
