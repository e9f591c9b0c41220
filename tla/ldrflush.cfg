\* The table lookups compilers write, on both architectures.
SPECIFICATION Spec
CONSTANTS
  XBits = 8
  WBits = 4
  RBits = 8
  Memory <- SmallMemory
  RegFiles64 <- TwoRegFiles64
  RegFiles32 <- TwoRegFiles32
  LastPc = 8
  Program64 <- Lookups64
  Program32 <- Lookups32
INVARIANTS
  RewrittenDecodes
  RewriterAgrees
PROPERTY
  EmulatesNative
CHECK_DEADLOCK FALSE
