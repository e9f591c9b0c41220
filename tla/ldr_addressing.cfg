\* Loads both checkers accept and neither dispatcher performs as written.
SPECIFICATION BothSpec
CONSTANTS
  XBits = 8
  WBits = 4
  RBits = 8
  Memory <- SmallMemory
  RegFiles64 <- TwoRegFiles64
  RegFiles32 <- TwoRegFiles32
  LastPc = 8
  Program64 <- Unscaled64
  Program32 <- Offset1024
PROPERTY
  OneEmulatesNative
CHECK_DEADLOCK FALSE
