SPECIFICATION WotsSpec
CONSTANTS
  N = 2
  ByteBits = 4
  LogW = 2
  Len2 = 3
  Leaves = {1, 2}
INVARIANTS
  PkFromSigIsPk
  ChecksumDominates
CHECK_DEADLOCK FALSE
