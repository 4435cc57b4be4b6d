SPECIFICATION Spec
CONSTANTS
  Block = 8
  LenField = 2
  Output = 4
  N = 2
  AddrBytes = 3
  MLens = {0, 1, 2, 3, 4, 5, 6, 7, 8, 9, 10, 11, 12, 13, 14, 15, 16, 17, 18, 19}
  InBlocks = {1, 2, 3, 4}
  DgstBytes = {3, 4, 5, 8}
INVARIANTS
  ReturnsThePromised
  CountsItsBlocks
