SPECIFICATION Spec
CONSTANTS
  Heights = {1, 2, 3, 4}
  Trees = 3
  NoLeaf = 65535
INVARIANTS
  StackHoldsTheTree
  PathVerifies
PROPERTIES
  ReturnsTheRoot
CHECK_DEADLOCK FALSE
