SPECIFICATION Spec
CONSTANTS
  Rate = 4
  Chunk = {0, 1, 2, 3, 4, 5, 9}
  MaxMessage = 12
  MaxOutput = 12
INVARIANTS
  CountBelowRate
  AbsorbsAsOneShot
  SqueezesAsOneShot
