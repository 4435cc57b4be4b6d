SPECIFICATION MCSpec
CONSTANTS
  Mode = {shake256, sha3}
  shake256 = shake256
  sha3 = sha3
  XofMode = {shake256}
  ResetMode = shake256
  RateWords <- MCRateWords
  BufWords = 3
  Rounds = 4
  Data = {d}
  d = d
  ByteCount = {0, 3, 8}
  MaxAbsorbed = 2
INVARIANTS
  TypeOK
  CounterBelowRate
  RoundsComplete
  PulseShowsWholeBlock
CHECK_DEADLOCK FALSE
