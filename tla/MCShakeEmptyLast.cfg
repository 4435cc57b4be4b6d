SPECIFICATION FairSpec
CONSTANTS
  Mode = {shake256, sha3}
  shake256 = shake256
  sha3 = sha3
  XofMode = {shake256}
  ResetMode = shake256
  RateWords <- MCRateWords
  BufWords = 3
  Rounds = 5
  Data = {1, 2, 3, 4}
  ByteCount = {0, 3, 8}
  MaxFull = 3
  MaxOutputs = 2
  LastBytes = {0, 8}
  MinGap = 3
INVARIANTS
  AbsorbsPaddedMessage
