SPECIFICATION FairSpec
CONSTANTS
  Mode = {shake256, sha3}
  shake256 = shake256
  sha3 = sha3
  XofMode = {shake256}
  ResetMode = shake256
  RateWords <- MCRateWords
  BufWords = 3
  Rounds = 5
  Data = {1, 2, 3, 4, 5, 6}
  ByteCount = {0, 3, 8}
  MaxFull = 5
  MaxOutputs = 2
  LastBytes = {3, 8}
  MinGap = 3
INVARIANTS
  AbsorbsPaddedMessage
  PulseAfterWholeMessage
  NeverDropsAWord
PROPERTIES
  ImplementsSponge
  DigestComes
