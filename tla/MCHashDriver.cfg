SPECIFICATION FairSpec
CONSTANTS
  RegCount = 4
  DigestWords <- MCDigestWords
  WordBytes = 2
  Byte <- MCByte
  MaxBlocks = 2
  Name = {1, 2}
  MaxLen = 3
  OutLen = {2}
  MinGap = 2
  Prompt = TRUE
INVARIANTS
  RegistersHoldTheDigest
  ShakeReturnsDigest
  NoTimeOut
PROPERTIES
  CallReturns
