SPECIFICATION FairSpec
CONSTANTS
  BlockBytes = 8
  LenBytes = 2
  WordBytes = 2
  RoundCounts = {5, 8}
  Id = {1, 2}
  MsgByte <- MCMsgByte
  MaxCnt = 14
  MaxLen = 14
  MaxOutstanding = 2
INVARIANTS
  TypeOK
  ResultIsTheHash
PROPERTIES
  NeverDropsAByte
  ResultComes
