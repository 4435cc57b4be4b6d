SPECIFICATION Spec
CONSTANTS
  N = 1
  ByteBits = 4
  LogW = 2
  Len2 = 2
  K = 2
  A = 1
  D = 3
  H = 1
  Keys = {"k1", "k2"}
  Msgs = {"m1", "m2"}
  Digests <- MCDigests
  BytesOf <- MCBytesOf
  MaxCalls = 2
INVARIANTS
  OpensUnderItsKey
  OneTimeKeysSignOnce
  SecretsStayApart
  AddressesUsedOnce
