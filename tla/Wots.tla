------------------------------- MODULE Wots -------------------------------
(***************************************************************************)
(* The one-time signature of wots.c and wotsx1.c: a message of N bytes and *)
(* its checksum are written in base W, and each digit says how far along   *)
(* its hash chain the signature is.                                        *)
(***************************************************************************)
EXTENDS SphincsAddress

CONSTANTS
  N,         \* SPX_N
  ByteBits,  \* bits of a byte (8)
  LogW,      \* SPX_WOTS_LOGW
  Len2       \* SPX_WOTS_LEN2, a table in the parameter files

ASSUME WotsAssumption ==
  /\ N \in Nat \ {0} /\ Len2 \in Nat \ {0} /\ ByteBits \in Nat \ {0}
  /\ LogW \in 1..ByteBits /\ ByteBits % LogW = 0
  \* The place in a chain is one byte of the address.
  /\ 2 ^ LogW <= ByteSize

W       == 2 ^ LogW
Len1    == (ByteBits * N) \div LogW
WotsLen     == Len1 + Len2
Byte    == 0..(2 ^ ByteBits - 1)
Message == [0..(N - 1) -> Byte]

\* What the table of SPX_WOTS_LEN2 is made for: the digits hold any checksum.
ASSUME ChecksumAssumption == Len1 * (W - 1) < 2 ^ (LogW * Len2)

\* The digits of the bytes, most significant first.
BaseW(outLen, input) ==
  [i \in 0..(outLen - 1) |->
     LET bit == i * LogW
     IN  (input[bit \div ByteBits] \div 2 ^ (ByteBits - LogW - (bit % ByteBits))) % W]

CsumBytes == (Len2 * LogW + ByteBits - 1) \div ByteBits

BigEndian(n, value) ==
  [b \in 0..(n - 1) |-> (value \div 2 ^ (ByteBits * (n - 1 - b))) % 2 ^ ByteBits]

CsumShift == (ByteBits - ((Len2 * LogW) % ByteBits)) % ByteBits

Checksum(digits) ==
  LET csum[i \in 0..Len1] ==
        IF i = 0 THEN 0 ELSE csum[i - 1] + (W - 1 - digits[i - 1])
  IN  csum[Len1]

\* Mutant of WotsChecksum: the checksum is not moved up to a byte boundary.
WotsChecksumLow(digits) == BaseW(Len2, BigEndian(CsumBytes, Checksum(digits)))

WotsChecksum(digits) ==
  BaseW(Len2, BigEndian(CsumBytes, Checksum(digits) * 2 ^ CsumShift))

ChainLengths(msg) ==
  LET digits == BaseW(Len1, msg)
      csum   == WotsChecksum(digits)
  IN  [i \in 0..(WotsLen - 1) |-> IF i < Len1 THEN digits[i] ELSE csum[i - Len1]]

-----------------------------------------------------------------------------
\* Mutant of GenChain: the address counts the steps from zero.
GenChainFromZero(seed, a, in, start, steps) ==
  LET n == IF start + steps <= W THEN steps ELSE W - start
      value[k \in 0..n] ==
        IF k = 0 THEN in
        ELSE Thash(seed, SetHash(a, k - 1), << value[k - 1] >>)
  IN  value[n]

GenChain(seed, a, in, start, steps) ==
  LET n == IF start + steps <= W THEN steps ELSE W - start
      value[k \in 0..n] ==
        IF k = 0 THEN in
        ELSE Thash(seed, SetHash(a, start + k - 1), << value[k - 1] >>)
  IN  value[n]

\* The secret start of chain i, and its value after so many steps.
ChainStart(seed, a, i) ==
  Prf(seed, SetType(SetHash(SetChain(a, i), 0), "WOTSPRF"))

ChainValue(seed, a, i, steps) ==
  GenChain(seed, SetType(SetHash(SetChain(a, i), 0), "WOTS"),
           ChainStart(seed, a, i), 0, steps)

\* wots_pk_from_sig, chain i.
ChainEnd(seed, a, i, value, length) ==
  GenChain(seed, SetChain(a, i), value, length, W - 1 - length)
=============================================================================
