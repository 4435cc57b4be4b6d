------------------------- MODULE SoftSpongeProofs -------------------------
(***************************************************************************)
(* The incremental sponge agrees with the one-shot one for every rate,     *)
(* every message and every way to cut it and its output into calls.        *)
(***************************************************************************)
EXTENDS SoftSponge, TLAPS

\* The part of a block that has been XORed into the state.
Partial(b, f) ==
  [p \in Pos |-> IF p < f THEN {MsgByte(b * Rate + p)} ELSE {}]

\* While absorbing: whole blocks of the message, then the front of the next.
AbsorbInv ==
  /\ out = << >>
  /\ taken = Len(blocks) * Rate + count
  /\ cur = Partial(Len(blocks), count)
  /\ \A b \in 1..Len(blocks) : blocks[b] = FullBlock(b)

Full == taken \div Rate
Rest == taken % Rate

\* While squeezing: the padded message, zeros after it, and as many output
\* bytes as the permutations gave, less those still in the state.
SqueezeInv ==
  /\ Len(blocks) >= Full
  /\ Len(out) + count = (Len(blocks) - Full) * Rate
  /\ busy /\ left > 0 => count = 0
  /\ cur = IF Len(blocks) = Full THEN LastBlock(Full, Rest) ELSE ZeroBlock
  /\ \A b \in 1..Len(blocks) :
       blocks[b] = IF b <= Full THEN FullBlock(b)
                   ELSE IF b = Full + 1 THEN LastBlock(Full, Rest)
                   ELSE ZeroBlock
  /\ \A j \in 1..Len(out) :
       out[j] = OutByte(Full + 1 + (j - 1) \div Rate, (j - 1) % Rate)

\* The inductive invariant.
SpongeInv ==
  /\ TypeOK /\ CountBelowRate
  /\ phase = "absorbing" => AbsorbInv
  /\ phase = "squeezing" => SqueezeInv

-----------------------------------------------------------------------------
(* Division by the rate *)

LEMMA MulMono ==
  ASSUME NEW r \in Nat, NEW a \in Int, NEW b \in Int, a < b
  PROVE  a * r + r <= b * r
<1>1. PICK d \in Nat : b = a + 1 + d  BY SMT
<1>2. b * r = a * r + r + d * r  BY <1>1, SMT
<1>3. d * r >= 0  BY SMT
<1>4. a * r \in Int /\ b * r \in Int /\ d * r \in Int  BY SMT
<1>. QED  BY <1>2, <1>3, <1>4, SMT

LEMMA DivMod ==
  ASSUME NEW r \in Nat \ {0}, NEW q \in Nat, NEW f \in 0..(r - 1)
  PROVE  (q * r + f) \div r = q /\ (q * r + f) % r = f
<1>. DEFINE n == q * r + f
            d == n \div r
            m == n % r
<1>1. n \in Nat  BY SMT
<1>2. d \in Int /\ m \in 0..(r - 1)  BY <1>1, SMT
<1>3. n = d * r + m  BY <1>1, SMT
<1>4. d * r \in Int /\ q * r \in Int  BY <1>2, SMT
<1>. HIDE DEF n, d, m
<1>5. n = q * r + f  BY DEF n
<1>6. ~(d < q)
  <2>1. d < q => d * r + r <= q * r  BY <1>2, MulMono
  <2>. QED  BY <2>1, <1>2, <1>3, <1>4, <1>5, SMT
<1>7. ~(q < d)
  <2>1. q < d => q * r + r <= d * r  BY <1>2, MulMono
  <2>. QED  BY <2>1, <1>2, <1>3, <1>4, <1>5, SMT
<1>8. d = q  BY <1>6, <1>7, <1>2, SMT
<1>9. m = f  BY <1>8, <1>2, <1>3, <1>4, <1>5, SMT
<1>. QED  BY <1>8, <1>9 DEF d, m, n

LEMMA DivType ==
  ASSUME NEW r \in Nat \ {0}, NEW n \in Nat
  PROVE  n \div r \in Nat /\ n % r \in 0..(r - 1) /\ n = (n \div r) * r + (n % r)
<1>. DEFINE d == n \div r
            m == n % r
<1>1. d \in Int /\ m \in 0..(r - 1) /\ n = d * r + m  BY SMT
<1>. HIDE DEF d, m
<1>2. d < 0 => d * r + r <= 0 * r  BY <1>1, MulMono
<1>3. d * r \in Int /\ 0 * r = 0  BY <1>1, SMT
<1>4. d >= 0  BY <1>1, <1>2, <1>3, SMT
<1>. QED  BY <1>1, <1>4 DEF d, m

LEMMA SplitTaken ==
  ASSUME TypeOK
  PROVE  Full \in Nat /\ Rest \in Pos /\ taken = Full * Rate + Rest
BY SoftSpongeAssumption, DivType DEF TypeOK, Full, Rest, Pos

-----------------------------------------------------------------------------
(* Types *)

LEMMA XorType ==
  ASSUME NEW A \in ByteSet, NEW B \in ByteSet PROVE Xor(A, B) \in ByteSet
BY DEF Xor, ByteSet

LEMMA ByteTypes ==
  /\ {Domain} \in ByteSet /\ {TopBit} \in ByteSet
  /\ \A j \in Nat : {MsgByte(j)} \in ByteSet
BY DEF ByteSet, Domain, TopBit, MsgByte

LEMMA ZeroType == ZeroBlock \in [Pos -> ByteSet]
BY DEF ZeroBlock, ByteSet

LEMMA XorInType ==
  ASSUME TypeOK, NEW n \in Nat PROVE XorIn(n) \in [Pos -> ByteSet]
<1>. SUFFICES ASSUME NEW p \in Pos
              PROVE  (IF p \in count..(count + n - 1)
                      THEN Xor(cur[p], {MsgByte(taken + p - count)})
                      ELSE cur[p]) \in ByteSet
  BY DEF XorIn
<1>1. cur[p] \in ByteSet  BY DEF TypeOK, ByteSet
<1>2. p \in count..(count + n - 1) => taken + p - count \in Nat
  BY SMT DEF TypeOK, Pos
<1>. QED  BY <1>1, <1>2, ByteTypes, XorType

\* What Write adds to the output.
LEMMA WriteOut ==
  ASSUME TypeOK, NEW n \in Nat, NEW perms \in Nat, NEW p \in Nat,
         n > 0 => p + n <= Rate, Write(n, perms, p)
  PROVE  /\ out' \in Seq(Nat \X Pos)
         /\ Len(out') = Len(out) + n
         /\ \A j \in 1..Len(out) : out'[j] = out[j]
         /\ \A i \in 1..n : out'[Len(out) + i] = OutByte(perms, p + i - 1)
<1>. DEFINE w == [i \in 1..n |-> OutByte(perms, p + i - 1)]
<1>1. \A i \in 1..n : p + i - 1 \in Pos
  BY SoftSpongeAssumption, SMT DEF Pos
<1>2. w \in Seq(Nat \X Pos) /\ Len(w) = n
  BY <1>1 DEF OutByte
<1>3. out \in Seq(Nat \X Pos) /\ out' = out \o w
  BY DEF TypeOK, Write
<1>4. \A i \in 1..n : w[i] = OutByte(perms, p + i - 1)
  OBVIOUS
<1>. DEFINE S == Nat \X Pos
<1>5. w \in Seq(S) /\ out \in Seq(S) /\ Len(w) = n  BY <1>2, <1>3
<1>. HIDE DEF w, S
<1>6. /\ out \o w \in Seq(S)
      /\ Len(out \o w) = Len(out) + Len(w)
      /\ \A j \in 1..Len(out) : (out \o w)[j] = out[j]
      /\ \A i \in 1..Len(w) : (out \o w)[Len(out) + i] = w[i]
  BY <1>5
<1>. QED  BY <1>3, <1>4, <1>5, <1>6 DEF S
-----------------------------------------------------------------------------
(* The inductive step, action by action *)

LEMMA InitInv == IncInit => SpongeInv
<1>. SUFFICES ASSUME IncInit PROVE SpongeInv
  OBVIOUS
<1>. USE SoftSpongeAssumption DEF IncInit
<1>1. TypeOK
  <2>1. << >> \in Seq([Pos -> ByteSet]) /\ << >> \in Seq(Nat \X Pos)
    OBVIOUS
  <2>. QED  BY <2>1, ZeroType DEF TypeOK
<1>2. CountBelowRate  BY DEF CountBelowRate
<1>3. cur = Partial(Len(blocks), count)
  BY DEF Partial, ZeroBlock, Pos
<1>4. AbsorbInv
  BY <1>3 DEF AbsorbInv
<1>. QED  BY <1>1, <1>2, <1>4 DEF SpongeInv

LEMMA AbsorbCallInv ==
  ASSUME SpongeInv, NEW n \in Nat, AbsorbCall(n) PROVE SpongeInv'
<1>. USE DEF SpongeInv, AbsorbCall
<1>1. TypeOK'  BY DEF TypeOK
<1>2. CountBelowRate'  BY DEF CountBelowRate
<1>3. AbsorbInv'  BY DEF AbsorbInv, Partial, FullBlock
<1>. QED  BY <1>1, <1>2, <1>3

\* XORing the next n bytes in behind the first count ones.
LEMMA XorInPartial ==
  ASSUME TypeOK, CountBelowRate, AbsorbInv, NEW n \in Nat, count + n <= Rate
  PROVE  XorIn(n) = Partial(Len(blocks), count + n)
<1>. SUFFICES ASSUME NEW p \in Pos
              PROVE  XorIn(n)[p] = Partial(Len(blocks), count + n)[p]
  BY DEF XorIn, Partial
<1>. DEFINE base == Len(blocks) * Rate
<1>1. base \in Nat /\ taken = base + count /\ count \in Nat /\ p \in Nat
  BY SoftSpongeAssumption, SMT DEF TypeOK, AbsorbInv, Pos
<1>2. cur[p] = IF p < count THEN {MsgByte(base + p)} ELSE {}
  BY DEF AbsorbInv, Partial
<1>3. XorIn(n)[p] = IF p \in count..(count + n - 1)
                    THEN Xor(cur[p], {MsgByte(taken + p - count)}) ELSE cur[p]
  BY DEF XorIn
<1>4. Partial(Len(blocks), count + n)[p] =
        IF p < count + n THEN {MsgByte(base + p)} ELSE {}
  BY DEF Partial
<1>. HIDE DEF base
<1>5. taken + p - count = base + p  BY <1>1, SMT
<1>6. CASE p < count
  <2>1. ~(p \in count..(count + n - 1)) /\ p < count + n  BY <1>1, <1>6, SMT
  <2>. QED  BY <1>2, <1>3, <1>4, <1>6, <2>1
<1>7. CASE ~(p < count) /\ p < count + n
  <2>1. p \in count..(count + n - 1)  BY <1>1, <1>7, SMT
  <2>2. Xor({}, {MsgByte(base + p)}) = {MsgByte(base + p)}  BY DEF Xor
  <2>. QED  BY <1>2, <1>3, <1>4, <1>5, <1>7, <2>1, <2>2
<1>8. CASE ~(p < count) /\ ~(p < count + n)
  <2>1. ~(p \in count..(count + n - 1))  BY <1>1, <1>8, SMT
  <2>. QED  BY <1>2, <1>3, <1>4, <1>8, <2>1
<1>. QED  BY <1>6, <1>7, <1>8

LEMMA PartialRate == \A b \in Nat : Partial(b, Rate) = FullBlock(b + 1)
<1>. SUFFICES ASSUME NEW b \in Nat, NEW p \in Pos
              PROVE  Partial(b, Rate)[p] = FullBlock(b + 1)[p]
  BY DEF Partial, FullBlock
<1>1. p < Rate /\ b + 1 - 1 = b  BY SoftSpongeAssumption, SMT DEF Pos
<1>. QED  BY <1>1 DEF Partial, FullBlock

LEMMA AbsorbBlockInv ==
  ASSUME SpongeInv, AbsorbBlock PROVE SpongeInv'
<1>. DEFINE n == Rate - count
<1>1. /\ TypeOK /\ CountBelowRate /\ AbsorbInv
      /\ n \in Nat /\ count + n = Rate /\ count + n <= Rate
      /\ Len(blocks) \in Nat
      /\ left - n \in Nat /\ taken + n \in Nat
  BY SoftSpongeAssumption, SMT
  DEF SpongeInv, AbsorbBlock, BlockComplete, TypeOK, CountBelowRate
<1>2. blocks' = Append(blocks, XorIn(n)) /\ cur' = ZeroBlock
  BY DEF AbsorbBlock, Permute
<1>. HIDE DEF n
<1>3. XorIn(n) = FullBlock(Len(blocks) + 1)
  <2>1. XorIn(n) = Partial(Len(blocks), count + n)
    BY <1>1, XorInPartial
  <2>. QED  BY <1>1, <2>1, PartialRate
<1>4. XorIn(n) \in [Pos -> ByteSet]  BY <1>1, XorInType
<1>5. TypeOK'
  BY <1>1, <1>2, <1>4, ZeroType DEF TypeOK, AbsorbBlock, n
<1>6. CountBelowRate'
  BY SoftSpongeAssumption, SMT DEF CountBelowRate, AbsorbBlock
<1>7. Len(blocks') = Len(blocks) + 1 /\ blocks'[Len(blocks) + 1] = XorIn(n)
      /\ \A b \in 1..Len(blocks) : blocks'[b] = blocks[b]
  BY <1>2, <1>4, <1>1 DEF TypeOK
<1>8. \A b \in 1..Len(blocks') : blocks'[b] = FullBlock(b)
  BY <1>1, <1>3, <1>7 DEF AbsorbInv
<1>9. taken' = Len(blocks') * Rate + count'
  <2>1. taken' = taken + n /\ count' = 0 /\ taken = Len(blocks) * Rate + count
    BY <1>1 DEF AbsorbBlock, AbsorbInv, n
  <2>2. (Len(blocks) + 1) * Rate = Len(blocks) * Rate + Rate
    BY <1>1, SoftSpongeAssumption, SMT
  <2>3. Len(blocks) * Rate \in Nat  BY <1>1, SoftSpongeAssumption, SMT
  <2>4. count \in Nat /\ Rate \in Nat
    BY <1>1, SoftSpongeAssumption DEF TypeOK
  <2>. QED  BY <1>1, <1>7, <2>1, <2>2, <2>3, <2>4, SMT
<1>10. cur' = Partial(Len(blocks'), count')
  BY <1>2 DEF AbsorbBlock, Partial, ZeroBlock, Pos
<1>11. out' = << >> /\ phase' = "absorbing"
  BY <1>1 DEF AbsorbBlock, AbsorbInv
<1>. QED
  BY <1>5, <1>6, <1>8, <1>9, <1>10, <1>11 DEF SpongeInv, AbsorbInv

LEMMA AbsorbRestInv ==
  ASSUME SpongeInv, AbsorbRest PROVE SpongeInv'
<1>1. /\ TypeOK /\ CountBelowRate /\ AbsorbInv
      /\ left \in Nat /\ count + left < Rate /\ count + left \in Nat
      /\ taken + left \in Nat
  BY SoftSpongeAssumption, SMT
  DEF SpongeInv, AbsorbRest, BlockComplete, TypeOK, CountBelowRate
<1>2. cur' = Partial(Len(blocks), count + left)
  BY <1>1, XorInPartial, SoftSpongeAssumption DEF AbsorbRest
<1>3. cur' \in [Pos -> ByteSet]
  BY <1>1, XorInType DEF AbsorbRest
<1>4. TypeOK'
  BY <1>1, <1>3 DEF TypeOK, AbsorbRest
<1>5. CountBelowRate'
  BY <1>1 DEF CountBelowRate, AbsorbRest
<1>6. taken' = Len(blocks') * Rate + count'
  <2>1. Len(blocks) * Rate \in Nat
    BY <1>1, SoftSpongeAssumption, SMT DEF TypeOK
  <2>2. count \in Nat  BY <1>1 DEF TypeOK
  <2>. QED  BY <1>1, <2>1, <2>2, SMT DEF AbsorbRest, AbsorbInv
<1>. QED
  BY <1>1, <1>2, <1>4, <1>5, <1>6 DEF SpongeInv, AbsorbInv, AbsorbRest

\* Padding the state at count is the last block of the one-shot interface.
LEMMA FinalizeInv ==
  ASSUME SpongeInv, Finalize PROVE SpongeInv'
<1>. DEFINE b == Len(blocks)
            padded == [cur EXCEPT ![count] = Xor(@, {Domain})]
<1>1. /\ TypeOK /\ CountBelowRate /\ AbsorbInv
      /\ b \in Nat /\ count \in Pos /\ Rate - 1 \in Pos
  BY SoftSpongeAssumption, SMT
  DEF SpongeInv, Finalize, TypeOK, CountBelowRate, Pos
<1>2. Full = b /\ Rest = count
  <2>1. taken = b * Rate + count  BY <1>1 DEF AbsorbInv
  <2>. QED
    BY <1>1, <2>1, DivMod, SoftSpongeAssumption DEF Full, Rest, Pos
<1>3. cur' = [padded EXCEPT ![Rate - 1] = Xor(@, {TopBit})]
  BY DEF Finalize
<1>4. padded \in [Pos -> ByteSet] /\ cur' \in [Pos -> ByteSet]
  <2>1. cur[count] \in ByteSet /\ cur[Rate - 1] \in ByteSet
    BY <1>1 DEF TypeOK
  <2>2. Xor(cur[count], {Domain}) \in ByteSet
    BY <2>1, ByteTypes, XorType
  <2>3. padded \in [Pos -> ByteSet]
    BY <1>1, <2>2 DEF TypeOK
  <2>4. Xor(padded[Rate - 1], {TopBit}) \in ByteSet
    BY <1>1, <2>3, ByteTypes, XorType
  <2>. QED  BY <1>1, <1>3, <2>3, <2>4
<1>5. cur' = LastBlock(b, count)
  <2>. SUFFICES ASSUME NEW p \in Pos PROVE cur'[p] = LastBlock(b, count)[p]
    BY <1>4 DEF LastBlock
  <2>1. cur[p] = IF p < count THEN {MsgByte(b * Rate + p)} ELSE {}
    BY <1>1 DEF AbsorbInv, Partial
  <2>2. padded[p] = IF p = count THEN Xor(cur[p], {Domain}) ELSE cur[p]
    BY <1>1 DEF TypeOK
  <2>3. cur'[p] = IF p = Rate - 1 THEN Xor(padded[p], {TopBit}) ELSE padded[p]
    BY <1>1, <1>3, <1>4
  <2>. DEFINE t == IF p < count THEN {MsgByte(b * Rate + p)}
                   ELSE IF p = count THEN {Domain} ELSE {}
  <2>4. padded[p] = t
    <3>1. p = count => ~(p < count)  BY <1>1, SMT DEF Pos
    <3>2. Xor({}, {Domain}) = {Domain}  BY DEF Xor
    <3>. QED  BY <2>1, <2>2, <3>1, <3>2
  <2>5. Xor(t, {TopBit}) = t \cup {TopBit}
    BY DEF Xor, TopBit, Domain, MsgByte
  <2>6. LastBlock(b, count)[p] = IF p = Rate - 1 THEN t \cup {TopBit} ELSE t
    BY DEF LastBlock
  <2>. HIDE DEF t
  <2>. QED  BY <2>3, <2>4, <2>5, <2>6
<1>6. TypeOK'
  BY <1>1, <1>4 DEF TypeOK, Finalize
<1>7. CountBelowRate' /\ count' = 0
  BY SoftSpongeAssumption, SMT DEF CountBelowRate, Finalize
<1>8. SqueezeInv'
  <2>1. Full' = b /\ Rest' = count /\ Len(blocks') = b /\ blocks' = blocks
    BY <1>2 DEF Full, Rest, Finalize
  <2>2. (b - b) * Rate = 0  BY <1>1, SoftSpongeAssumption, SMT
  <2>3. out' = << >>  BY <1>1 DEF Finalize, AbsorbInv
  <2>4. \A k \in 1..b : blocks'[k] = FullBlock(k)
    BY <1>1 DEF Finalize, AbsorbInv
  <2>. HIDE DEF b
  <2>. QED  BY <1>1, <1>5, <1>7, <2>1, <2>2, <2>3, <2>4 DEF SqueezeInv
<1>. QED  BY <1>6, <1>7, <1>8 DEF SpongeInv, Finalize

LEMMA SqueezeCallInv ==
  ASSUME SpongeInv, NEW n \in Nat, SqueezeCall(n) PROVE SpongeInv'
<1>. DEFINE k == Least(n, count)
            b == Len(blocks)
<1>1. /\ TypeOK /\ CountBelowRate /\ SqueezeInv
      /\ k \in Nat /\ k <= n /\ k <= count /\ n - k \in Nat /\ count - k \in Nat
      /\ n - k > 0 => count - k = 0
      /\ b \in Nat /\ Rate - count \in Nat /\ (Rate - count) + k <= Rate
  BY SoftSpongeAssumption, SMT
  DEF SpongeInv, SqueezeCall, TypeOK, CountBelowRate, Least
<1>2. /\ Write(k, b, Rate - count) /\ left' = n - k /\ count' = count - k
      /\ UNCHANGED << phase, cur, blocks, taken >> /\ phase = "squeezing"
  BY DEF SqueezeCall
<1>. HIDE DEF k
<1>3. /\ out' \in Seq(Nat \X Pos) /\ Len(out') = Len(out) + k
      /\ \A j \in 1..Len(out) : out'[j] = out[j]
      /\ \A i \in 1..k : out'[Len(out) + i] = OutByte(b, (Rate - count) + i - 1)
  BY <1>1, <1>2, WriteOut
<1>4. Full' = Full /\ Rest' = Rest /\ Full \in Nat /\ Rest \in Pos
  BY <1>1, <1>2, SplitTaken DEF Full, Rest
<1>5. TypeOK'
  BY <1>1, <1>2, <1>3 DEF TypeOK, SqueezeCall
<1>6. CountBelowRate'
  BY <1>1, <1>2, SoftSpongeAssumption, SMT DEF CountBelowRate, TypeOK
<1>7. \A i \in 1..k :
        /\ Full + 1 + (Len(out) + i - 1) \div Rate = b
        /\ (Len(out) + i - 1) % Rate = (Rate - count) + i - 1
  <2>. SUFFICES ASSUME NEW i \in 1..k
                PROVE  /\ Full + 1 + (Len(out) + i - 1) \div Rate = b
                       /\ (Len(out) + i - 1) % Rate = (Rate - count) + i - 1
    OBVIOUS
  <2>. DEFINE a == b - Full - 1
              x == (Rate - count) + i - 1
              m == b - Full
  <2>1. /\ Len(out) \in Nat /\ count \in Nat /\ count > 0 /\ x \in Pos
        /\ Rate \in Nat \ {0} /\ i \in Nat
    BY <1>1, SoftSpongeAssumption, SMT DEF TypeOK, CountBelowRate, Pos
  <2>2. Len(out) + count = m * Rate /\ m \in Nat
    BY <1>1, <1>4, SMT DEF SqueezeInv
  <2>. HIDE DEF m
  <2>3. m # 0
    <3>1. 0 * Rate = 0  BY <2>1, SMT
    <3>. QED  BY <2>1, <2>2, <3>1, SMT
  <2>4. m * Rate = (m - 1) * Rate + Rate /\ (m - 1) * Rate \in Int
    BY <2>1, <2>2, SMT
  <2>5. a = m - 1 /\ a \in Nat
    BY <2>2, <2>3, <1>1, <1>4, SMT DEF m
  <2>6. Len(out) + i - 1 = (m - 1) * Rate + x
    BY <2>1, <2>2, <2>4, SMT
  <2>7. Len(out) + i - 1 = a * Rate + x
    BY <2>5, <2>6
  <2>. HIDE DEF a, x
  <2>8. (Len(out) + i - 1) \div Rate = a /\ (Len(out) + i - 1) % Rate = x
    <3>1. x \in 0..(Rate - 1)  BY <2>1 DEF Pos
    <3>2. (a * Rate + x) \div Rate = a /\ (a * Rate + x) % Rate = x
      BY <2>1, <2>5, <3>1, DivMod
    <3>. QED  BY <2>7, <3>2
  <2>. QED  BY <2>8, <1>1, <1>4, SMT DEF a, x
<1>8. \A j \in 1..Len(out') :
        out'[j] = OutByte(Full + 1 + (j - 1) \div Rate, (j - 1) % Rate)
  <2>. SUFFICES ASSUME NEW j \in 1..Len(out')
       PROVE out'[j] = OutByte(Full + 1 + (j - 1) \div Rate, (j - 1) % Rate)
    OBVIOUS
  <2>1. CASE j <= Len(out)
    BY <1>1, <1>3, <2>1 DEF SqueezeInv
  <2>2. CASE j > Len(out)
    <3>1. PICK i \in 1..k : j = Len(out) + i
      <4>1. j - Len(out) \in 1..k /\ j = Len(out) + (j - Len(out))
        BY <1>1, <1>3, <2>2, SMT DEF TypeOK
      <4>. QED  BY <4>1
    <3>. QED  BY <1>3, <1>7, <3>1
  <2>. QED  BY <2>1, <2>2, <1>1, <1>3, SMT DEF TypeOK
<1>9. SqueezeInv'
  <2>1. Len(out') + count' = (Len(blocks') - Full') * Rate
    <3>1. Len(out) + k + (count - k) = Len(out) + count
      BY <1>1, SMT DEF TypeOK
    <3>. QED  BY <1>1, <1>2, <1>3, <1>4, <3>1 DEF SqueezeInv
  <2>. QED  BY <1>1, <1>2, <1>4, <1>8, <2>1 DEF SqueezeInv
<1>. QED  BY <1>2, <1>5, <1>6, <1>9 DEF SpongeInv

LEMMA SqueezeBlockInv ==
  ASSUME SpongeInv, SqueezeBlock PROVE SpongeInv'
<1>. DEFINE k == Least(left, Rate)
            b == Len(blocks)
            m == b - Full
<1>1. /\ TypeOK /\ CountBelowRate /\ SqueezeInv /\ count = 0
      /\ k \in Nat /\ k <= Rate /\ k > 0 /\ left - k \in Nat /\ Rate - k \in Nat
      /\ left - k > 0 => Rate - k = 0
      /\ Rate - k < Rate
      /\ b \in Nat /\ b + 1 \in Nat /\ 0 + k <= Rate
  BY SoftSpongeAssumption, SMT
  DEF SpongeInv, SqueezeBlock, TypeOK, CountBelowRate, SqueezeInv, Least
<1>2. /\ Write(k, b + 1, 0) /\ left' = left - k /\ count' = Rate - k
      /\ UNCHANGED << phase, busy, taken >> /\ phase = "squeezing"
      /\ blocks' = Append(blocks, cur) /\ cur' = ZeroBlock
  BY DEF SqueezeBlock, Permute
<1>. HIDE DEF k
<1>3. /\ out' \in Seq(Nat \X Pos) /\ Len(out') = Len(out) + k
      /\ \A j \in 1..Len(out) : out'[j] = out[j]
      /\ \A i \in 1..k : out'[Len(out) + i] = OutByte(b + 1, i - 1)
  <2>. DEFINE perms == b + 1
              zero == 0
  <2>1. /\ perms \in Nat /\ zero \in Nat /\ zero + k <= Rate
        /\ Write(k, perms, zero) /\ TypeOK /\ k \in Nat
    BY <1>1, <1>2
  <2>2. \A i \in 1..k : zero + i - 1 = i - 1  OBVIOUS
  <2>. HIDE DEF perms, zero
  <2>3. /\ out' \in Seq(Nat \X Pos) /\ Len(out') = Len(out) + k
        /\ \A j \in 1..Len(out) : out'[j] = out[j]
        /\ \A i \in 1..k : out'[Len(out) + i] = OutByte(perms, zero + i - 1)
    BY <2>1, WriteOut
  <2>. QED  BY <2>2, <2>3 DEF perms
<1>4. /\ Full' = Full /\ Rest' = Rest /\ Full \in Nat /\ Rest \in Pos
  BY <1>1, <1>2, SplitTaken DEF Full, Rest
<1>5. TypeOK'
  BY <1>1, <1>2, <1>3, ZeroType DEF TypeOK
<1>6. CountBelowRate'
  BY <1>1, <1>2 DEF CountBelowRate
<1>7. m \in Nat /\ Len(out) = m * Rate /\ Len(out) \in Nat
  <2>1. Len(out) + 0 = m * Rate /\ m \in Nat
    BY <1>1, <1>4, SMT DEF SqueezeInv
  <2>2. Len(out) \in Nat  BY <1>1 DEF TypeOK
  <2>. HIDE DEF m
  <2>. QED  BY <2>1, <2>2
<1>. HIDE DEF m
<1>8. \A j \in 1..Len(out') :
        out'[j] = OutByte(Full + 1 + (j - 1) \div Rate, (j - 1) % Rate)
  <2>. SUFFICES ASSUME NEW j \in 1..Len(out')
       PROVE out'[j] = OutByte(Full + 1 + (j - 1) \div Rate, (j - 1) % Rate)
    OBVIOUS
  <2>1. CASE j <= Len(out)
    BY <1>1, <1>3, <1>7, <2>1 DEF SqueezeInv
  <2>2. CASE j > Len(out)
    <3>1. PICK i \in 1..k : j = Len(out) + i
      <4>1. Len(out) \in Nat /\ k \in Nat /\ Len(out') = Len(out) + k
        BY <1>1, <1>3, <1>7
      <4>2. j - Len(out) \in 1..k /\ j = Len(out) + (j - Len(out))
        BY <2>2, <4>1, SMT
      <4>. QED  BY <4>2
    <3>. DEFINE x == i - 1
    <3>2. x \in 0..(Rate - 1)
      BY <1>1, SoftSpongeAssumption, SMT
    <3>3. j - 1 = Len(out) + x /\ i - 1 = x
      BY <3>1, <1>7, SMT
    <3>. HIDE DEF x
    <3>4. (m * Rate + x) \div Rate = m /\ (m * Rate + x) % Rate = x
      BY <1>7, <3>2, DivMod, SoftSpongeAssumption
    <3>5. (j - 1) \div Rate = m /\ (j - 1) % Rate = x
      BY <1>7, <3>3, <3>4
    <3>6. Full + 1 + m = b + 1
      BY <1>1, <1>4, SMT DEF m
    <3>7. out'[j] = OutByte(b + 1, x)
      BY <1>3, <3>1, <3>3
    <3>. QED  BY <3>5, <3>6, <3>7
  <2>. QED  BY <2>1, <2>2, <1>1, <1>3, <1>7, SMT
<1>9. Len(blocks') = b + 1 /\ blocks'[b + 1] = cur
      /\ \A j \in 1..b : blocks'[j] = blocks[j]
  BY <1>1, <1>2 DEF TypeOK
<1>10. \A j \in 1..Len(blocks') :
         blocks'[j] = IF j <= Full THEN FullBlock(j)
                      ELSE IF j = Full + 1 THEN LastBlock(Full, Rest)
                      ELSE ZeroBlock
  <2>. SUFFICES ASSUME NEW j \in 1..Len(blocks')
       PROVE  blocks'[j] = IF j <= Full THEN FullBlock(j)
                           ELSE IF j = Full + 1 THEN LastBlock(Full, Rest)
                           ELSE ZeroBlock
    OBVIOUS
  <2>1. CASE j \in 1..b
    BY <1>1, <1>9, <2>1 DEF SqueezeInv
  <2>2. CASE j = b + 1
    <3>1. ~(j <= Full) /\ (j = Full + 1 <=> b = Full)
      BY <1>1, <1>4, <2>2, SMT DEF SqueezeInv
    <3>2. cur = IF b = Full THEN LastBlock(Full, Rest) ELSE ZeroBlock
      BY <1>1 DEF SqueezeInv
    <3>. QED  BY <1>9, <2>2, <3>1, <3>2
  <2>. QED  BY <2>1, <2>2, <1>1, <1>9, SMT
<1>11. Len(out') + count' = (Len(blocks') - Full') * Rate
  <2>1. Len(out') + count' = Len(out) + Rate
    <3>1. Len(out) \in Nat /\ Rate \in Nat /\ k \in Nat
      BY <1>1, <1>7, SoftSpongeAssumption
    <3>. QED  BY <1>2, <1>3, <3>1, SMT
  <2>2. Len(blocks') - Full' = m + 1
    BY <1>1, <1>4, <1>9, SMT DEF m
  <2>3. (m + 1) * Rate = m * Rate + Rate
    BY <1>7, SoftSpongeAssumption, SMT
  <2>. QED  BY <1>7, <2>1, <2>2, <2>3
<1>12. Len(blocks') >= Full' /\ Len(blocks') # Full'
  BY <1>1, <1>4, <1>9, SMT DEF SqueezeInv
<1>13. SqueezeInv'
  <2>1. busy' /\ left' > 0 => count' = 0
    BY <1>1, <1>2
  <2>2. \A j \in 1..Len(out') :
          out'[j] = OutByte(Full' + 1 + (j - 1) \div Rate, (j - 1) % Rate)
    BY <1>4, <1>8
  <2>. QED  BY <1>2, <1>4, <1>10, <1>11, <1>12, <2>1, <2>2 DEF SqueezeInv
<1>. QED  BY <1>2, <1>5, <1>6, <1>13 DEF SpongeInv

LEMMA SqueezeReturnInv ==
  ASSUME SpongeInv, SqueezeReturn PROVE SpongeInv'
BY DEF SpongeInv, SqueezeReturn, TypeOK, CountBelowRate, SqueezeInv, Full, Rest

LEMMA StutterInv ==
  ASSUME SpongeInv, UNCHANGED vars PROVE SpongeInv'
BY DEF SpongeInv, vars, TypeOK, CountBelowRate, AbsorbInv, SqueezeInv, Full,
       Rest, Partial, FullBlock

-----------------------------------------------------------------------------
LEMMA SpongeInvariant == Spec => []SpongeInv
<1>1. IncInit => SpongeInv  BY InitInv
<1>2. SpongeInv /\ [Next]_vars => SpongeInv'
  <2>. SUFFICES ASSUME SpongeInv, [Next]_vars PROVE SpongeInv'
    OBVIOUS
  <2>1. ASSUME NEW n \in Chunk, AbsorbCall(n) PROVE SpongeInv'
    BY <2>1, AbsorbCallInv, SoftSpongeAssumption
  <2>2. ASSUME NEW n \in Chunk, SqueezeCall(n) PROVE SpongeInv'
    BY <2>2, SqueezeCallInv, SoftSpongeAssumption
  <2>3. CASE AbsorbBlock  BY <2>3, AbsorbBlockInv
  <2>4. CASE AbsorbRest  BY <2>4, AbsorbRestInv
  <2>5. CASE Finalize  BY <2>5, FinalizeInv
  <2>6. CASE SqueezeBlock  BY <2>6, SqueezeBlockInv
  <2>7. CASE SqueezeReturn  BY <2>7, SqueezeReturnInv
  <2>8. CASE UNCHANGED vars  BY <2>8, StutterInv
  <2>. QED
    BY <2>1, <2>2, <2>3, <2>4, <2>5, <2>6, <2>7, <2>8 DEF Next
<1>. QED  BY <1>1, <1>2, PTL DEF Spec

\* s_inc[25] stays below the rate, at every point of every call: the position
\* at which finalize puts the padding byte exists, and r - s_inc[25] bytes of
\* the block can be consumed.
THEOREM CountSafe == Spec => []CountBelowRate
<1>1. SpongeInv => CountBelowRate  BY DEF SpongeInv
<1>. QED  BY <1>1, SpongeInvariant, PTL

\* The blocks permuted by any sequence of calls are those of the one-shot
\* interface on the whole message.
THEOREM AbsorbSafe == Spec => []AbsorbsAsOneShot
<1>1. SpongeInv => AbsorbsAsOneShot
  <2>. SUFFICES ASSUME SpongeInv, phase = "squeezing", NEW b \in 1..Len(blocks)
       PROVE blocks[b] = IF b \in DOMAIN AbsorbOnce(taken)
                         THEN AbsorbOnce(taken)[b] ELSE ZeroBlock
    BY DEF AbsorbsAsOneShot
  <2>1. Full \in Nat  BY SplitTaken DEF SpongeInv
  <2>2. AbsorbOnce(taken) =
          [k \in 1..(Full + 1) |->
             IF k <= Full THEN FullBlock(k) ELSE LastBlock(Full, Rest)]
    BY DEF AbsorbOnce, Full, Rest
  <2>3. blocks[b] = IF b <= Full THEN FullBlock(b)
                    ELSE IF b = Full + 1 THEN LastBlock(Full, Rest)
                    ELSE ZeroBlock
    BY DEF SpongeInv, SqueezeInv
  <2>4. b \in 1..(Full + 1) <=> b <= Full \/ b = Full + 1
    BY <2>1, SMT DEF SpongeInv, TypeOK
  <2>. QED  BY <2>2, <2>3, <2>4
<1>. QED  BY <1>1, SpongeInvariant, PTL

\* The output of any sequence of calls is a prefix of the one-shot output.
THEOREM SqueezeSafe == Spec => []SqueezesAsOneShot
<1>1. SpongeInv => SqueezesAsOneShot
  <2>. SUFFICES ASSUME SpongeInv, phase = "squeezing"
                PROVE  out = SqueezeOnce(taken, Len(out))
    BY DEF SqueezesAsOneShot
  <2>1. out \in Seq(Nat \X Pos)  BY DEF SpongeInv, TypeOK
  <2>2. \A j \in 1..Len(out) :
          out[j] = OutByte(Full + 1 + (j - 1) \div Rate, (j - 1) % Rate)
    BY DEF SpongeInv, SqueezeInv
  <2>3. SqueezeOnce(taken, Len(out)) =
          [j \in 1..Len(out) |->
             OutByte(Full + 1 + (j - 1) \div Rate, (j - 1) % Rate)]
    BY DEF SqueezeOnce, Full
  <2>. HIDE DEF OutByte
  <2>. QED  BY <2>1, <2>2, <2>3
<1>. QED  BY <1>1, SpongeInvariant, PTL
=============================================================================
