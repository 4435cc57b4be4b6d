-------------------------- MODULE SoftSha2Proofs --------------------------
(***************************************************************************)
(* The software SHA-2 gives every caller the hash of its whole input, for  *)
(* every size of block, digest and message.                                *)
(***************************************************************************)
EXTENDS SoftSha2, TLAPS

-----------------------------------------------------------------------------
(* Sequences of anything.  The bytes of a digest hold the blocks it was    *)
(* made from, so there is no set that all of them belong to.               *)

IsSeq(s) == s \in Seq({s[i] : i \in DOMAIN s})

LEMMA SeqLen ==
  ASSUME NEW s, IsSeq(s) PROVE Len(s) \in Nat /\ DOMAIN s = 1..Len(s)
BY DEF IsSeq

LEMMA SeqOf ==
  ASSUME NEW S, NEW s \in Seq(S) PROVE IsSeq(s)
<1>. DEFINE T == {s[i] : i \in DOMAIN s}
<1>1. Len(s) \in Nat /\ DOMAIN s = 1..Len(s) /\ s \in [1..Len(s) -> S]  OBVIOUS
<1>2. \A i \in 1..Len(s) : s[i] \in T  BY <1>1
<1>. HIDE DEF T
<1>3. s \in [1..Len(s) -> T]  BY <1>1, <1>2
<1>4. s \in Seq(T)  BY <1>1, <1>3
<1>. QED  BY <1>4 DEF T, IsSeq

LEMMA SeqIn ==
  ASSUME NEW s, IsSeq(s), NEW S, \A i \in 1..Len(s) : s[i] \in S
  PROVE  s \in Seq(S)
<1>. DEFINE T == {s[i] : i \in DOMAIN s}
<1>1. s \in Seq(T)  BY DEF IsSeq
<1>. HIDE DEF T
<1>2. Len(s) \in Nat /\ s \in [1..Len(s) -> T]  BY <1>1
<1>. QED  BY <1>2

LEMMA SeqEqual ==
  ASSUME NEW s, NEW t, IsSeq(s), IsSeq(t), Len(s) = Len(t),
         \A i \in 1..Len(s) : s[i] = t[i]
  PROVE  s = t
<1>. DEFINE T == {t[i] : i \in DOMAIN t}
<1>1. t \in Seq(T)  BY DEF IsSeq
<1>2. DOMAIN t = 1..Len(t)  BY SeqLen
<1>3. \A i \in 1..Len(s) : s[i] \in T  BY <1>2
<1>. HIDE DEF T
<1>4. s \in Seq(T)  BY <1>3, SeqIn
<1>. QED  BY <1>1, <1>4

Joins(s, t) ==
  /\ IsSeq(s \o t)
  /\ Len(s \o t) = Len(s) + Len(t)
  /\ \A i \in 1..Len(s) : (s \o t)[i] = s[i]
  /\ \A i \in 1..Len(t) : (s \o t)[Len(s) + i] = t[i]

LEMMA Concat ==
  ASSUME NEW s, NEW t, IsSeq(s), IsSeq(t)
  PROVE  Joins(s, t)
<1>. DEFINE S == {s[i] : i \in DOMAIN s} \cup {t[i] : i \in DOMAIN t}
<1>1. DOMAIN s = 1..Len(s) /\ DOMAIN t = 1..Len(t)  BY SeqLen
<1>2. (\A i \in 1..Len(s) : s[i] \in S) /\ (\A i \in 1..Len(t) : t[i] \in S)
  BY <1>1
<1>. HIDE DEF S
<1>3. s \in Seq(S) /\ t \in Seq(S)  BY <1>2, SeqIn
<1>4. /\ s \o t \in Seq(S)
      /\ Len(s \o t) = Len(s) + Len(t)
      /\ \A i \in 1..Len(s) : (s \o t)[i] = s[i]
      /\ \A i \in 1..Len(t) : (s \o t)[Len(s) + i] = t[i]
  BY <1>3
<1>5. IsSeq(s \o t)  BY <1>4, SeqOf
<1>. QED  BY <1>4, <1>5 DEF Joins

Associate(s, t, u) == (s \o t) \o u = s \o (t \o u)

LEMMA Assoc ==
  ASSUME NEW s, NEW t, NEW u, IsSeq(s), IsSeq(t), IsSeq(u)
  PROVE  Associate(s, t, u)
<1>. DEFINE S == {s[i] : i \in DOMAIN s} \cup {t[i] : i \in DOMAIN t}
                 \cup {u[i] : i \in DOMAIN u}
<1>1. DOMAIN s = 1..Len(s) /\ DOMAIN t = 1..Len(t) /\ DOMAIN u = 1..Len(u)
  BY SeqLen
<1>2. /\ \A i \in 1..Len(s) : s[i] \in S
      /\ \A i \in 1..Len(t) : t[i] \in S
      /\ \A i \in 1..Len(u) : u[i] \in S
  BY <1>1
<1>. HIDE DEF S
<1>3. s \in Seq(S) /\ t \in Seq(S) /\ u \in Seq(S)  BY <1>2, SeqIn
<1>. QED  BY <1>3 DEF Associate

Part(s, a, b) == SubSeq(s, a + 1, b)

LEMMA Sub ==
  ASSUME NEW s, IsSeq(s), NEW a \in Nat, NEW b \in Nat, a <= b, b <= Len(s)
  PROVE  /\ IsSeq(Part(s, a, b))
         /\ Len(Part(s, a, b)) = b - a
         /\ \A i \in 1..(b - a) : Part(s, a, b)[i] = s[a + i]
<1>. DEFINE T == {s[i] : i \in DOMAIN s}
<1>1. s \in Seq(T)  BY DEF IsSeq
<1>. HIDE DEF T
<1>2. /\ SubSeq(s, a + 1, b) \in Seq(T)
      /\ Len(SubSeq(s, a + 1, b)) = b - a
      /\ \A i \in 1..(b - a) : SubSeq(s, a + 1, b)[i] = s[a + i]
  BY <1>1
<1>. QED  BY <1>2, SeqOf DEF Part

\* A sequence written out as a function.
LEMMA FunSeq ==
  ASSUME NEW n \in Nat, NEW s, s = [i \in 1..n |-> s[i]]
  PROVE  IsSeq(s) /\ Len(s) = n
<1>. DEFINE T == {s[i] : i \in 1..n}
<1>1. \A i \in 1..n : s[i] \in T  OBVIOUS
<1>. HIDE DEF T
<1>2. s \in [1..n -> T]  BY <1>1
<1>3. s \in Seq(T) /\ Len(s) = n  BY <1>2
<1>. QED  BY <1>3, SeqOf

LEMMA FromFirst ==
  ASSUME NEW s, IsSeq(s), NEW n \in 0..Len(s)
  PROVE  /\ IsSeq(First(s, n)) /\ Len(First(s, n)) = n
         /\ \A i \in 1..n : First(s, n)[i] = s[i]
         /\ IsSeq(From(s, n)) /\ Len(From(s, n)) = Len(s) - n
         /\ \A i \in 1..(Len(s) - n) : From(s, n)[i] = s[n + i]
         /\ s = First(s, n) \o From(s, n)
<1>0. Len(s) \in Nat  BY SeqLen
<1>1. /\ IsSeq(First(s, n)) /\ Len(First(s, n)) = n
      /\ \A i \in 1..n : First(s, n)[i] = s[i]
  <2>1. Part(s, 0, n) = First(s, n)  BY DEF Part, First
  <2>2. /\ IsSeq(Part(s, 0, n)) /\ Len(Part(s, 0, n)) = n - 0
        /\ \A i \in 1..(n - 0) : Part(s, 0, n)[i] = s[0 + i]
    <3>1. 0 \in Nat /\ n \in Nat /\ 0 <= n /\ n <= Len(s)  BY <1>0
    <3>. QED  BY <3>1, Sub, Zenon
  <2>. QED  BY <2>1, <2>2
<1>2. /\ IsSeq(From(s, n)) /\ Len(From(s, n)) = Len(s) - n
      /\ \A i \in 1..(Len(s) - n) : From(s, n)[i] = s[n + i]
  <2>1. Part(s, n, Len(s)) = From(s, n)  BY DEF Part, From
  <2>2. /\ IsSeq(Part(s, n, Len(s))) /\ Len(Part(s, n, Len(s))) = Len(s) - n
        /\ \A i \in 1..(Len(s) - n) : Part(s, n, Len(s))[i] = s[n + i]
    <3>1. n \in Nat /\ Len(s) \in Nat /\ n <= Len(s) /\ Len(s) <= Len(s)
      BY <1>0
    <3>. QED  BY <3>1, Sub, Zenon
  <2>. QED  BY <2>1, <2>2
<1>3. s = First(s, n) \o From(s, n)
  <2>. DEFINE f == First(s, n)
              g == From(s, n)
  <2>. HIDE DEF f, g
  <2>1. /\ IsSeq(f) /\ Len(f) = n /\ IsSeq(g) /\ Len(g) = Len(s) - n
        /\ \A i \in 1..n : f[i] = s[i]
        /\ \A i \in 1..(Len(s) - n) : g[i] = s[n + i]
    BY <1>1, <1>2 DEF f, g
  <2>2. /\ IsSeq(f \o g) /\ Len(f \o g) = Len(f) + Len(g)
        /\ \A i \in 1..Len(f) : (f \o g)[i] = f[i]
        /\ \A i \in 1..Len(g) : (f \o g)[Len(f) + i] = g[i]
    <3>1. IsSeq(f) /\ IsSeq(g)  BY <2>1
    <3>2. Joins(f, g)  BY <3>1, Concat, Zenon
    <3>. QED  BY <3>2 DEF Joins
  <2>3. ASSUME NEW i \in 1..Len(s) PROVE s[i] = (f \o g)[i]
    <3>1. CASE i <= n  BY <3>1, <2>1, <2>2, <1>0
    <3>2. CASE ~(i <= n)
      <4>1. PICK k \in 1..(Len(s) - n) : i = n + k
        <5>1. i - n \in 1..(Len(s) - n) /\ i = n + (i - n)  BY <3>2, <1>0
        <5>. QED  BY <5>1
      <4>2. (f \o g)[Len(f) + k] = g[k]  BY <2>1, <2>2
      <4>. QED  BY <4>1, <4>2, <2>1
    <3>. QED  BY <3>1, <3>2
  <2>4. Len(f \o g) = Len(s)  BY <2>1, <2>2, <1>0
  <2>. QED  BY <2>2, <2>3, <2>4, SeqEqual DEF f, g
<1>. QED  BY <1>1, <1>2, <1>3

LEMMA BytesSeq ==
  ASSUME NEW of, NEW n \in Nat
  PROVE  /\ IsSeq(Bytes(of, n)) /\ Len(Bytes(of, n)) = n
         /\ IsSeq(Fill(of, n)) /\ Len(Fill(of, n)) = n
<1>1. IsSeq(Bytes(of, n)) /\ Len(Bytes(of, n)) = n
  <2>. DEFINE s == Bytes(of, n)
  <2>1. s = [i \in 1..n |-> s[i]]  BY DEF Bytes
  <2>. HIDE DEF s
  <2>. QED  BY <2>1, FunSeq DEF s
<1>2. IsSeq(Fill(of, n)) /\ Len(Fill(of, n)) = n
  <2>. DEFINE s == Fill(of, n)
  <2>1. s = [i \in 1..n |-> s[i]]  BY DEF Fill
  <2>. HIDE DEF s
  <2>. QED  BY <2>1, FunSeq DEF s
<1>. QED  BY <1>1, <1>2

LEMMA LengthSeq ==
  ASSUME NEW n PROVE IsSeq(Length(n)) /\ Len(Length(n)) = LenField
<1>. DEFINE s == Length(n)
<1>1. s = [i \in 1..LenField |-> s[i]]  BY DEF Length
<1>. HIDE DEF s
<1>. QED  BY <1>1, FunSeq, SoftSha2Assumption DEF s

LEMMA DigestSeq ==
  ASSUME NEW b PROVE IsSeq(Digest(b)) /\ Len(Digest(b)) = Output
<1>. DEFINE s == Digest(b)
<1>1. s = [i \in 1..Output |-> s[i]]  BY DEF Digest
<1>. HIDE DEF s
<1>. QED  BY <1>1, FunSeq, SoftSha2Assumption DEF s

-----------------------------------------------------------------------------
(* Blocks *)

LEMMA DivMod ==
  ASSUME NEW n \in Nat
  PROVE  /\ n \div Block \in Nat /\ n % Block \in 0..(Block - 1)
         /\ n = (n \div Block) * Block + (n % Block)
BY SoftSha2Assumption

LEMMA Quotient ==
  ASSUME NEW q \in Nat, NEW r \in 0..(Block - 1)
  PROVE  (q * Block + r) \div Block = q /\ (q * Block + r) % Block = r
BY SoftSha2Assumption

LEMMA Multiple ==
  ASSUME NEW q \in Nat, NEW n \in Nat
  PROVE  (q * Block + n) \div Block = q + (n \div Block)
BY SoftSha2Assumption

\* Block b is in a sequence that has so many whole blocks.
LEMMA InBlock ==
  ASSUME NEW q \in Nat, NEW b \in 1..q
  PROVE  /\ (b - 1) * Block \in Nat /\ b * Block \in Nat /\ q * Block \in Nat
         /\ b * Block = (b - 1) * Block + Block
         /\ b * Block <= q * Block
BY SoftSha2Assumption

LEMMA SeqDiv ==
  ASSUME NEW s, IsSeq(s)
  PROVE  /\ Len(s) \in Nat /\ Len(s) \div Block \in Nat
         /\ (Len(s) \div Block) * Block \in Nat
         /\ Len(s) % Block \in 0..(Block - 1)
         /\ Len(s) = (Len(s) \div Block) * Block + (Len(s) % Block)
<1>. DEFINE n == Len(s)
<1>1. n \in Nat  BY SeqLen
<1>. HIDE DEF n
<1>2. /\ n \div Block \in Nat /\ n % Block \in 0..(Block - 1)
      /\ n = (n \div Block) * Block + (n % Block)
  BY <1>1, DivMod
<1>3. (n \div Block) * Block \in Nat  BY <1>2, SoftSha2Assumption
<1>. QED  BY <1>1, <1>2, <1>3 DEF n

LEMMA BlocksSeq ==
  ASSUME NEW s, IsSeq(s)
  PROVE  IsSeq(Blocks(s)) /\ Len(Blocks(s)) = Len(s) \div Block
<1>. DEFINE n == Len(s) \div Block
            t == Blocks(s)
<1>1. n \in Nat  BY SeqDiv
<1>2. t = [b \in 1..n |-> t[b]]  BY DEF Blocks
<1>. HIDE DEF n, t
<1>3. IsSeq(t) /\ Len(t) = n  BY <1>1, <1>2, FunSeq
<1>. QED  BY <1>3 DEF n, t

IsBlock(s, b) ==
  /\ IsSeq(Blocks(s)[b]) /\ Len(Blocks(s)[b]) = Block
  /\ \A i \in 1..Block : Blocks(s)[b][i] = s[(b - 1) * Block + i]

LEMMA OneBlock ==
  ASSUME NEW s, IsSeq(s), NEW b \in 1..(Len(s) \div Block)
  PROVE  IsBlock(s, b)
<1>. DEFINE n == Len(s) \div Block
            x == (b - 1) * Block
            y == b * Block
<1>1. Blocks(s)[b] = Part(s, x, y)  BY DEF Blocks, Part
<1>2. n \in Nat /\ n * Block \in Nat /\ n * Block <= Len(s) /\ Len(s) \in Nat
  BY SeqDiv
<1>3. b \in 1..n  OBVIOUS
<1>. HIDE DEF n
<1>4. x \in Nat /\ y \in Nat /\ y = x + Block /\ y <= n * Block
  BY <1>2, <1>3, InBlock
<1>. HIDE DEF x, y
<1>5. x \in Nat /\ y \in Nat /\ x <= y /\ y <= Len(s)
  BY <1>2, <1>4, SoftSha2Assumption
<1>6. /\ IsSeq(Part(s, x, y)) /\ Len(Part(s, x, y)) = y - x
      /\ \A i \in 1..(y - x) : Part(s, x, y)[i] = s[x + i]
  BY <1>5, Sub, Zenon
<1>7. y - x = Block  BY <1>4, SoftSha2Assumption
<1>. QED  BY <1>1, <1>6, <1>7 DEF x, IsBlock

LEMMA BlocksConcat ==
  ASSUME NEW s, NEW t, IsSeq(s), IsSeq(t), Len(s) % Block = 0
  PROVE  Blocks(s \o t) = Blocks(s) \o Blocks(t)
<1>. DEFINE q == Len(s) \div Block
            c == Len(t) \div Block
            u == s \o t
<1>1. /\ Len(s) \in Nat /\ Len(t) \in Nat /\ q \in Nat /\ c \in Nat
      /\ Len(s) = q * Block
  <2>1. q * Block \in Nat /\ Len(s) = q * Block + 0  BY SeqDiv
  <2>. QED  BY <2>1, SeqDiv
<1>2. /\ IsSeq(u) /\ Len(u) = Len(s) + Len(t)
      /\ \A i \in 1..Len(s) : u[i] = s[i]
      /\ \A i \in 1..Len(t) : u[Len(s) + i] = t[i]
  BY Concat DEF Joins
<1>3. Len(u) \div Block = q + c
  <2>. HIDE DEF q
  <2>. QED  BY <1>1, <1>2, Multiple
<1>. HIDE DEF u, q, c
<1>4. /\ IsSeq(Blocks(s)) /\ Len(Blocks(s)) = q /\ IsSeq(Blocks(t)) /\ Len(Blocks(t)) = c
      /\ IsSeq(Blocks(u)) /\ Len(Blocks(u)) = q + c
  BY <1>2, <1>3, BlocksSeq DEF q, c
<1>. DEFINE v == Blocks(s) \o Blocks(t)
<1>5. /\ IsSeq(v) /\ Len(v) = q + c
      /\ \A b \in 1..q : v[b] = Blocks(s)[b]
      /\ \A b \in 1..c : v[q + b] = Blocks(t)[b]
  <2>1. Joins(Blocks(s), Blocks(t))  BY <1>4, Concat, Zenon
  <2>. QED  BY <1>4, <2>1 DEF Joins
<1>. HIDE DEF v
<1>6. ASSUME NEW b \in 1..q PROVE Blocks(u)[b] = v[b]
  <2>1. /\ IsSeq(Blocks(u)[b]) /\ Len(Blocks(u)[b]) = Block
        /\ \A i \in 1..Block : Blocks(u)[b][i] = u[(b - 1) * Block + i]
    <3>1. b \in 1..(Len(u) \div Block)  BY <1>1, <1>3
    <3>2. IsSeq(u)  BY <1>2
    <3>3. IsBlock(u, b)  BY <3>1, <3>2, OneBlock, Zenon
    <3>. QED  BY <3>3 DEF IsBlock
  <2>2. /\ IsSeq(Blocks(s)[b]) /\ Len(Blocks(s)[b]) = Block
        /\ \A i \in 1..Block : Blocks(s)[b][i] = s[(b - 1) * Block + i]
    <3>1. IsBlock(s, b)  BY OneBlock, Zenon DEF q
    <3>. QED  BY <3>1 DEF IsBlock
  <2>3. ASSUME NEW i \in 1..Block PROVE Blocks(u)[b][i] = Blocks(s)[b][i]
    <3>. DEFINE x == (b - 1) * Block
    <3>1. x \in Nat /\ x + Block <= q * Block /\ q * Block \in Nat
      <4>1. q \in Nat /\ b \in 1..q  BY <1>1
      <4>2. /\ (b - 1) * Block \in Nat /\ b * Block \in Nat /\ q * Block \in Nat
            /\ b * Block = (b - 1) * Block + Block /\ b * Block <= q * Block
        BY <4>1, InBlock, Zenon
      <4>. QED  BY <4>2
    <3>. HIDE DEF x
    <3>2. x + i \in 1..Len(s)  BY <1>1, <3>1, SoftSha2Assumption
    <3>3. u[x + i] = s[x + i]  BY <1>2, <3>2
    <3>. QED  BY <2>1, <2>2, <3>3 DEF x
  <2>. DEFINE w1 == Blocks(u)[b]
              w2 == Blocks(s)[b]
  <2>4. /\ IsSeq(w1) /\ IsSeq(w2) /\ Len(w1) = Len(w2)
        /\ \A i \in 1..Len(w1) : w1[i] = w2[i]
    BY <2>1, <2>2, <2>3
  <2>. HIDE DEF w1, w2
  <2>5. w1 = w2  BY <2>4, SeqEqual, Zenon
  <2>. QED  BY <1>5, <2>5 DEF w1, w2
<1>7. ASSUME NEW b \in 1..c PROVE Blocks(u)[q + b] = v[q + b]
  <2>1. /\ IsSeq(Blocks(u)[q + b]) /\ Len(Blocks(u)[q + b]) = Block
        /\ \A i \in 1..Block : Blocks(u)[q + b][i] = u[((q + b) - 1) * Block + i]
    <3>1. q + b \in 1..(Len(u) \div Block)  BY <1>1, <1>3
    <3>2. IsSeq(u)  BY <1>2
    <3>3. IsBlock(u, q + b)  BY <3>1, <3>2, OneBlock, Zenon
    <3>. QED  BY <3>3 DEF IsBlock
  <2>2. /\ IsSeq(Blocks(t)[b]) /\ Len(Blocks(t)[b]) = Block
        /\ \A i \in 1..Block : Blocks(t)[b][i] = t[(b - 1) * Block + i]
    <3>1. IsBlock(t, b)  BY OneBlock, Zenon DEF c
    <3>. QED  BY <3>1 DEF IsBlock
  <2>3. ASSUME NEW i \in 1..Block PROVE Blocks(u)[q + b][i] = Blocks(t)[b][i]
    <3>. DEFINE x == (b - 1) * Block
    <3>1. x \in Nat /\ x + Block <= c * Block /\ c * Block \in Nat
      <4>1. c \in Nat /\ b \in 1..c  BY <1>1
      <4>2. /\ (b - 1) * Block \in Nat /\ b * Block \in Nat /\ c * Block \in Nat
            /\ b * Block = (b - 1) * Block + Block /\ b * Block <= c * Block
        BY <4>1, InBlock, Zenon
      <4>. QED  BY <4>2
    <3>2. ((q + b) - 1) * Block = Len(s) + x
      BY <1>1, SoftSha2Assumption
    <3>3. c * Block <= Len(t)
      BY <1>1, SeqDiv, SoftSha2Assumption DEF c
    <3>. HIDE DEF x
    <3>4. x + i \in 1..Len(t) /\ Len(s) + x + i = Len(s) + (x + i)
      BY <1>1, <3>1, <3>3, SoftSha2Assumption
    <3>5. u[Len(s) + (x + i)] = t[x + i]  BY <1>2, <3>4
    <3>6. Blocks(u)[q + b][i] = u[Len(s) + x + i]  BY <2>1, <3>2
    <3>7. Blocks(t)[b][i] = t[x + i]  BY <2>2 DEF x
    <3>. QED  BY <3>4, <3>5, <3>6, <3>7
  <2>. DEFINE w1 == Blocks(u)[q + b]
              w2 == Blocks(t)[b]
  <2>4. /\ IsSeq(w1) /\ IsSeq(w2) /\ Len(w1) = Len(w2)
        /\ \A i \in 1..Len(w1) : w1[i] = w2[i]
    BY <2>1, <2>2, <2>3
  <2>. HIDE DEF w1, w2
  <2>5. w1 = w2  BY <2>4, SeqEqual, Zenon
  <2>. QED  BY <1>5, <2>5 DEF w1, w2
<1>8. ASSUME NEW b \in 1..(q + c) PROVE Blocks(u)[b] = v[b]
  <2>1. CASE b <= q  BY <1>1, <1>6, <2>1
  <2>2. CASE ~(b <= q)
    <3>1. PICK d \in 1..c : b = q + d
      <4>1. b - q \in 1..c /\ b = q + (b - q)  BY <1>1, <2>2
      <4>. QED  BY <4>1
    <3>. QED  BY <1>7, <3>1
  <2>. QED  BY <2>1, <2>2
<1>. DEFINE w == Blocks(u)
<1>9. IsSeq(w) /\ IsSeq(v) /\ Len(w) = Len(v) /\ \A b \in 1..Len(w) : w[b] = v[b]
  BY <1>4, <1>5, <1>8
<1>. HIDE DEF w
<1>10. w = v  BY <1>9, SeqEqual, Zenon
<1>. QED  BY <1>10 DEF u, v, w

\* A tail shorter than a block adds no block.
LEMMA NoBlock ==
  ASSUME NEW s, NEW t, IsSeq(s), IsSeq(t), Len(s) % Block = 0, Len(t) < Block
  PROVE  Blocks(s \o t) = Blocks(s)
<1>1. Len(t) \in Nat  BY SeqLen
<1>2. Len(t) \div Block = 0  BY <1>1, SoftSha2Assumption
<1>. DEFINE x == Blocks(s)
            y == Blocks(t)
<1>3. IsSeq(x) /\ IsSeq(y) /\ Len(y) = 0 /\ Len(x) \in Nat
  BY <1>2, BlocksSeq, SeqLen
<1>4. Blocks(s \o t) = x \o y  BY BlocksConcat
<1>. HIDE DEF x, y
<1>5. IsSeq(x \o y) /\ Len(x \o y) = Len(x) /\ \A i \in 1..Len(x) : (x \o y)[i] = x[i]
  BY <1>3, Concat DEF Joins
<1>6. x \o y = x  BY <1>3, <1>5, SeqEqual
<1>. QED  BY <1>4, <1>6 DEF x

-----------------------------------------------------------------------------
(* The padding *)

ZerosOf(n) == (2 * Block - ((n + 1 + LenField) % Block)) % Block

PadSize(r) == IF FitsOneBlock(r) THEN Block ELSE 2 * Block

LEMMA ZerosFill ==
  ASSUME NEW q \in Nat, NEW r \in 0..(Block - 1)
  PROVE  /\ ZerosOf(q * Block + r) \in Nat
         /\ r + 1 + ZerosOf(q * Block + r) = PadSize(r) - LenField
<1>. DEFINE n == q * Block + r
            w == r + 1 + LenField
<1>1. Block \in Nat /\ Block > 0 /\ LenField \in 1..(Block - 1)
  BY SoftSha2Assumption
<1>2. q * Block \in Nat /\ n + 1 + LenField = q * Block + w
  BY <1>1
<1>3. CASE w < Block
  <2>1. (n + 1 + LenField) % Block = w
    <3>1. w \in 0..(Block - 1)  BY <1>1, <1>3
    <3>. HIDE DEF w
    <3>. QED  BY <1>2, <3>1, Quotient
  <2>2. ZerosOf(n) = (2 * Block - w) % Block  BY <2>1 DEF ZerosOf
  <2>3. 2 * Block - w = 1 * Block + (Block - w) /\ Block - w \in 0..(Block - 1)
    BY <1>1, <1>3
  <2>4. ZerosOf(n) = Block - w
    <3>. HIDE DEF w
    <3>. QED  BY <2>2, <2>3, Quotient
  <2>5. PadSize(r) = Block  BY <1>1, <1>3 DEF PadSize, FitsOneBlock
  <2>. QED  BY <1>1, <1>3, <2>4, <2>5
<1>4. CASE w = Block
  <2>1. (n + 1 + LenField) % Block = 0
    <3>1. n + 1 + LenField = (q + 1) * Block + 0 /\ q + 1 \in Nat /\ 0 \in 0..(Block - 1)
      BY <1>1, <1>2, <1>4
    <3>. QED  BY <3>1, Quotient
  <2>2. ZerosOf(n) = (2 * Block - 0) % Block  BY <2>1 DEF ZerosOf
  <2>3. 2 * Block - 0 = 2 * Block + 0 /\ 0 \in 0..(Block - 1)  BY <1>1
  <2>4. ZerosOf(n) = 0  BY <2>2, <2>3, Quotient
  <2>5. PadSize(r) = Block  BY <1>1, <1>4 DEF PadSize, FitsOneBlock
  <2>. QED  BY <1>1, <1>4, <2>4, <2>5
<1>5. CASE w > Block
  <2>. DEFINE x == w - Block
  <2>1. x \in 1..(Block - 1)  BY <1>1, <1>5
  <2>2. (n + 1 + LenField) % Block = x
    <3>1. n + 1 + LenField = (q + 1) * Block + x /\ q + 1 \in Nat /\ x \in 0..(Block - 1)
      BY <1>1, <1>2, <2>1
    <3>. HIDE DEF x
    <3>. QED  BY <3>1, Quotient
  <2>3. ZerosOf(n) = (2 * Block - x) % Block  BY <2>2 DEF ZerosOf
  <2>4. 2 * Block - x = 1 * Block + (Block - x) /\ Block - x \in 0..(Block - 1)
    BY <1>1, <2>1
  <2>5. ZerosOf(n) = Block - x
    <3>. HIDE DEF x
    <3>. QED  BY <2>3, <2>4, Quotient
  <2>6. PadSize(r) = 2 * Block  BY <1>1, <1>5 DEF PadSize, FitsOneBlock
  <2>. QED  BY <1>1, <1>5, <2>5, <2>6
<1>. QED  BY <1>1, <1>3, <1>4, <1>5

Padded(text, n, size) ==
  [j \in 1..size |->
     IF j > size - LenField THEN Length(n)[j - (size - LenField)]
     ELSE IF j <= Len(text) THEN text[j] ELSE << "0", << >>, 0 >>]

PadsTo(text, z, n, size) ==
  Padded(text, n, size) = (text \o Fill("0", z)) \o Length(n)

LEMMA PaddedText ==
  ASSUME NEW text, IsSeq(text), NEW z \in Nat, NEW n, NEW size \in Nat,
         size = Len(text) + z + LenField
  PROVE  PadsTo(text, z, n, size)
<1>. DEFINE f == Fill("0", z)
            l == Length(n)
            w == text \o f
            u == w \o l
            p == Padded(text, n, size)
<1>1. IsSeq(f) /\ Len(f) = z /\ IsSeq(l) /\ Len(l) = LenField
  BY BytesSeq, LengthSeq
<1>2. \A i \in 1..z : f[i] = << "0", << >>, 0 >>  BY DEF Fill
<1>3. /\ IsSeq(p) /\ Len(p) = size
      /\ \A j \in 1..size :
           p[j] = IF j > size - LenField THEN l[j - (size - LenField)]
                  ELSE IF j <= Len(text) THEN text[j] ELSE << "0", << >>, 0 >>
  <2>1. p = [j \in 1..size |-> p[j]]  BY DEF Padded
  <2>2. \A j \in 1..size :
           p[j] = IF j > size - LenField THEN l[j - (size - LenField)]
                  ELSE IF j <= Len(text) THEN text[j] ELSE << "0", << >>, 0 >>
    BY DEF Padded
  <2>. HIDE DEF p, l
  <2>3. IsSeq(p) /\ Len(p) = size  BY <2>1, FunSeq, Zenon
  <2>. QED  BY <2>2, <2>3
<1>. HIDE DEF f, l, p
<1>4. /\ IsSeq(w) /\ Len(w) = Len(text) + z
      /\ \A i \in 1..Len(text) : w[i] = text[i]
      /\ \A i \in 1..z : w[Len(text) + i] = f[i]
  BY <1>1, Concat DEF Joins
<1>. HIDE DEF w
<1>5. /\ IsSeq(u) /\ Len(u) = Len(w) + LenField
      /\ \A i \in 1..Len(w) : u[i] = w[i]
      /\ \A i \in 1..LenField : u[Len(w) + i] = l[i]
  <2>1. IsSeq(w) /\ IsSeq(l)  BY <1>1, <1>4
  <2>2. /\ IsSeq(u) /\ Len(u) = Len(w) + Len(l)
        /\ \A i \in 1..Len(w) : u[i] = w[i]
        /\ \A i \in 1..Len(l) : u[Len(w) + i] = l[i]
    BY <2>1, Concat DEF Joins
  <2>. QED  BY <1>1, <2>2
<1>. HIDE DEF u
<1>6. LenField \in Nat /\ Len(text) \in Nat  BY SeqLen, SoftSha2Assumption
<1>7. Len(w) = size - LenField /\ Len(u) = size /\ Len(w) \in Nat
  BY <1>4, <1>5, <1>6
<1>8. ASSUME NEW j \in 1..size PROVE p[j] = u[j]
  <2>1. CASE j > size - LenField
    <3>1. PICK i \in 1..LenField : j = Len(w) + i
      <4>1. j - Len(w) \in 1..LenField /\ j = Len(w) + (j - Len(w))
        BY <2>1, <1>6, <1>7
      <4>. QED  BY <4>1
    <3>2. j - (size - LenField) = i  BY <3>1, <1>6, <1>7
    <3>3. p[j] = l[i]  BY <2>1, <1>3, <3>2
    <3>4. u[j] = l[i]  BY <1>5, <3>1
    <3>. QED  BY <3>3, <3>4
  <2>2. CASE ~(j > size - LenField) /\ j <= Len(text)
    <3>1. j \in 1..Len(text) /\ j \in 1..Len(w)  BY <2>2, <1>6, <1>7
    <3>. QED  BY <2>2, <3>1, <1>3, <1>4, <1>5
  <2>3. CASE ~(j > size - LenField) /\ ~(j <= Len(text))
    <3>1. PICK i \in 1..z : j = Len(text) + i
      <4>1. j - Len(text) \in 1..z /\ j = Len(text) + (j - Len(text))
        BY <2>3, <1>6, <1>7
      <4>. QED  BY <4>1
    <3>2. j \in 1..Len(w)  BY <2>3, <1>6, <1>7
    <3>3. u[j] = w[j]  BY <1>5, <3>2
    <3>4. w[j] = f[i]  BY <1>4, <3>1
    <3>5. f[i] = << "0", << >>, 0 >>  BY <1>2, <3>1
    <3>6. p[j] = << "0", << >>, 0 >>  BY <2>3, <1>3
    <3>. QED  BY <3>3, <3>4, <3>5, <3>6
  <2>. QED  BY <2>1, <2>2, <2>3
<1>9. p = u  BY <1>3, <1>5, <1>7, <1>8, SeqEqual
<1>. QED  BY <1>9 DEF p, u, w, f, l, PadsTo

\* The heart of it: finishing with the rest of a message, after its whole
\* blocks, gives the hash of the message.
LEMMA Finalize ==
  ASSUME NEW p, NEW in, IsSeq(p), IsSeq(in), Len(p) % Block = 0
  PROVE  IncFinalize([chain |-> Blocks(p), bytes |-> Len(p)], in) = Sha2(p \o in)
<1>. DEFINE r    == Len(in) % Block
            k    == Len(in) - r
            h    == First(in, k)
            g    == From(in, k)
            size == PadSize(r)
            n    == Len(p) + Len(in)
            z    == ZerosOf(n)
            one  == Fill("80", 1)
            f    == Fill("0", z)
            l    == Length(n)
<1>1. /\ Len(in) \in Nat /\ Len(p) \in Nat /\ r \in 0..(Block - 1) /\ k \in 0..Len(in)
      /\ k = (Len(in) \div Block) * Block /\ Len(in) \div Block \in Nat
      /\ Len(p) = (Len(p) \div Block) * Block /\ Len(p) \div Block \in Nat
  BY SeqDiv, SoftSha2Assumption
<1>2. k % Block = 0
  <2>. DEFINE q == Len(in) \div Block
  <2>1. q \in Nat /\ k = q * Block + 0 /\ 0 \in 0..(Block - 1)
    BY <1>1, SoftSha2Assumption
  <2>. HIDE DEF k, q
  <2>2. (q * Block + 0) % Block = 0  BY <2>1, Quotient, Zenon
  <2>. QED  BY <2>1, <2>2
<1>3. n = (Len(p) \div Block + Len(in) \div Block) * Block + r /\ n \in Nat
  <2>. DEFINE q1 == Len(p) \div Block
              q2 == Len(in) \div Block
  <2>1. /\ q1 \in Nat /\ q2 \in Nat /\ r \in Nat /\ Len(p) = q1 * Block
        /\ Len(in) = q2 * Block + r /\ Len(p) \in Nat /\ Len(in) \in Nat
    BY <1>1, SeqDiv
  <2>. HIDE DEF q1, q2, r
  <2>2. Len(p) + Len(in) = (q1 + q2) * Block + r  BY <2>1, SoftSha2Assumption
  <2>. QED  BY <2>1, <2>2 DEF q1, q2
<1>4. z \in Nat /\ r + 1 + z = size - LenField
  <2>. DEFINE q == Len(p) \div Block + Len(in) \div Block
  <2>1. q \in Nat /\ r \in 0..(Block - 1)  BY <1>1
  <2>2. n = q * Block + r  BY <1>3
  <2>. HIDE DEF q, n, r
  <2>. QED  BY <2>1, <2>2, ZerosFill
<1>5. size \in Nat  BY SoftSha2Assumption DEF PadSize
<1>. HIDE DEF r, size, n, z
<1>6. /\ IsSeq(h) /\ Len(h) = k /\ IsSeq(g) /\ Len(g) = r /\ in = h \o g
  <2>1. /\ IsSeq(h) /\ Len(h) = k /\ IsSeq(g) /\ Len(g) = Len(in) - k /\ in = h \o g
    <3>1. k \in 0..Len(in)  BY <1>1
    <3>. HIDE DEF k
    <3>. QED  BY <3>1, FromFirst
  <2>2. Len(in) - k = r  BY <1>1
  <2>. QED  BY <2>1, <2>2
<1>7. IsSeq(one) /\ Len(one) = 1 /\ IsSeq(f) /\ Len(f) = z /\ IsSeq(l)
  BY <1>4, BytesSeq, LengthSeq
<1>. DEFINE text == g \o one
<1>8. k = Len(in) - r  OBVIOUS
<1>. HIDE DEF h, g, k, one, f, l
<1>9. IsSeq(text) /\ Len(text) = r + 1
  <2>1. IsSeq(g) /\ IsSeq(one)  BY <1>6, <1>7
  <2>2. IsSeq(text) /\ Len(text) = Len(g) + Len(one)  BY <2>1, Concat DEF Joins
  <2>. QED  BY <1>6, <1>7, <2>2
<1>. DEFINE pad == (text \o f) \o l
<1>10. Padded(text, n, size) = pad
  <2>. HIDE DEF text
  <2>1. size = Len(text) + z + LenField
    BY <1>1, <1>4, <1>5, <1>9, SoftSha2Assumption
  <2>2. IsSeq(text) /\ z \in Nat /\ size \in Nat  BY <1>4, <1>5, <1>9
  <2>3. PadsTo(text, z, n, size)  BY <2>1, <2>2, PaddedText, Zenon
  <2>. QED  BY <2>3 DEF PadsTo, f, l
<1>11. IsSeq(text \o f) /\ IsSeq(pad)  BY <1>7, <1>9, Concat DEF Joins
<1>12. /\ IsSeq(p \o in) /\ Len(p \o in) = n
       /\ IsSeq(p \o h) /\ Len(p \o h) = Len(p) + k
  BY <1>6, Concat DEF Joins, n
<1>13. Len(p \o h) % Block = 0
  <2>. DEFINE q == Len(p) \div Block + Len(in) \div Block
  <2>1. q \in Nat /\ Len(p \o h) = q * Block + 0 /\ 0 \in 0..(Block - 1)
    BY <1>1, <1>12, SoftSha2Assumption
  <2>. HIDE DEF q
  <2>. QED  BY <2>1, Quotient
<1>14. (((p \o in) \o one) \o f) \o l = (p \o h) \o pad
  <2>. DEFINE ph == p \o h
              tf == text \o f
  <2>0. IsSeq(g) /\ IsSeq(h) /\ IsSeq(one) /\ IsSeq(f) /\ IsSeq(l)
        /\ IsSeq(text) /\ IsSeq(tf) /\ IsSeq(ph)
    BY <1>6, <1>7, <1>9, <1>11, <1>12
  <2>1. p \o in = ph \o g
    <3>1. Associate(p, h, g)  BY <2>0, Assoc, Zenon
    <3>. QED  BY <1>6, <3>1 DEF Associate
  <2>2. Associate(ph, g, one)  BY <2>0, Assoc, Zenon
  <2>. HIDE DEF text
  <2>3. Associate(ph, text, f)  BY <2>0, Assoc, Zenon
  <2>. HIDE DEF tf
  <2>4. Associate(ph, tf, l)  BY <2>0, Assoc, Zenon
  <2>. HIDE DEF ph
  <2>5. (p \o in) \o one = ph \o text  BY <2>1, <2>2 DEF Associate, text
  <2>6. ((p \o in) \o one) \o f = ph \o tf  BY <2>3, <2>5 DEF Associate, tf
  <2>7. (((p \o in) \o one) \o f) \o l = ph \o (tf \o l)
    BY <2>4, <2>6 DEF Associate
  <2>. QED  BY <2>7 DEF ph, tf
<1>15. Blocks((p \o h) \o pad) = Blocks(p \o h) \o Blocks(pad)
  BY <1>11, <1>12, <1>13, BlocksConcat
<1>16. Blocks(p \o h) = Blocks(p) \o Blocks(h)  BY <1>6, BlocksConcat
<1>17. Blocks(in) = Blocks(h)  
  <2>1. Len(h) % Block = 0 /\ Len(g) < Block
    BY <1>1, <1>2, <1>6, SoftSha2Assumption
  <2>. QED  BY <1>6, <2>1, NoBlock
<1>18. Sha2(p \o in) = Digest((Blocks(p) \o Blocks(in)) \o Blocks(pad))
  <2>1. Sha2(p \o in) = Digest(Blocks((((p \o in) \o one) \o f) \o l))
    BY <1>12 DEF Sha2, one, f, l, z, ZerosOf
  <2>. QED  BY <2>1, <1>14, <1>15, <1>16, <1>17
<1>19. IncFinalize([chain |-> Blocks(p), bytes |-> Len(p)], in)
         = Digest((Blocks(p) \o Blocks(in)) \o Blocks(Padded(text, n, size)))
  BY DEF IncFinalize, Padded, PadSize, text, n, size, r, g, k, one
<1>. QED  BY <1>10, <1>18, <1>19

-----------------------------------------------------------------------------
(* The incremental interface *)

\* The state has taken in p, whole blocks.
Holds(st, p) ==
  /\ IsSeq(p) /\ Len(p) % Block = 0
  /\ st = [chain |-> Blocks(p), bytes |-> Len(p)]

LEMMA EmptySeq == IsSeq(<< >>) /\ Len(<< >>) = 0
<1>1. << >> \in Seq({})  OBVIOUS
<1>. QED  BY <1>1, SeqOf

LEMMA EmptyLeft ==
  ASSUME NEW s, IsSeq(s) PROVE << >> \o s = s
<1>1. s \in Seq({s[i] : i \in DOMAIN s})  BY DEF IsSeq
<1>. QED  BY <1>1

LEMMA HoldsInit == Holds(IncInit, << >>)
<1>1. 0 % Block = 0 /\ 0 \div Block = 0  BY SoftSha2Assumption
<1>2. IsSeq(Blocks(<< >>)) /\ Len(Blocks(<< >>)) = 0  BY <1>1, EmptySeq, BlocksSeq
<1>3. Blocks(<< >>) = << >>  BY <1>2, EmptySeq, SeqEqual
<1>. QED  BY <1>1, <1>3, EmptySeq DEF Holds, IncInit

LEMMA HoldsCounts ==
  ASSUME NEW st, NEW p, Holds(st, p) PROVE st.bytes = Block * Len(st.chain)
<1>1. IsSeq(p) /\ Len(p) % Block = 0 /\ st.chain = Blocks(p) /\ st.bytes = Len(p)
  BY DEF Holds
<1>2. Len(st.chain) = Len(p) \div Block  BY <1>1, BlocksSeq
<1>3. /\ Len(p) \in Nat /\ Len(p) \div Block \in Nat
      /\ Len(p) = (Len(p) \div Block) * Block + (Len(p) % Block)
  BY <1>1, SeqDiv, Zenon
<1>. QED  BY <1>1, <1>2, <1>3, SoftSha2Assumption

LEMMA HoldsBlocks ==
  ASSUME NEW st, NEW p, NEW in, Holds(st, p), IsSeq(in), Len(in) % Block = 0
  PROVE  Holds(IncBlocks(st, in), p \o in)
<1>1. IsSeq(p) /\ Len(p) % Block = 0 /\ st.chain = Blocks(p) /\ st.bytes = Len(p)
  BY DEF Holds
<1>2. Joins(p, in)  BY <1>1, Concat
<1>3. Blocks(p \o in) = Blocks(p) \o Blocks(in)  BY <1>1, BlocksConcat
<1>4. /\ Len(p) \in Nat /\ Len(p) \div Block \in Nat /\ Len(p) = (Len(p) \div Block) * Block
      /\ Len(in) \in Nat /\ Len(in) \div Block \in Nat
      /\ Len(in) = (Len(in) \div Block) * Block
  BY <1>1, SeqDiv, SoftSha2Assumption
<1>5. Len(p \o in) % Block = 0
  <2>. DEFINE q == Len(p) \div Block + Len(in) \div Block
  <2>1. q \in Nat /\ Len(p \o in) = q * Block + 0 /\ 0 \in 0..(Block - 1)
    BY <1>2, <1>4, SoftSha2Assumption DEF Joins
  <2>. HIDE DEF q
  <2>. QED  BY <2>1, Quotient
<1>. QED  BY <1>1, <1>2, <1>3, <1>5 DEF Holds, IncBlocks, Joins

LEMMA HoldsFinal ==
  ASSUME NEW st, NEW p, NEW in, Holds(st, p), IsSeq(in)
  PROVE  IncFinalize(st, in) = Sha2(p \o in)
BY Finalize DEF Holds

Key(of, pad) == Bytes(of, N) \o Fill(pad, Block - N)

LEMMA KeySeq ==
  ASSUME NEW of, NEW pad
  PROVE  /\ IsSeq(Key(of, pad)) /\ Len(Key(of, pad)) = Block
         /\ Len(Key(of, pad)) % Block = 0
<1>. DEFINE a == Bytes(of, N)
            b == Fill(pad, Block - N)
<1>1. N \in Nat /\ Block \in Nat /\ Block - N \in Nat  BY SoftSha2Assumption
<1>2. IsSeq(a) /\ Len(a) = N /\ IsSeq(b) /\ Len(b) = Block - N
  BY <1>1, BytesSeq
<1>. HIDE DEF a, b
<1>3. Joins(a, b)  BY <1>2, Concat
<1>4. IsSeq(a \o b) /\ Len(a \o b) = Block  BY <1>1, <1>2, <1>3 DEF Joins
<1>5. Block % Block = 0  BY SoftSha2Assumption
<1>. QED  BY <1>4, <1>5 DEF Key, a, b

LEMMA HoldsKey ==
  ASSUME NEW of, NEW pad
  PROVE  Holds(IncBlocks(IncInit, Key(of, pad)), Key(of, pad))
<1>1. Holds(IncBlocks(IncInit, Key(of, pad)), << >> \o Key(of, pad))
  BY HoldsInit, KeySeq, HoldsBlocks
<1>2. << >> \o Key(of, pad) = Key(of, pad)  BY KeySeq, EmptyLeft
<1>. QED  BY <1>1, <1>2

LEMMA Sha2Seq ==
  ASSUME NEW s PROVE IsSeq(Sha2(s)) /\ Len(Sha2(s)) = Output
BY DigestSeq DEF Sha2

-----------------------------------------------------------------------------
(* The inductive invariant: what the state, the message and the digest     *)
(* hold at each step, as parts of the input that the call promises to hash *)

Start == IF call.op = "random" THEN Key("ipad^sk_prf", "ipad") ELSE << >>
Input == Prefix \o Bytes("m", call.len)

Mgf1Seed == Bytes("R", N) \o Bytes("pk", N) \o Sha2(Start \o Input)

CallOK ==
  /\ pc \in {"start", "idle", "fill", "rest", "outer", "mgf1"}
  /\ call.len \in Nat /\ call.outlen \in Nat
  /\ pc = "start" => call.op = "none"
  /\ pc \in {"fill", "rest", "outer"} => call.op \in {"random", "message"}
  /\ pc = "mgf1" => call.op = "message"

CtxOK ==
  /\ pc = "start" => ctx = IncInit
  /\ pc # "start" => Holds(ctx, Key("pub_seed", "0"))

StateOK == \E p : Holds(state, p)

FillOK == pc = "fill" => Holds(state, Start) /\ m = Bytes("m", call.len)

RestOK ==
  pc = "rest" =>
    /\ IsSeq(m)
    /\ \E p : Holds(state, p) /\ p \o m = Start \o Input

OuterOK == pc = "outer" => seed = Sha2(Start \o Input)

Mgf1OK ==
  pc = "mgf1" =>
    /\ seed = Mgf1Seed /\ IsSeq(out) /\ Len(out) <= call.outlen
    /\ Len(out) = call.outlen \/ Len(out) % Output = 0
    /\ \A j \in 1..Len(out) : out[j] = Mgf1Byte(seed, j)

IInv ==
  /\ CallOK /\ CtxOK /\ StateOK /\ FillOK /\ RestOK /\ OuterOK /\ Mgf1OK
  /\ ReturnsThePromised

LEMMA InitIInv == Init => IInv
<1>. SUFFICES ASSUME Init PROVE IInv  OBVIOUS
<1>1. CallOK /\ CtxOK /\ FillOK /\ RestOK /\ OuterOK /\ Mgf1OK /\ ReturnsThePromised
  BY DEF Init, CallOK, CtxOK, FillOK, RestOK, OuterOK, Mgf1OK, ReturnsThePromised
<1>2. StateOK  BY HoldsInit DEF Init, StateOK
<1>. QED  BY <1>1, <1>2 DEF IInv

LEMMA InitializeIInv == IInv /\ Initialize => IInv'
<1>. SUFFICES ASSUME IInv, Initialize PROVE IInv'  OBVIOUS
<1>1. Holds(ctx', Key("pub_seed", "0"))
  BY HoldsKey DEF Initialize, SeedState, Key
<1>2. CallOK' /\ CtxOK'  BY <1>1 DEF IInv, CallOK, CtxOK, Initialize
<1>3. StateOK'  BY DEF IInv, StateOK, Initialize
<1>4. FillOK' /\ RestOK' /\ OuterOK' /\ Mgf1OK'
  BY DEF FillOK, RestOK, OuterOK, Mgf1OK, Initialize
<1>5. ReturnsThePromised'
  BY DEF IInv, CallOK, Initialize, ReturnsThePromised
<1>. QED  BY <1>2, <1>3, <1>4, <1>5 DEF IInv

\* The seeded state finishes a tweaked hash.
LEMMA TweakedHashIInv ==
  ASSUME IInv, NEW of \in {"in", "sk_seed"}, NEW n \in Nat, TweakedHash(of, n)
  PROVE  IInv'
<1>. DEFINE a == Bytes("addr", AddrBytes)
            b == Bytes(of, n)
            k == Key("pub_seed", "0")
<1>1. IsSeq(a) /\ IsSeq(b) /\ IsSeq(k)  BY BytesSeq, KeySeq, SoftSha2Assumption
<1>2. Holds(ctx, k)  BY DEF IInv, CtxOK, TweakedHash, Idle
<1>3. result' = First(IncFinalize(ctx, a \o b), N)
      /\ call' = [op |-> of, len |-> n, outlen |-> N] /\ pc' = pc /\ pc = "idle"
  BY DEF TweakedHash, Idle
<1>4. result' = First(Sha2((k \o a) \o b), N)
  <2>. HIDE DEF a, b, k
  <2>1. IsSeq(a \o b)  BY <1>1, Concat DEF Joins
  <2>2. IncFinalize(ctx, a \o b) = Sha2(k \o (a \o b))  BY <1>2, <2>1, HoldsFinal, Zenon
  <2>3. Associate(k, a, b)  BY <1>1, Assoc, Zenon
  <2>. QED  BY <1>3, <2>2, <2>3 DEF Associate
<1>5. ReturnsThePromised'
  <2>1. call'.op = of /\ call'.len = n /\ call'.op \in {"in", "sk_seed"}  BY <1>3
  <2>2. Promised' = First(Sha2((k \o a) \o b), N)
    BY <2>1 DEF Promised, Key
  <2>. QED  BY <1>4, <2>2 DEF ReturnsThePromised
<1>6. CallOK'  BY <1>3, SoftSha2Assumption DEF CallOK
<1>7. CtxOK' /\ StateOK'  BY DEF IInv, CtxOK, StateOK, TweakedHash
<1>8. FillOK' /\ RestOK' /\ OuterOK' /\ Mgf1OK'
  BY <1>3 DEF FillOK, RestOK, OuterOK, Mgf1OK
<1>. QED  BY <1>5, <1>6, <1>7, <1>8 DEF IInv

LEMMA ThashIInv == ASSUME IInv, NEW n \in InBlocks, Thash(n) PROVE IInv'
<1>1. n * N \in Nat  BY SoftSha2Assumption
<1>. QED  BY <1>1, TweakedHashIInv DEF Thash

LEMMA PrfAddrIInv == ASSUME IInv, PrfAddr PROVE IInv'
<1>1. N \in Nat  BY SoftSha2Assumption
<1>. QED  BY <1>1, TweakedHashIInv DEF PrfAddr

LEMMA GenMessageRandomIInv ==
  ASSUME IInv, NEW mlen \in MLens, GenMessageRandom(mlen) PROVE IInv'
<1>1. /\ call' = [op |-> "random", len |-> mlen, outlen |-> N]
      /\ m' = Bytes("m", mlen) /\ pc' = "fill" /\ ctx' = ctx /\ pc = "idle"
      /\ state' = IncBlocks(IncInit, Key("ipad^sk_prf", "ipad"))
  BY DEF GenMessageRandom, Idle, Key
<1>2. mlen \in Nat /\ N \in Nat  BY SoftSha2Assumption
<1>3. CallOK'  BY <1>1, <1>2 DEF CallOK
<1>4. Start' = Key("ipad^sk_prf", "ipad")  BY <1>1 DEF Start
<1>5. Holds(state', Start')  BY <1>1, <1>4, HoldsKey
<1>6. FillOK' /\ StateOK'  BY <1>1, <1>5 DEF FillOK, StateOK
<1>7. CtxOK'  BY <1>1 DEF IInv, CtxOK
<1>8. RestOK' /\ OuterOK' /\ Mgf1OK' /\ ReturnsThePromised'
  BY <1>1 DEF RestOK, OuterOK, Mgf1OK, ReturnsThePromised
<1>. QED  BY <1>3, <1>6, <1>7, <1>8 DEF IInv

LEMMA HashMessageIInv ==
  ASSUME IInv, NEW mlen \in MLens, NEW outlen \in DgstBytes, HashMessage(mlen, outlen)
  PROVE  IInv'
<1>1. /\ call' = [op |-> "message", len |-> mlen, outlen |-> outlen]
      /\ m' = Bytes("m", mlen) /\ pc' = "fill" /\ ctx' = ctx /\ pc = "idle"
      /\ state' = IncInit
  BY DEF HashMessage, Idle
<1>2. mlen \in Nat /\ outlen \in Nat  BY SoftSha2Assumption
<1>3. CallOK'  BY <1>1, <1>2 DEF CallOK
<1>4. Start' = << >>  BY <1>1 DEF Start
<1>5. Holds(state', Start')  BY <1>1, <1>4, HoldsInit
<1>6. FillOK' /\ StateOK'  BY <1>1, <1>5 DEF FillOK, StateOK
<1>7. CtxOK'  BY <1>1 DEF IInv, CtxOK
<1>8. RestOK' /\ OuterOK' /\ Mgf1OK' /\ ReturnsThePromised'
  BY <1>1 DEF RestOK, OuterOK, Mgf1OK, ReturnsThePromised
<1>. QED  BY <1>3, <1>6, <1>7, <1>8 DEF IInv

\* What goes before the message fits the blocks that are filled.
LEMMA PrefixFits ==
  /\ IsSeq(Prefix) /\ Len(Prefix) \in Nat
  /\ FillSize \in Nat /\ FillSize % Block = 0 /\ Len(Prefix) <= FillSize
<1>1. N \in Nat /\ 2 * N \in Nat /\ N <= Block /\ Block \in Nat /\ Block > 0
  BY SoftSha2Assumption
<1>2. CASE call.op = "random"
  <2>1. Prefix = Bytes("optrand", N) /\ FillSize = Block
    BY <1>2 DEF Prefix, FillSize
  <2>2. IsSeq(Prefix) /\ Len(Prefix) = N  BY <1>1, <2>1, BytesSeq
  <2>. QED  BY <1>1, <2>1, <2>2
<1>3. CASE call.op # "random"
  <2>. DEFINE a == Bytes("R", N)
              b == Bytes("pk", 2 * N)
  <2>1. IsSeq(a) /\ Len(a) = N /\ IsSeq(b) /\ Len(b) = 2 * N  BY <1>1, BytesSeq
  <2>2. Prefix = a \o b  BY <1>3 DEF Prefix
  <2>. HIDE DEF a, b
  <2>3. Joins(a, b)  BY <2>1, Concat
  <2>4. IsSeq(Prefix) /\ Len(Prefix) = 3 * N /\ 3 * N \in Nat
    BY <1>1, <2>1, <2>2, <2>3 DEF Joins
  <2>. DEFINE w == 3 * N + Block - 1
              q == w \div Block
  <2>5. w \in Nat /\ w = 3 * N + (Block - 1)  BY <1>1, <2>4
  <2>6. FillSize = q * Block  BY <1>3 DEF FillSize
  <2>. HIDE DEF w
  <2>7. q \in Nat /\ w % Block \in 0..(Block - 1) /\ w = q * Block + (w % Block)
    BY <2>5, DivMod
  <2>. HIDE DEF q
  <2>8. q * Block \in Nat /\ (q * Block + 0) % Block = 0 /\ q * Block + 0 = q * Block
    BY <1>1, <2>7, Quotient
  <2>9. 3 * N <= q * Block  BY <1>1, <2>4, <2>5, <2>7, <2>8
  <2>. QED  BY <2>4, <2>6, <2>8, <2>9
<1>. QED  BY <1>2, <1>3

LEMMA StartSeq == IsSeq(Start)
BY KeySeq, EmptySeq DEF Start

LEMMA InputSeq ==
  ASSUME CallOK
  PROVE  IsSeq(Bytes("m", call.len)) /\ IsSeq(Input)
<1>1. IsSeq(Bytes("m", call.len))  BY BytesSeq DEF CallOK
<1>2. Joins(Prefix, Bytes("m", call.len))  BY <1>1, PrefixFits, Concat, Zenon
<1>. QED  BY <1>1, <1>2 DEF Input, Joins

LEMMA SameCall ==
  ASSUME call' = call
  PROVE  Start' = Start /\ Prefix' = Prefix /\ Input' = Input /\ FillSize' = FillSize
         /\ Mgf1Seed' = Mgf1Seed
BY DEF Start, Prefix, Input, FillSize, Mgf1Seed

LEMMA FillShortIInv == ASSUME IInv, FillShort PROVE IInv'
<1>. DEFINE b == Bytes("m", call.len)
<1>1. /\ pc = "fill" /\ pc' = "outer" /\ call' = call /\ ctx' = ctx /\ state' = state
      /\ seed' = IncFinalize(state, Prefix \o m)
  BY DEF FillShort
<1>2. CallOK /\ Holds(state, Start) /\ m = b
  BY <1>1 DEF IInv, FillOK
<1>3. seed' = Sha2(Start \o Input)
  <2>1. IsSeq(Input) /\ Prefix \o m = Input  BY <1>2, InputSeq DEF Input
  <2>2. IncFinalize(state, Input) = Sha2(Start \o Input)
    BY <1>2, <2>1, HoldsFinal, Zenon
  <2>. QED  BY <1>1, <2>1, <2>2
<1>4. OuterOK'  BY <1>1, <1>3, SameCall DEF OuterOK
<1>5. CallOK' /\ CtxOK' /\ StateOK'
  BY <1>1 DEF IInv, CallOK, CtxOK, StateOK
<1>6. FillOK' /\ RestOK' /\ Mgf1OK' /\ ReturnsThePromised'
  BY <1>1 DEF FillOK, RestOK, Mgf1OK, ReturnsThePromised
<1>. QED  BY <1>4, <1>5, <1>6 DEF IInv

LEMMA FillBlockIInv == ASSUME IInv, FillBlock PROVE IInv'
<1>. DEFINE b == Bytes("m", call.len)
            k == FillSize - Len(Prefix)
            f == First(m, k)
            g == From(m, k)
            x == Prefix \o f
<1>1. /\ pc = "fill" /\ pc' = "rest" /\ call' = call /\ ctx' = ctx
      /\ state' = IncBlocks(state, x) /\ m' = g /\ ~CannotFill
  BY DEF FillBlock
<1>2. CallOK /\ Holds(state, Start) /\ m = b /\ IsSeq(m)
  BY <1>1, InputSeq DEF IInv, FillOK
<1>3. k \in 0..Len(m)
  <2>1. Len(m) \in Nat  BY <1>2, SeqLen
  <2>. QED  BY <1>1, <2>1, PrefixFits DEF CannotFill
<1>4. IsSeq(f) /\ Len(f) = k /\ IsSeq(g) /\ m = f \o g
  <2>. HIDE DEF k
  <2>. QED  BY <1>2, <1>3, FromFirst, Zenon
<1>5. IsSeq(x) /\ Len(x) % Block = 0
  <2>1. Joins(Prefix, f)  BY <1>4, PrefixFits, Concat, Zenon
  <2>2. Len(x) = FillSize  BY <1>4, <2>1, PrefixFits DEF Joins
  <2>. QED  BY <2>1, <2>2, PrefixFits DEF Joins
<1>6. Holds(state', Start \o x)
  <2>. HIDE DEF x
  <2>1. Holds(IncBlocks(state, x), Start \o x)  BY <1>2, <1>5, HoldsBlocks, Zenon
  <2>. QED  BY <1>1, <2>1
<1>7. (Start \o x) \o g = Start \o Input
  <2>. HIDE DEF f, g
  <2>1. Associate(Prefix, f, g)  BY <1>4, PrefixFits, Assoc, Zenon
  <2>2. x \o g = Input  BY <1>2, <1>4, <2>1 DEF Associate, Input
  <2>. HIDE DEF x
  <2>3. Associate(Start, x, g)  BY <1>4, <1>5, StartSeq, Assoc, Zenon
  <2>. QED  BY <2>2, <2>3 DEF Associate
<1>8. RestOK'
  <2>. DEFINE p == Start \o x
  <2>. HIDE DEF p, g
  <2>1. Holds(state', p) /\ p \o m' = Start' \o Input'
    BY <1>1, <1>6, <1>7, SameCall DEF p
  <2>. QED  BY <1>1, <1>4, <2>1 DEF RestOK
<1>9. StateOK'  BY <1>6 DEF StateOK
<1>10. CallOK' /\ CtxOK'  BY <1>1 DEF IInv, CallOK, CtxOK
<1>11. FillOK' /\ OuterOK' /\ Mgf1OK' /\ ReturnsThePromised'
  BY <1>1 DEF FillOK, OuterOK, Mgf1OK, ReturnsThePromised
<1>. QED  BY <1>8, <1>9, <1>10, <1>11 DEF IInv

LEMMA FinalizeRestIInv == ASSUME IInv, FinalizeRest PROVE IInv'
<1>1. /\ pc = "rest" /\ pc' = "outer" /\ call' = call /\ ctx' = ctx /\ state' = state
      /\ seed' = IncFinalize(state, m)
  BY DEF FinalizeRest
<1>2. IsSeq(m) /\ \E p : Holds(state, p) /\ p \o m = Start \o Input
  BY <1>1 DEF IInv, RestOK
<1>3. PICK p : Holds(state, p) /\ p \o m = Start \o Input  BY <1>2
<1>4. seed' = Sha2(Start \o Input)
  <2>1. IncFinalize(state, m) = Sha2(p \o m)  BY <1>2, <1>3, HoldsFinal, Zenon
  <2>. QED  BY <1>1, <1>3, <2>1
<1>5. OuterOK'  BY <1>1, <1>4, SameCall DEF OuterOK
<1>6. CallOK' /\ CtxOK' /\ StateOK'
  BY <1>1 DEF IInv, CallOK, CtxOK, StateOK
<1>7. FillOK' /\ RestOK' /\ Mgf1OK' /\ ReturnsThePromised'
  BY <1>1 DEF FillOK, RestOK, Mgf1OK, ReturnsThePromised
<1>. QED  BY <1>5, <1>6, <1>7 DEF IInv

LEMMA ReturnIInv ==
  ASSUME IInv, Return, call' = call, ctx' = ctx, pc # "start",
         result' = Promised
  PROVE  IInv'
<1>1. pc' = "idle" /\ state' = IncInit  BY DEF Return
<1>2. Promised' = Promised
  BY DEF Promised, Hmac, Mgf1Byte
<1>3. ReturnsThePromised'  BY <1>1, <1>2 DEF ReturnsThePromised
<1>4. CallOK' /\ CtxOK'  BY <1>1 DEF IInv, CallOK, CtxOK
<1>5. StateOK'  BY <1>1, HoldsInit DEF StateOK
<1>6. FillOK' /\ RestOK' /\ OuterOK' /\ Mgf1OK'
  BY <1>1 DEF FillOK, RestOK, OuterOK, Mgf1OK
<1>. QED  BY <1>3, <1>4, <1>5, <1>6 DEF IInv

LEMMA OuterRandomIInv == ASSUME IInv, OuterRandom PROVE IInv'
<1>1. /\ pc = "outer" /\ call.op = "random" /\ Return /\ call' = call /\ ctx' = ctx
      /\ result' = First(Sha2(Key("opad^sk_prf", "opad") \o seed), N)
  BY DEF OuterRandom, Key
<1>2. seed = Sha2(Start \o Input)  BY <1>1 DEF IInv, OuterOK
<1>3. /\ Start = Key("ipad^sk_prf", "ipad")
      /\ Input = Bytes("optrand", N) \o Bytes("m", call.len)
  BY <1>1 DEF Start, Input, Prefix
<1>4. Promised = First(Hmac(Input), N)  BY <1>1, <1>3 DEF Promised
<1>5. Hmac(Input) = Sha2(Key("opad^sk_prf", "opad") \o seed)
  BY <1>2, <1>3 DEF Hmac, Key
<1>6. result' = Promised  BY <1>1, <1>4, <1>5
<1>. QED  BY <1>1, <1>6, ReturnIInv

LEMMA OuterMessageIInv == ASSUME IInv, OuterMessage PROVE IInv'
<1>1. /\ pc = "outer" /\ pc' = "mgf1" /\ call.op = "message" /\ call' = call
      /\ ctx' = ctx /\ state' = state /\ out' = << >>
      /\ seed' = Bytes("R", N) \o Bytes("pk", N) \o seed
  BY DEF OuterMessage
<1>2. seed = Sha2(Start \o Input)  BY <1>1 DEF IInv, OuterOK
<1>3. seed' = Mgf1Seed'  BY <1>1, <1>2, SameCall DEF Mgf1Seed
<1>4. call.outlen \in Nat  BY DEF IInv, CallOK
<1>5. 0 % Output = 0  BY SoftSha2Assumption
<1>6. Mgf1OK'
  BY <1>1, <1>3, <1>4, <1>5, EmptySeq DEF Mgf1OK
<1>7. CallOK' /\ CtxOK' /\ StateOK'
  BY <1>1 DEF IInv, CallOK, CtxOK, StateOK
<1>8. FillOK' /\ RestOK' /\ OuterOK' /\ ReturnsThePromised'
  BY <1>1 DEF FillOK, RestOK, OuterOK, ReturnsThePromised
<1>. QED  BY <1>6, <1>7, <1>8 DEF IInv

LEMMA OutputQuotient ==
  ASSUME NEW q \in Nat, NEW r \in 0..(Output - 1)
  PROVE  (q * Output + r) \div Output = q /\ (q * Output + r) % Output = r
BY SoftSha2Assumption

LEMMA OutputDivMod ==
  ASSUME NEW n \in Nat
  PROVE  n \div Output \in Nat /\ n = (n \div Output) * Output + (n % Output)
BY SoftSha2Assumption

LEMMA Mgf1TurnIInv == ASSUME IInv, Mgf1Turn PROVE IInv'
<1>. DEFINE n    == Len(out)
            i    == n \div Output
            left == call.outlen - n
            w    == IF left < Output THEN left ELSE Output
            d    == Sha2(seed \o Counter(i))
            f    == First(d, w)
            u    == out \o f
<1>1. /\ pc = "mgf1" /\ pc' = pc /\ call' = call /\ ctx' = ctx /\ state' = state
      /\ seed' = seed /\ n < call.outlen /\ out' = u
  BY DEF Mgf1Turn
<1>2. /\ seed = Mgf1Seed /\ IsSeq(out) /\ n <= call.outlen
      /\ n = call.outlen \/ n % Output = 0
      /\ \A j \in 1..n : out[j] = Mgf1Byte(seed, j)
  BY <1>1 DEF IInv, Mgf1OK
<1>3. call.outlen \in Nat /\ n \in Nat /\ Output \in Nat /\ Output > 0
  BY <1>2, SeqLen, SoftSha2Assumption DEF IInv, CallOK
<1>4. i \in Nat /\ n = i * Output
  <2>1. n % Output = 0  BY <1>1, <1>2, <1>3
  <2>. HIDE DEF n
  <2>2. n \div Output \in Nat /\ n = (n \div Output) * Output + (n % Output)
    BY <1>3, OutputDivMod
  <2>. QED  BY <1>3, <2>1, <2>2
<1>5. w \in 0..Output /\ w \in 0..left /\ (w = left \/ w = Output)
  BY <1>1, <1>3
<1>6. IsSeq(d) /\ Len(d) = Output  BY Sha2Seq
<1>. HIDE DEF w, d, i
<1>7. IsSeq(f) /\ Len(f) = w /\ \A j \in 1..w : f[j] = d[j]
  <2>1. w \in 0..Len(d)  BY <1>5, <1>6
  <2>. QED  BY <1>6, <2>1, FromFirst, Zenon
<1>. HIDE DEF f
<1>8. /\ IsSeq(u) /\ Len(u) = n + w
      /\ \A j \in 1..n : u[j] = out[j]
      /\ \A j \in 1..w : u[n + j] = f[j]
  <2>1. Joins(out, f)  BY <1>2, <1>7, Concat, Zenon
  <2>. QED  BY <1>7, <2>1 DEF Joins
<1>. HIDE DEF u, n
<1>9. ASSUME NEW j \in 1..(n + w) PROVE u[j] = Mgf1Byte(seed, j)
  <2>1. CASE j <= n  BY <1>2, <1>3, <1>8, <2>1
  <2>2. CASE ~(j <= n)
    <3>1. PICK t \in 1..w : j = n + t
      <4>1. j - n \in 1..w /\ j = n + (j - n)  BY <1>3, <1>5, <2>2
      <4>. QED  BY <4>1
    <3>2. u[j] = d[t]  BY <1>7, <1>8, <3>1
    <3>3. (j - 1) \div Output = i /\ (j - 1) % Output = t - 1
      <4>1. j - 1 = i * Output + (t - 1) /\ t - 1 \in 0..(Output - 1)
        BY <1>3, <1>4, <1>5, <3>1
      <4>. QED  BY <1>4, <4>1, OutputQuotient
    <3>4. 1 + ((j - 1) % Output) = t  BY <3>3, <1>5, <3>1
    <3>5. Mgf1Byte(seed, j) = d[t]  BY <3>3, <3>4 DEF Mgf1Byte, d
    <3>. QED  BY <3>2, <3>5
  <2>. QED  BY <2>1, <2>2
<1>10. n + w <= call.outlen /\ (n + w = call.outlen \/ (n + w) % Output = 0)
  <2>1. CASE w = left  BY <1>3, <2>1
  <2>2. CASE w = Output
    <3>1. n + w = (i + 1) * Output + 0 /\ i + 1 \in Nat /\ 0 \in 0..(Output - 1)
      BY <1>3, <1>4, <2>2
    <3>2. (n + w) % Output = 0  BY <3>1, OutputQuotient
    <3>3. n + w <= call.outlen  BY <1>3, <1>5
    <3>. QED  BY <3>2, <3>3
  <2>. QED  BY <1>5, <2>1, <2>2
<1>11. Mgf1OK'
  <2>1. seed' = Mgf1Seed'  BY <1>1, <1>2, SameCall
  <2>2. Len(out') = n + w /\ IsSeq(out')  BY <1>1, <1>8
  <2>3. Len(out') <= call'.outlen /\ (Len(out') = call'.outlen \/ Len(out') % Output = 0)
    BY <1>1, <1>10, <2>2
  <2>4. \A j \in 1..Len(out') : out'[j] = Mgf1Byte(seed', j)
    BY <1>1, <1>9, <2>2 DEF Mgf1Byte
  <2>. QED  BY <2>1, <2>2, <2>3, <2>4 DEF Mgf1OK
<1>12. CallOK' /\ CtxOK' /\ StateOK'
  BY <1>1 DEF IInv, CallOK, CtxOK, StateOK
<1>13. FillOK' /\ RestOK' /\ OuterOK' /\ ReturnsThePromised'
  BY <1>1 DEF FillOK, RestOK, OuterOK, ReturnsThePromised
<1>. QED  BY <1>11, <1>12, <1>13 DEF IInv

LEMMA Mgf1ReturnIInv == ASSUME IInv, Mgf1Return PROVE IInv'
<1>1. /\ pc = "mgf1" /\ Len(out) = call.outlen /\ result' = out /\ Return
      /\ call' = call /\ ctx' = ctx
  BY DEF Mgf1Return
<1>2. CallOK /\ Mgf1OK  BY DEF IInv
<1>3. call.op = "message" /\ call.outlen \in Nat  BY <1>1, <1>2 DEF CallOK
<1>4. /\ seed = Mgf1Seed /\ IsSeq(out)
      /\ \A j \in 1..Len(out) : out[j] = Mgf1Byte(seed, j)
  BY <1>1, <1>2 DEF Mgf1OK
<1>. DEFINE x == Prefix \o Bytes("m", call.len)
            p == [j \in 1..call.outlen |-> Mgf1Byte(Mgf1Seed, j)]
<1>5. Start \o Input = x
  <2>1. IsSeq(Input)  BY <1>2, InputSeq
  <2>2. << >> \o Input = Input  BY <2>1, EmptyLeft
  <2>. QED  BY <1>3, <2>2 DEF Start, Input
<1>6. Promised = p
  <2>1. x = Bytes("R", N) \o Bytes("pk", 2 * N) \o Bytes("m", call.len)
    BY <1>3 DEF Prefix
  <2>. QED  BY <1>3, <1>5, <2>1 DEF Promised, Mgf1Seed
<1>7. \A j \in 1..call.outlen : p[j] = Mgf1Byte(Mgf1Seed, j)  OBVIOUS
<1>8. p = [j \in 1..call.outlen |-> p[j]]  OBVIOUS
<1>. HIDE DEF p
<1>9. IsSeq(p) /\ Len(p) = call.outlen  BY <1>3, <1>8, FunSeq, Zenon
<1>10. \A j \in 1..Len(out) : out[j] = p[j]  BY <1>1, <1>4, <1>7
<1>11. out = p  BY <1>1, <1>4, <1>9, <1>10, SeqEqual
<1>. QED  BY <1>1, <1>6, <1>11, ReturnIInv

LEMMA StutterIInv == ASSUME IInv, UNCHANGED vars PROVE IInv'
<1>1. /\ pc' = pc /\ call' = call /\ ctx' = ctx /\ state' = state /\ m' = m
      /\ seed' = seed /\ out' = out /\ result' = result
  BY DEF vars
<1>2. CallOK' /\ CtxOK' /\ StateOK'  BY <1>1 DEF IInv, CallOK, CtxOK, StateOK
<1>3. FillOK' /\ RestOK' /\ OuterOK'
  BY <1>1, SameCall DEF IInv, FillOK, RestOK, OuterOK
<1>4. Mgf1OK'  BY <1>1, SameCall DEF IInv, Mgf1OK, Mgf1Byte
<1>5. Promised' = Promised  BY <1>1 DEF Promised, Hmac, Mgf1Byte
<1>6. ReturnsThePromised'  BY <1>1, <1>5 DEF IInv, ReturnsThePromised
<1>. QED  BY <1>2, <1>3, <1>4, <1>6 DEF IInv

LEMMA NextIInv == IInv /\ [Next]_vars => IInv'
<1>. SUFFICES ASSUME IInv, [Next]_vars PROVE IInv'  OBVIOUS
<1>1. CASE Initialize  BY <1>1, InitializeIInv
<1>2. ASSUME NEW n \in InBlocks, Thash(n) PROVE IInv'  BY <1>2, ThashIInv
<1>3. CASE PrfAddr  BY <1>3, PrfAddrIInv
<1>4. ASSUME NEW mlen \in MLens, GenMessageRandom(mlen) PROVE IInv'
  BY <1>4, GenMessageRandomIInv
<1>5. ASSUME NEW mlen \in MLens, NEW outlen \in DgstBytes, HashMessage(mlen, outlen)
      PROVE  IInv'
  BY <1>5, HashMessageIInv
<1>6. CASE FillShort  BY <1>6, FillShortIInv
<1>7. CASE FillBlock  BY <1>7, FillBlockIInv
<1>8. CASE FinalizeRest  BY <1>8, FinalizeRestIInv
<1>9. CASE OuterRandom  BY <1>9, OuterRandomIInv
<1>10. CASE OuterMessage  BY <1>10, OuterMessageIInv
<1>11. CASE Mgf1Turn  BY <1>11, Mgf1TurnIInv
<1>12. CASE Mgf1Return  BY <1>12, Mgf1ReturnIInv
<1>13. CASE UNCHANGED vars  BY <1>13, StutterIInv
<1>. QED
  BY <1>1, <1>2, <1>3, <1>4, <1>5, <1>6, <1>7, <1>8, <1>9, <1>10, <1>11, <1>12, <1>13
  DEF Next

LEMMA AlwaysIInv == Spec => []IInv
BY InitIInv, NextIInv, PTL DEF Spec

-----------------------------------------------------------------------------
(* The theorems *)

\* Each tweaked hash, HMAC and MGF1 of sha2.c's callers is that of its whole
\* input, for every size of block, length field, digest, address and message.
THEOREM PromiseSafe == Spec => []ReturnsThePromised
<1>1. IInv => ReturnsThePromised  BY DEF IInv
<1>. QED  BY <1>1, AlwaysIInv, PTL

\* The length that sha256_inc_finalize and sha512_inc_finalize will pad in is
\* that of the blocks compressed, whatever the order of the calls.
THEOREM CountSafe == Spec => []CountsItsBlocks
<1>1. IInv => CountsItsBlocks
  <2>. SUFFICES ASSUME IInv PROVE CountsItsBlocks  OBVIOUS
  <2>1. ctx.bytes = Block * Len(ctx.chain)
    <3>1. \E p : Holds(ctx, p)  BY HoldsInit DEF IInv, CtxOK
    <3>. QED  BY <3>1, HoldsCounts
  <2>2. state.bytes = Block * Len(state.chain)
    <3>1. \E p : Holds(state, p)  BY DEF IInv, StateOK
    <3>. QED  BY <3>1, HoldsCounts
  <2>. QED  BY <2>1, <2>2 DEF CountsItsBlocks
<1>. QED  BY <1>1, AlwaysIInv, PTL
=============================================================================
