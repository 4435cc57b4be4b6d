---------------------------- MODULE SoftSponge ----------------------------
(***************************************************************************)
(* The software sponge of fips202.c.  The incremental interface takes a    *)
(* message in calls of any length, is finalized, and gives output in calls *)
(* of any length; between the calls it keeps the Keccak state s_inc[0..24] *)
(* and one word s_inc[25] that counts the bytes XORed into the state and   *)
(* not permuted yet or, once finalized, the bytes not squeezed yet.  Each  *)
(* iteration of its loops is a step.  The one-shot interface, which zeroes *)
(* the state and pads in a buffer of its own, is the reference.            *)
(*                                                                         *)
(* Data is symbolic: byte j of the message is MsgByte(j), a byte of the    *)
(* state is the set of bytes XORed into it since the last permutation, and *)
(* the permuted state is the sequence of blocks it was made from.          *)
(***************************************************************************)
EXTENDS Integers, Sequences

CONSTANTS
  Rate,        \* bytes of a block: SHAKE256_RATE
  Chunk,       \* lengths of a call
  MaxMessage,  \* bound: bytes absorbed in all
  MaxOutput    \* bound: bytes squeezed in all

ASSUME SoftSpongeAssumption ==
  Rate \in Nat \ {0} /\ Chunk \subseteq Nat /\ MaxMessage \in Nat /\ MaxOutput \in Nat

VARIABLES
  phase,   \* "absorbing" until keccak_inc_finalize, then "squeezing"
  busy,    \* a call of keccak_inc_absorb or keccak_inc_squeeze is under way
  left,    \* mlen or outlen: what is left of its bytes
  count,   \* s_inc[25]
  cur,     \* bytes XORed into the state since the last permutation
  blocks,  \* what was in cur at each permutation, in order
  taken,   \* bytes of the message absorbed: where m points
  out      \* output bytes written: where h points

vars == << phase, busy, left, count, cur, blocks, taken, out >>

Pos == 0..(Rate - 1)

MsgByte(j) == << "m", j >>
Domain     == << "p", 31 >>    \* 0x1F, of SHAKE256
TopBit     == << "p", 128 >>

Xor(A, B) == (A \ B) \cup (B \ A)

ZeroBlock == [p \in Pos |-> {}]

-----------------------------------------------------------------------------
(* The one-shot interface: keccak_absorb, keccak_squeezeblocks and the     *)
(* copy of the last, partial block in shake256_sw_ref                      *)

FullBlock(b) == [p \in Pos |-> {MsgByte((b - 1) * Rate + p)}]

\* The buffer t: q full blocks were absorbed and f bytes are left.
LastBlock(q, f) ==
  [p \in Pos |->
     LET t == IF p < f THEN {MsgByte(q * Rate + p)}
              ELSE IF p = f THEN {Domain} ELSE {}
     IN  IF p = Rate - 1 THEN t \cup {TopBit} ELSE t]

AbsorbOnce(n) ==
  [b \in 1..(n \div Rate + 1) |->
     IF b <= n \div Rate THEN FullBlock(b) ELSE LastBlock(n \div Rate, n % Rate)]

\* A byte of output: of the state after so many permutations, at a position.
OutByte(perms, p) == << perms, p >>

SqueezeOnce(n, outlen) ==
  [j \in 1..outlen |->
     OutByte(n \div Rate + 1 + (j - 1) \div Rate, (j - 1) % Rate)]

-----------------------------------------------------------------------------
(* The incremental interface *)

\* Mutant of XorIn: each call starts again at the front of the block.
XorInFront(n) ==
  [p \in Pos |->
     IF p \in 0..(n - 1) THEN Xor(cur[p], {MsgByte(taken + p)}) ELSE cur[p]]

\* The next n bytes of m, XORed into the state from byte s_inc[25] on.
XorIn(n) ==
  [p \in Pos |->
     IF p \in count..(count + n - 1)
     THEN Xor(cur[p], {MsgByte(taken + p - count)}) ELSE cur[p]]

Permute(c) == blocks' = Append(blocks, c) /\ cur' = ZeroBlock

IncInit ==
  /\ phase = "absorbing" /\ busy = FALSE /\ left = 0
  /\ count = 0 /\ cur = ZeroBlock /\ blocks = << >>
  /\ taken = 0 /\ out = << >>

AbsorbCall(n) ==
  /\ phase = "absorbing" /\ ~busy
  /\ taken + n <= MaxMessage
  /\ busy' = TRUE /\ left' = n
  /\ UNCHANGED << phase, count, cur, blocks, taken, out >>

\* Mutant of BlockComplete: a block that is just full is left unpermuted.
BlockCompleteLate == left + count > Rate

BlockComplete == left + count >= Rate

AbsorbBlock ==
  /\ phase = "absorbing" /\ busy /\ BlockComplete
  /\ Permute(XorIn(Rate - count))
  /\ left' = left - (Rate - count)
  /\ taken' = taken + (Rate - count)
  /\ count' = 0
  /\ UNCHANGED << phase, busy, out >>

AbsorbRest ==
  /\ phase = "absorbing" /\ busy /\ ~BlockComplete
  /\ cur' = XorIn(left)
  /\ count' = count + left
  /\ taken' = taken + left
  /\ left' = 0 /\ busy' = FALSE
  /\ UNCHANGED << phase, blocks, out >>

Finalize ==
  /\ phase = "absorbing" /\ ~busy
  /\ LET padded == [cur EXCEPT ![count] = Xor(@, {Domain})]
     IN  cur' = [padded EXCEPT ![Rate - 1] = Xor(@, {TopBit})]
  /\ count' = 0
  /\ phase' = "squeezing"
  /\ UNCHANGED << busy, left, blocks, taken, out >>

\* n bytes of the state as it was permuted last, from position p on.
Write(n, perms, p) == out' = out \o [i \in 1..n |-> OutByte(perms, p + i - 1)]

Least(a, b) == IF a < b THEN a ELSE b

\* Mutant of SqueezeCall: the bytes that are left are read from the front.
SqueezeCallFront(n) ==
  /\ phase = "squeezing" /\ ~busy
  /\ Len(out) + n <= MaxOutput
  /\ LET k == Least(n, count)
     IN  /\ Write(k, Len(blocks), 0)
         /\ left' = n - k /\ count' = count - k
  /\ busy' = TRUE
  /\ UNCHANGED << phase, cur, blocks, taken >>

\* First the bytes still sitting in the state.
SqueezeCall(n) ==
  /\ phase = "squeezing" /\ ~busy
  /\ Len(out) + n <= MaxOutput
  /\ LET k == Least(n, count)
     IN  /\ Write(k, Len(blocks), Rate - count)
         /\ left' = n - k /\ count' = count - k
  /\ busy' = TRUE
  /\ UNCHANGED << phase, cur, blocks, taken >>

\* Then blocks, the last one perhaps in part.
SqueezeBlock ==
  /\ phase = "squeezing" /\ busy /\ left > 0
  /\ Permute(cur)
  /\ LET k == Least(left, Rate)
     IN  /\ Write(k, Len(blocks) + 1, 0)
         /\ left' = left - k /\ count' = Rate - k
  /\ UNCHANGED << phase, busy, taken >>

SqueezeReturn ==
  /\ phase = "squeezing" /\ busy /\ left = 0
  /\ busy' = FALSE
  /\ UNCHANGED << phase, left, count, cur, blocks, taken, out >>

Next ==
  \/ \E n \in Chunk : AbsorbCall(n) \/ SqueezeCall(n)
  \/ AbsorbBlock \/ AbsorbRest \/ Finalize
  \/ SqueezeBlock \/ SqueezeReturn

Spec == IncInit /\ [][Next]_vars

-----------------------------------------------------------------------------
ByteSet == SUBSET ({"m", "p"} \X Nat)

TypeOK ==
  /\ phase \in {"absorbing", "squeezing"} /\ busy \in BOOLEAN
  /\ left \in Nat /\ count \in Nat /\ taken \in Nat
  /\ cur \in [Pos -> ByteSet] /\ blocks \in Seq([Pos -> ByteSet])
  /\ out \in Seq(Nat \X Pos)

\* "After keccak_inc_absorb, we are guaranteed that s_inc[25] < r" (line 478),
\* in the middle of a call too; bytes left to squeeze are fewer than a block.
CountBelowRate == count < Rate

\* However the message is cut into calls, the blocks that are permuted are
\* those of the one-shot absorb, with the padding in the last; the squeezes
\* add nothing to the state.
AbsorbsAsOneShot ==
  phase = "squeezing" =>
    \A b \in 1..Len(blocks) :
      blocks[b] = IF b \in DOMAIN AbsorbOnce(taken)
                  THEN AbsorbOnce(taken)[b] ELSE ZeroBlock

\* However the output is cut into calls, it is the one-shot output, no byte
\* twice, none left out.
SqueezesAsOneShot ==
  phase = "squeezing" => out = SqueezeOnce(taken, Len(out))
=============================================================================
