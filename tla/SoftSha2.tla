----------------------------- MODULE SoftSha2 -----------------------------
(***************************************************************************)
(* The software SHA-2 of sha2.c and its callers in hash_sha2.c and         *)
(* thash_sha2_simple.c, which compute HMAC, MGF1 and a tweaked hash by     *)
(* filling blocks by hand: whole blocks go to inc_blocks, the rest to      *)
(* inc_finalize, which pads it for the bytes of all the calls.  A step is  *)
(* one call of the incremental interface, or one turn of mgf1's loop.      *)
(*                                                                         *)
(* A byte is << where it comes from, blocks, place >>; a chaining value is *)
(* the sequence of blocks compressed into it.                              *)
(***************************************************************************)
EXTENDS Integers, Sequences

CONSTANTS
  Block,      \* SPX_SHAX_BLOCK_BYTES
  LenField,   \* bytes at the end of the last block kept for the length
  Output,     \* SPX_SHAX_OUTPUT_BYTES
  N,          \* SPX_N
  AddrBytes,  \* SPX_SHA256_ADDR_BYTES
  MLens,      \* bound: lengths of messages
  InBlocks,   \* bound: inblocks of thash
  DgstBytes   \* bound: SPX_DGST_BYTES, any of them

ASSUME SoftSha2Assumption ==
  /\ Block \in Nat \ {0} /\ LenField \in 1..(Block - 1) /\ Output \in Nat \ {0}
  /\ N \in 1..Output /\ N <= Block /\ AddrBytes \in Nat
  /\ MLens \subseteq Nat /\ InBlocks \subseteq Nat /\ DgstBytes \subseteq Nat

VARIABLES
  pc,      \* next step of the call under way, or "idle"
  call,    \* its arguments: op and the lengths
  ctx,     \* state_seeded
  state,   \* the incremental state of the call
  m,       \* what is left of the message: where m points and mlen
  seed,    \* the inner digest of HMAC, or the seed of MGF1
  out,     \* bytes written by mgf1
  result

vars == << pc, call, ctx, state, m, seed, out, result >>

Bytes(of, n) == [j \in 1..n |-> << of, << >>, j >>]
Fill(of, n)  == [j \in 1..n |-> << of, << >>, 0 >>]
From(s, j)   == SubSeq(s, j + 1, Len(s))
First(s, n)  == SubSeq(s, 1, n)

Digest(blocks) == [j \in 1..Output |-> << "sha", blocks, j >>]

\* The whole blocks at the front of a sequence.
Blocks(s) ==
  [b \in 1..(Len(s) \div Block) |-> SubSeq(s, (b - 1) * Block + 1, b * Block)]

-----------------------------------------------------------------------------
(* FIPS 180-4 *)

Length(n) == [j \in 1..LenField |-> << "len", << >>, n * LenField + j >>]

Sha2(message) ==
  LET n     == Len(message)
      zeros == (2 * Block - ((n + 1 + LenField) % Block)) % Block
  IN  Digest(Blocks(message \o Fill("80", 1) \o Fill("0", zeros) \o Length(n)))

-----------------------------------------------------------------------------
(* sha2.c *)

IncInit == [chain |-> << >>, bytes |-> 0]

\* Mutant of IncBlocks: the bytes are not counted.
IncBlocksUncounted(st, in) == [st EXCEPT !.chain = @ \o Blocks(in)]

IncBlocks(st, in) ==
  [chain |-> st.chain \o Blocks(in), bytes |-> st.bytes + Len(in)]

\* Mutant of FitsOneBlock: the length may overwrite the 0x80.
FitsOneBlockLate(n) == n <= Block - LenField

FitsOneBlock(n) == n < Block - LenField

IncFinalize(st, in) ==
  LET n      == Len(in) % Block
      size   == IF FitsOneBlock(n) THEN Block ELSE 2 * Block
      text   == From(in, Len(in) - n) \o Fill("80", 1)
      padded == [j \in 1..size |->
                   IF j > size - LenField
                   THEN Length(st.bytes + Len(in))[j - (size - LenField)]
                   ELSE IF j <= Len(text) THEN text[j] ELSE << "0", << >>, 0 >>]
  IN  Digest(st.chain \o Blocks(in) \o Blocks(padded))

\* seed_state: the public seed and zeros, one block.
SeedState == IncBlocks(IncInit, Bytes("pub_seed", N) \o Fill("0", Block - N))

-----------------------------------------------------------------------------
(* The calls *)

Idle == pc = "idle"

Initialize ==
  /\ pc = "start"
  /\ ctx' = SeedState /\ pc' = "idle"
  /\ UNCHANGED << call, state, m, seed, out, result >>

\* thash and prf_addr: a copy of the seeded state takes the address and input.
TweakedHash(of, n) ==
  /\ Idle
  /\ call' = [op |-> of, len |-> n, outlen |-> N]
  /\ result' = First(IncFinalize(ctx, Bytes("addr", AddrBytes) \o Bytes(of, n)), N)
  /\ UNCHANGED << pc, ctx, state, m, seed, out >>

Thash(inblocks) == TweakedHash("in", inblocks * N)
PrfAddr         == TweakedHash("sk_seed", N)

\* HMAC starts with the padded key.
GenMessageRandom(mlen) ==
  /\ Idle
  /\ call' = [op |-> "random", len |-> mlen, outlen |-> N]
  /\ m' = Bytes("m", mlen)
  /\ state' = IncBlocks(IncInit, Bytes("ipad^sk_prf", N) \o Fill("ipad", Block - N))
  /\ pc' = "fill"
  /\ UNCHANGED << ctx, seed, out, result >>

HashMessage(mlen, outlen) ==
  /\ Idle
  /\ call' = [op |-> "message", len |-> mlen, outlen |-> outlen]
  /\ m' = Bytes("m", mlen)
  /\ state' = IncInit
  /\ pc' = "fill"
  /\ UNCHANGED << ctx, seed, out, result >>

\* What goes before the message: optrand, or R and the public key.
Prefix == IF call.op = "random" THEN Bytes("optrand", N)
          ELSE Bytes("R", N) \o Bytes("pk", 2 * N)

\* SPX_INBLOCKS blocks for R and the key, one for optrand.
FillSize == IF call.op = "random" THEN Block
            ELSE ((3 * N + Block - 1) \div Block) * Block

CannotFill == Len(Prefix) + Len(m) < FillSize

FillShort ==
  /\ pc = "fill" /\ CannotFill
  /\ seed' = IncFinalize(state, Prefix \o m)
  /\ pc' = "outer"
  /\ UNCHANGED << call, ctx, state, m, out, result >>

FillBlock ==
  /\ pc = "fill" /\ ~CannotFill
  /\ state' = IncBlocks(state, Prefix \o First(m, FillSize - Len(Prefix)))
  /\ m' = From(m, FillSize - Len(Prefix))
  /\ pc' = "rest"
  /\ UNCHANGED << call, ctx, seed, out, result >>

FinalizeRest ==
  /\ pc = "rest"
  /\ seed' = IncFinalize(state, m)
  /\ pc' = "outer"
  /\ UNCHANGED << call, ctx, state, m, out, result >>

\* The locals of the call are gone.
Return ==
  /\ pc' = "idle"
  /\ state' = IncInit /\ m' = << >> /\ seed' = << >> /\ out' = << >>

\* The outer hash of HMAC, in one call of sha256 or sha512.
OuterRandom ==
  /\ pc = "outer" /\ call.op = "random"
  /\ result' = First(Sha2(Bytes("opad^sk_prf", N) \o Fill("opad", Block - N) \o seed), N)
  /\ Return
  /\ UNCHANGED << call, ctx >>

OuterMessage ==
  /\ pc = "outer" /\ call.op = "message"
  /\ seed' = Bytes("R", N) \o Bytes("pk", N) \o seed
  /\ out' = << >> /\ pc' = "mgf1"
  /\ UNCHANGED << call, ctx, state, m, result >>

\* u32_to_bytes, in one piece.
Counter(i) == << << "counter", << >>, i >> >>

\* A full block of output while it fits, then the remainder.
Mgf1Turn ==
  /\ pc = "mgf1" /\ Len(out) < call.outlen
  /\ LET i == Len(out) \div Output
         left == call.outlen - Len(out)
     IN  out' = out \o First(Sha2(seed \o Counter(i)),
                             IF left < Output THEN left ELSE Output)
  /\ UNCHANGED << pc, call, ctx, state, m, seed, result >>

Mgf1Return ==
  /\ pc = "mgf1" /\ Len(out) = call.outlen
  /\ result' = out
  /\ Return
  /\ UNCHANGED << call, ctx >>

Init ==
  /\ pc = "start" /\ call = [op |-> "none", len |-> 0, outlen |-> 0]
  /\ ctx = IncInit /\ state = IncInit
  /\ m = << >> /\ seed = << >> /\ out = << >> /\ result = << >>

Next ==
  \/ Initialize
  \/ \E n \in InBlocks : Thash(n)
  \/ PrfAddr
  \/ \E mlen \in MLens :
       \/ GenMessageRandom(mlen)
       \/ \E outlen \in DgstBytes : HashMessage(mlen, outlen)
  \/ FillShort \/ FillBlock \/ FinalizeRest \/ OuterRandom \/ OuterMessage
  \/ Mgf1Turn \/ Mgf1Return

Spec == Init /\ [][Next]_vars

-----------------------------------------------------------------------------
(* What the calls promise *)

Hmac(text) ==
  Sha2(Bytes("opad^sk_prf", N) \o Fill("opad", Block - N) \o
       Sha2(Bytes("ipad^sk_prf", N) \o Fill("ipad", Block - N) \o text))

\* Byte j of MGF1's output.
Mgf1Byte(s, j) ==
  Sha2(s \o Counter((j - 1) \div Output))[1 + ((j - 1) % Output)]

Promised ==
  CASE call.op \in {"in", "sk_seed"} ->
         First(Sha2(Bytes("pub_seed", N) \o Fill("0", Block - N) \o
                    Bytes("addr", AddrBytes) \o Bytes(call.op, call.len)), N)
    [] call.op = "random" ->
         First(Hmac(Bytes("optrand", N) \o Bytes("m", call.len)), N)
    [] call.op = "message" ->
         LET s == Bytes("R", N) \o Bytes("pk", N) \o
                  Sha2(Bytes("R", N) \o Bytes("pk", 2 * N) \o Bytes("m", call.len))
         IN  [j \in 1..call.outlen |-> Mgf1Byte(s, j)]

\* However its input falls on the blocks, each call returns what its comment
\* says: the hash, HMAC or MGF1 of the whole of it.
ReturnsThePromised ==
  pc = "idle" /\ call.op # "none" => result = Promised

\* The length that will be padded in is that of the blocks compressed so far.
CountsItsBlocks ==
  /\ ctx.bytes = Block * Len(ctx.chain)
  /\ state.bytes = Block * Len(state.chain)
=============================================================================
