-------------------------- MODULE SphincsAddress --------------------------
(***************************************************************************)
(* The hash addresses of address.c, with the tweaked hash and the secret   *)
(* key function that take one.  An address is 32 bytes, of which some      *)
(* serve two purposes (shake_offsets.h): byte 27 is the chain of a WOTS    *)
(* address and the height of a tree node, byte 31 the place in the chain   *)
(* and the low byte of the tree index.  The hashes are symbolic: a value   *)
(* is the call that made it, so two values are equal exactly when their    *)
(* seeds, addresses and inputs are.                                        *)
(***************************************************************************)
EXTENDS Integers, Sequences

\* SPX_ADDR_TYPE_*, in the order of their numbers; cleared memory is "WOTS".
AddrType == {"WOTS", "WOTSPK", "HASHTREE", "FORSTREE", "FORSPK", "WOTSPRF", "FORSPRF"}

ByteSize == 256

ZeroAddr == [layer |-> 0, tree |-> 0, type |-> "WOTS", kp |-> 0, b27 |-> 0, index |-> 0]

SetLayer(a, layer)   == [a EXCEPT !.layer = layer]
SetTree(a, tree)     == [a EXCEPT !.tree = tree]
SetType(a, type)     == [a EXCEPT !.type = type]
SetKeypair(a, kp)    == [a EXCEPT !.kp = kp]
SetChain(a, chain)   == [a EXCEPT !.b27 = chain]
SetTreeHeight(a, h)  == [a EXCEPT !.b27 = h]
SetTreeIndex(a, i)   == [a EXCEPT !.index = i]
SetHash(a, hash)     == [a EXCEPT !.index = (@ - (@ % ByteSize)) + hash]

CopySubtree(out, in) == SetTree(SetLayer(out, in.layer), in.tree)
CopyKeypair(out, in) == SetKeypair(CopySubtree(out, in), in.kp)

\* thash: in is the sequence of its inblocks inputs.
Thash(seed, a, in) == [seed |-> seed, addr |-> a, in |-> in]

\* prf_addr: the secret seed takes the place of the input.
SkSeed(seed) == [seed |-> seed, addr |-> ZeroAddr, in |-> << >>]

Prf(seed, a) == Thash(seed, a, << SkSeed(seed) >>)

\* Memory that nothing was written to yet.
Unset == SkSeed("unset")
=============================================================================
