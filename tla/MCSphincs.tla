----------------------------- MODULE MCSphincs -----------------------------
EXTENDS Sphincs, FiniteSetsExt

Digest(b, t, l) == [mhash |-> [o \in 0..1 |-> IF o = 0 THEN b ELSE 1 - b],
                    tree |-> t, leaf |-> l]

\* The same few-time key twice, its neighbour, and one in another tree, with
\* bits above the masks (two bits of tree, one of leaf).
MCDigests == {Digest(0, 0, 0), Digest(1, 0, 0), Digest(0, 0, 1), Digest(1, 7, 2)}

TypeNumber == [t \in AddrType |->
  CASE t = "WOTS" -> 0 [] t = "WOTSPK" -> 1 [] t = "HASHTREE" -> 2 [] t = "FORSTREE" -> 3
    [] t = "FORSPK" -> 4 [] t = "WOTSPRF" -> 5 [] t = "FORSPRF" -> 6]

\* One byte of four bits that depends on all that went into the root.
RECURSIVE Mix(_)
Mix(r) ==
  (r.addr.layer + 3 * r.addr.tree + 5 * r.addr.kp + 7 * r.addr.b27 + 11 * r.addr.index
   + 9 * TypeNumber[r.addr.type]
   + FoldSet(LAMBDA i, sum : sum + (2 * i + 1) * Mix(r.in[i]), 0, DOMAIN r.in)) % 16

MCBytesOf(r) == [b \in 0..0 |-> Mix(r)]
=============================================================================
