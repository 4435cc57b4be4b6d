------------------------------- MODULE Fors -------------------------------
(***************************************************************************)
(* The few-time signature of fors.c: K trees of secret leaves, numbered on *)
(* from each other, of which the digest opens one leaf each.  The trees    *)
(* are those of MerkleTree, which TreeHash shows treehashx1 to build.      *)
(***************************************************************************)
EXTENDS MerkleTree

CONSTANTS
  K,   \* SPX_FORS_TREES
  A    \* SPX_FORS_HEIGHT

ASSUME ForsAssumption == K \in Nat \ {0} /\ A \in Nat \ {0}

\* A digest is its bits, from the lowest of the first byte on.
MessageToIndices(mhash) ==
  [t \in 0..(K - 1) |->
     LET index[j \in 0..A] ==
           IF j = 0 THEN 0 ELSE index[j - 1] + mhash[t * A + j - 1] * 2 ^ (j - 1)
     IN  index[A]]

IdxOffset(t) == t * 2 ^ A

\* Mutant of ForsAddr: the keypair is not copied with the subtree.
ForsAddrSubtree(forsAddr, type) == SetType(CopySubtree(ZeroAddr, forsAddr), type)

ForsAddr(forsAddr, type) == SetType(CopyKeypair(ZeroAddr, forsAddr), type)

\* fors_gen_sk, fors_sk_to_leaf and fors_gen_leafx1; idx counts on over trees.
ForsSk(seed, forsAddr, idx) ==
  Prf(seed, SetTreeIndex(ForsAddr(forsAddr, "FORSPRF"), idx))

ForsSkToLeaf(seed, forsAddr, idx, sk) ==
  Thash(seed, SetTreeIndex(ForsAddr(forsAddr, "FORSTREE"), idx), << sk >>)

ForsLeaf(seed, forsAddr, idx) ==
  ForsSkToLeaf(seed, forsAddr, idx, ForsSk(seed, forsAddr, idx))

ForsTree(seed, forsAddr, t) ==
  TreeLevels(seed, ForsAddr(forsAddr, "FORSTREE"),
             [i \in 0..(2 ^ A - 1) |-> ForsLeaf(seed, forsAddr, i + IdxOffset(t))],
             A, IdxOffset(t))

\* The hash across the roots of the trees.
ForsPk(seed, forsAddr, roots) ==
  Thash(seed, ForsAddr(forsAddr, "FORSPK"), [t \in 1..K |-> roots[t - 1]])

ForsSign(seed, mhash, forsAddr) ==
  LET indices == MessageToIndices(mhash)
      trees   == [t \in 0..(K - 1) |-> ForsTree(seed, forsAddr, t)]
  IN  [sig |-> [t \in 0..(K - 1) |->
                  [sk   |-> ForsSk(seed, forsAddr, indices[t] + IdxOffset(t)),
                   path |-> AuthPath(trees[t], A, indices[t])]],
       pk  |-> ForsPk(seed, forsAddr, [t \in 0..(K - 1) |-> TreeRoot(trees[t], A)])]

ForsPkFromSig(seed, sig, mhash, forsAddr) ==
  LET indices == MessageToIndices(mhash)
      leaf(t) == ForsSkToLeaf(seed, forsAddr, indices[t] + IdxOffset(t), sig[t].sk)
  IN  ForsPk(seed, forsAddr,
        [t \in 0..(K - 1) |->
           ComputeRoot(seed, ForsAddr(forsAddr, "FORSTREE"), leaf(t), indices[t],
                       IdxOffset(t), sig[t].path, A)])
=============================================================================
