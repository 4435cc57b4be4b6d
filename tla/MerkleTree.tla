---------------------------- MODULE MerkleTree ----------------------------
(***************************************************************************)
(* A binary hash tree by its definition, and the way from a leaf to the    *)
(* root that verification takes (compute_root of utils.c).  A tree may be  *)
(* one of several whose leaves are numbered on from each other: offset is  *)
(* the number of its first leaf.                                           *)
(***************************************************************************)
EXTENDS SphincsAddress

NodeAddr(a, h, i) == SetTreeIndex(SetTreeHeight(a, h), i)

\* The levels of the tree over the sequence of its leaves (from 0 on): the
\* children of node i are nodes 2i and 2i + 1 below.
TreeLevels(seed, a, leaf, height, offset) ==
  LET level[h \in 0..height] ==
        IF h = 0 THEN leaf
        ELSE [i \in 0..(2 ^ (height - h) - 1) |->
                Thash(seed, NodeAddr(a, h, i + (offset \div 2 ^ h)),
                      << level[h - 1][2 * i], level[h - 1][2 * i + 1] >>)]
  IN  level

Sibling(i) == IF i % 2 = 0 THEN i + 1 ELSE i - 1

TreeRoot(levels, height) == levels[height][0]

AuthPath(levels, height, leafIdx) ==
  [h \in 0..(height - 1) |-> levels[h][Sibling(leafIdx \div 2 ^ h)]]

-----------------------------------------------------------------------------
\* The two halves of buffer: a node and its neighbour from the path.
Pair(i, node, other) == IF i % 2 = 1 THEN << other, node >> ELSE << node, other >>

\* Mutant of ComputeRoot: the offset is not halved with the index.
ComputeRootOffset(seed, a, leaf, leafIdx, offset, path, height) ==
  LET node[h \in 0..height] ==
        IF h = 0 THEN leaf
        ELSE Thash(seed, NodeAddr(a, h, leafIdx \div 2 ^ h + offset),
                   Pair(leafIdx \div 2 ^ (h - 1), node[h - 1], path[h - 1]))
  IN  node[height]

ComputeRoot(seed, a, leaf, leafIdx, offset, path, height) ==
  LET node[h \in 0..height] ==
        IF h = 0 THEN leaf
        ELSE Thash(seed, NodeAddr(a, h, leafIdx \div 2 ^ h + offset \div 2 ^ h),
                   Pair(leafIdx \div 2 ^ (h - 1), node[h - 1], path[h - 1]))
  IN  node[height]
=============================================================================
