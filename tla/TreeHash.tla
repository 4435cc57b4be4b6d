----------------------------- MODULE TreeHash -----------------------------
(***************************************************************************)
(* treehashx1 of utilsx1.c, which builds a tree leaf by leaf with a stack  *)
(* of one node per level and notes the authentication path of one leaf on  *)
(* the way.  A step is one turn of one of its two loops.  MerkleTree says  *)
(* what it should compute; leaves are symbolic.                            *)
(***************************************************************************)
EXTENDS MerkleTree

CONSTANTS
  Heights,   \* the tree_height of a call
  Trees,     \* bound: the number of trees whose leaves are numbered on
  NoLeaf     \* (uint32_t)~0: no leaf is signed for

ASSUME TreeHashAssumption ==
  /\ Heights \subseteq Nat \ {0} /\ Trees \in Nat \ {0}
  \* NoLeaf stands for 32 one bits: no shift by a height makes it an index.
  /\ \A h \in Heights : NoLeaf \in Nat /\ NoLeaf \div 2 ^ h > 2 ^ h

VARIABLES
  height, leafIdx, offset,          \* arguments
  idx,                              \* number of the leaf being added
  h,                                \* level the current node is at
  internalIdx, internalLeaf, internalOffset,
  current,                          \* the second half of current[]
  stack,                            \* node waiting on each level, or Unset
  authPath,                         \* written nodes of the path, or Unset
  treeAddr,
  root                              \* the result, or Unset

vars == << height, leafIdx, offset, idx, h, internalIdx, internalLeaf,
           internalOffset, current, stack, authPath, treeAddr, root >>

Levels == 0..(height - 1)

TreeBase == [ZeroAddr EXCEPT !.type = "FORSTREE", !.kp = 1]

Leaf(i) == Prf("seed", SetTreeIndex(TreeBase, i))

MaxIdx == 2 ^ height - 1

\* x ^ y == 1
DifferInLowBit(x, y) == y = Sibling(x)

\* The turn of the outer loop for leaf i starts: gen_leaf, and h = 0.
StartLeaf(i) ==
  /\ idx' = i /\ h' = 0
  /\ current' = Leaf(i + offset)
  /\ internalIdx' = i /\ internalLeaf' = leafIdx /\ internalOffset' = offset

Init ==
  /\ height \in Heights
  /\ leafIdx \in 0..MaxIdx \cup {NoLeaf}
  /\ offset \in {t * 2 ^ height : t \in 0..(Trees - 1)}
  /\ idx = 0 /\ h = 0 /\ current = Leaf(offset)
  /\ internalIdx = 0 /\ internalLeaf = leafIdx /\ internalOffset = offset
  /\ stack = [l \in Levels |-> Unset] /\ authPath = [l \in Levels |-> Unset]
  /\ treeAddr = TreeBase /\ root = Unset

AtTop == h = height

\* Mutant of LeftChild: the exception starts one leaf too early.
LeftChildEarly == internalIdx % 2 = 0 /\ idx < MaxIdx - 1

\* The exception for the last leaf changes nothing: it is odd on every level.
LeftChild == internalIdx % 2 = 0 /\ idx < MaxIdx

\* Mutant of SavePath: the node itself is saved, not its neighbour.
SavePathSelf ==
  authPath' = IF internalIdx = internalLeaf
              THEN [authPath EXCEPT ![h] = current] ELSE authPath

SavePath ==
  authPath' = IF DifferInLowBit(internalIdx, internalLeaf)
              THEN [authPath EXCEPT ![h] = current] ELSE authPath

Return ==
  /\ root = Unset /\ AtTop
  /\ root' = current
  /\ UNCHANGED << height, leafIdx, offset, idx, h, internalIdx, internalLeaf,
                  internalOffset, current, stack, authPath, treeAddr >>

\* A left child waits on the stack, and the next leaf is made.
Push ==
  /\ root = Unset /\ ~AtTop /\ LeftChild
  /\ SavePath
  /\ stack' = [stack EXCEPT ![h] = current]
  /\ StartLeaf(idx + 1)
  /\ UNCHANGED << height, leafIdx, offset, treeAddr, root >>

\* Mutant of Climb: the next level keeps the offset of this one.
ClimbOffset ==
  /\ internalOffset' = internalOffset
  /\ treeAddr' = NodeAddr(treeAddr, h + 1, internalIdx \div 2 + internalOffset')

\* The address of the parent, in the trees numbered on from each other.
Climb ==
  /\ internalOffset' = internalOffset \div 2
  /\ treeAddr' = NodeAddr(treeAddr, h + 1, internalIdx \div 2 + internalOffset')

\* A right child is hashed with the node waiting to its left.
Combine ==
  /\ root = Unset /\ ~AtTop /\ ~LeftChild
  /\ SavePath
  /\ Climb
  /\ current' = Thash("seed", treeAddr', << stack[h], current >>)
  /\ h' = h + 1
  /\ internalIdx' = internalIdx \div 2 /\ internalLeaf' = internalLeaf \div 2
  /\ UNCHANGED << height, leafIdx, offset, idx, stack, root >>

Next == Return \/ Push \/ Combine

Spec == Init /\ [][Next]_vars /\ WF_vars(Next)

-----------------------------------------------------------------------------
Reference ==
  TreeLevels("seed", TreeBase, [i \in 0..MaxIdx |-> Leaf(i + offset)], height, offset)

\* The stack and the current node are always nodes of the tree, each at its
\* own place: what waits on level l is the last left child there, the current
\* node is an ancestor of leaf idx.
StackHoldsTheTree ==
  /\ current = Reference[h][internalIdx]
  /\ internalIdx = idx \div 2 ^ h
  /\ \A l \in h..(height - 1) :
       (idx \div 2 ^ l) % 2 = 1 => stack[l] = Reference[l][idx \div 2 ^ l - 1]

\* The signer's path leads the verifier from the leaf to the signer's root;
\* with ~0, "don't bother generating an auth path" (merkle.c:60), none is written.
PathVerifies ==
  root # Unset =>
    IF leafIdx = NoLeaf THEN \A l \in Levels : authPath[l] = Unset
    ELSE root = ComputeRoot("seed", TreeBase, Leaf(leafIdx + offset), leafIdx,
                            offset, authPath, height)

\* The loops end, with the root of the tree.
ReturnsTheRoot == <>(root = TreeRoot(Reference, height))
=============================================================================
