-------------------------- MODULE TreeWotsProofs ---------------------------
(***************************************************************************)
(* Of TreeHash, for every height and every place of the tree among the     *)
(* others: what treehashx1 keeps is nodes of the tree, each at its place,  *)
(* and the path it notes on the way leads from the leaf to the root.       *)
(*                                                                         *)
(* Of WotsSign, for every size of message and digit: the public key that   *)
(* verification finds from a one-time signature is the signer's, a leaf    *)
(* that does not sign leaves the signature alone, and no message has all   *)
(* its chains at or above those of another.                                *)
(***************************************************************************)
EXTENDS TreeHash, WotsSign, SphincsLemmas

-----------------------------------------------------------------------------
(* treehashx1 *)

ArgumentsType ==
  /\ height \in Heights /\ offset \in Nat
  /\ leafIdx \in 0..MaxIdx \/ leafIdx = NoLeaf

\* The node under way is the last node on its level that is whole: leaf idx is
\* the last of its leaves.
NodeUnderWay ==
  /\ idx \in 0..MaxIdx /\ h \in 0..height
  /\ internalIdx = idx \div 2 ^ h
  /\ internalLeaf = leafIdx \div 2 ^ h /\ internalOffset = offset \div 2 ^ h
  /\ idx + 1 = (internalIdx + 1) * 2 ^ h

\* Only the place in the tree changes in the address.
AddressOfTree == \E b, n : treeAddr = NodeAddr(TreeBase, b, n)

CurrentNode == current = Reference[h][internalIdx]

LeftOnStack ==
  /\ DOMAIN stack = Levels
  /\ \A l \in h..(height - 1) :
       (idx \div 2 ^ l) % 2 = 1 => stack[l] = Reference[l][idx \div 2 ^ l - 1]

\* The neighbour of the leaf's ancestor on level l, and whether its turn has
\* been: its last leaf is before idx, or idx itself and higher up already.
Neighbour(l) == Sibling(leafIdx \div 2 ^ l)

Visited(l) ==
  \/ (Neighbour(l) + 1) * 2 ^ l <= idx
  \/ (Neighbour(l) + 1) * 2 ^ l = idx + 1 /\ l < h

PathSoFar ==
  authPath = [l \in Levels |-> IF leafIdx # NoLeaf /\ Visited(l)
                               THEN Reference[l][Neighbour(l)] ELSE Unset]

RootAtTop == root # Unset => h = height /\ root = current

TreeInv ==
  /\ ArgumentsType /\ NodeUnderWay /\ AddressOfTree /\ CurrentNode
  /\ LeftOnStack /\ PathSoFar /\ RootAtTop

-----------------------------------------------------------------------------
(* Arithmetic of the places *)

LEMMA HeightType ==
  ASSUME height \in Heights
  PROVE  height \in Nat \ {0} /\ 2 ^ height \in Nat \ {0} /\ MaxIdx \in Nat
  BY TreeHashAssumption, PowerNat DEF MaxIdx

LEMMA SiblingType ==
  ASSUME NEW j \in Nat
  PROVE  Sibling(j) \in Nat /\ Sibling(Sibling(j)) = j /\ Sibling(j) <= j + 1
<1>1. CASE j % 2 = 0
  <2>1. Sibling(j) = j + 1 /\ (j + 1) % 2 # 0
    BY <1>1 DEF Sibling
  <2>. QED  BY <2>1 DEF Sibling
<1>2. CASE j % 2 = 1
  <2>1. Sibling(j) = j - 1 /\ (j - 1) % 2 = 0 /\ j - 1 \in Nat
    BY <1>2 DEF Sibling
  <2>. QED  BY <2>1 DEF Sibling
<1>. QED  BY <1>1, <1>2

\* A shift by way of the level above n.
LEMMA ShiftAbove ==
  ASSUME NEW y \in Nat, NEW n \in Nat, NEW l \in Nat, l > n
  PROVE  y \div 2 ^ l = ((y \div 2 ^ n) \div 2) \div 2 ^ (l - n - 1)
<1>. DEFINE m == n + 1
            d == l - n - 1
<1>1. l = m + d
  OBVIOUS
<1>2. m \in Nat /\ d \in Nat
  OBVIOUS
<1>3. y \div 2 ^ m = (y \div 2 ^ n) \div 2
  BY HalfWay
<1>. HIDE DEF m, d
<1>4. y \div 2 ^ (m + d) = (y \div 2 ^ m) \div 2 ^ d
  BY <1>2, ShiftTwice
<1>5. y \div 2 ^ l = ((y \div 2 ^ n) \div 2) \div 2 ^ d
  BY <1>1, <1>3, <1>4, Zenon
<1>. QED  BY <1>5 DEF d

\* Shifting further does not give more.
LEMMA ShiftLess ==
  ASSUME NEW y \in Nat, NEW n \in Nat, NEW m \in 0..n
  PROVE  y \div 2 ^ m \in Nat /\ y \div 2 ^ m >= y \div 2 ^ n
<1>. DEFINE d == n - m
            z == y \div 2 ^ m
<1>1. d \in Nat /\ m \in Nat
  OBVIOUS
<1>2. n = m + d
  OBVIOUS
<1>. HIDE DEF d
<1>3. y \div 2 ^ (m + d) = z \div 2 ^ d
  BY <1>1, ShiftTwice
<1>4. z \in Nat /\ 2 ^ d \in Nat \ {0}
  BY <1>1, ShiftType, PowerNat
<1>5. \A x \in Nat, P \in Nat \ {0} : x \div P <= x
  OBVIOUS
<1>. HIDE DEF z
<1>6. z \div 2 ^ d <= z
  BY <1>4, <1>5
<1>. QED  BY <1>2, <1>3, <1>4, <1>6 DEF z

\* y is leaf x's number when all that changes is the ancestor j on level n.
NextFrom(y, x, j, n, l) ==
  /\ l < n => (y \div 2 ^ l) % 2 = 0
  /\ l = n => y \div 2 ^ l = j + 1
  /\ l > n => y \div 2 ^ l = x \div 2 ^ l

\* The parts of the next leaf's number, after a left child on level n.
LEMMA NextLeaf ==
  ASSUME NEW j \in Nat, j % 2 = 0, NEW n \in Nat, NEW x \in Nat, x \div 2 ^ n = j,
         x + 1 = (j + 1) * 2 ^ n, NEW l \in Nat
  PROVE  NextFrom(x + 1, x, j, n, l)
<1>1. 2 ^ n \in Nat \ {0} /\ 2 ^ l \in Nat \ {0}
  BY PowerNat
<1>2. ASSUME l < n PROVE ((x + 1) \div 2 ^ l) % 2 = 0
  <2>1. n - l - 1 \in Nat /\ n = (n - l - 1) + 1 + l
    BY <1>2
  <2>. DEFINE P == 2 ^ (n - l - 1)
              q == (j + 1) * P
  <2>2. 2 ^ n = 2 * P * 2 ^ l
    <3>1. 2 ^ ((n - l - 1) + 1) = 2 * P
      BY <2>1, Doubles
    <3>2. 2 ^ (((n - l - 1) + 1) + l) = 2 ^ ((n - l - 1) + 1) * 2 ^ l
      BY <2>1, PowerSum
    <3>. QED  BY <2>1, <3>1, <3>2
  <2>3. P \in Nat
    BY <2>1, PowerNat
  <2>. HIDE DEF P
  <2>4. q \in Nat /\ x + 1 = (2 * q) * 2 ^ l + 0
    <3>1. (j + 1) * (2 * P * 2 ^ l) = (2 * ((j + 1) * P)) * 2 ^ l
      BY <1>1, <2>3
    <3>2. (2 * ((j + 1) * P)) * 2 ^ l \in Nat
      BY <1>1, <2>3
    <3>. QED  BY <2>2, <2>3, <3>1, <3>2
  <2>. HIDE DEF q
  <2>5. (x + 1) \div 2 ^ l = 2 * q
    BY <1>1, <2>4, DivOfMultiple
  <2>. QED  BY <2>4, <2>5
<1>3. (x + 1) \div 2 ^ n = j + 1
  <2>1. (j + 1) * 2 ^ n \in Nat /\ (j + 1) * 2 ^ n = (j + 1) * 2 ^ n + 0
    BY <1>1
  <2>2. ((j + 1) * 2 ^ n + 0) \div 2 ^ n = j + 1
    BY <1>1, DivOfMultiple
  <2>. QED  BY <2>1, <2>2
<1>4. ASSUME l > n PROVE (x + 1) \div 2 ^ l = x \div 2 ^ l
  <2>. DEFINE y == x + 1
              d == l - n - 1
  <2>1. y \in Nat /\ y \div 2 ^ n = j + 1
    BY <1>3
  <2>. HIDE DEF y
  <2>2. y \div 2 ^ l = ((y \div 2 ^ n) \div 2) \div 2 ^ d
    BY <1>4, <2>1, ShiftAbove
  <2>3. x \div 2 ^ l = ((x \div 2 ^ n) \div 2) \div 2 ^ d
    BY <1>4, ShiftAbove
  <2>4. (j + 1) \div 2 = j \div 2
    OBVIOUS
  <2>. HIDE DEF d
  <2>5. y \div 2 ^ l = (j \div 2) \div 2 ^ d
    BY <2>1, <2>2, <2>4, Zenon
  <2>6. x \div 2 ^ l = (j \div 2) \div 2 ^ d
    BY <2>3, Zenon
  <2>7. y \div 2 ^ l = x \div 2 ^ l
    BY <2>5, <2>6, Zenon
  <2>. QED  BY <2>7, Zenon DEF y
<1>. QED  BY <1>2, <1>3, <1>4 DEF NextFrom

\* A node on level l ends with the leaf that a node on level n ends with: they
\* are the same on one level, and the one of a left child is not higher up.
LEMMA SameEnd ==
  ASSUME NEW j \in Nat, NEW s \in Nat, NEW n \in Nat, NEW l \in Nat,
         (s + 1) * 2 ^ l = (j + 1) * 2 ^ n, l >= n, l = n \/ j % 2 = 0
  PROVE  l = n /\ s = j
<1>1. 2 ^ n \in Nat \ {0}
  BY PowerNat
<1>2. \A a, b \in Nat, P \in Nat \ {0} : a * P = b * P => a = b
  OBVIOUS
<1>3. CASE l = n
  <2>1. s + 1 = j + 1
    BY <1>1, <1>2, <1>3, s + 1 \in Nat, j + 1 \in Nat
  <2>. QED  BY <1>3, <2>1
<1>4. ASSUME l # n PROVE FALSE
  <2>. DEFINE P == 2 ^ (l - n - 1)
              q == (s + 1) * P
  <2>1. l - n - 1 \in Nat /\ l = (l - n - 1) + 1 + n /\ P \in Nat
    BY <1>4, PowerNat
  <2>2. 2 ^ l = 2 * P * 2 ^ n
    <3>1. 2 ^ ((l - n - 1) + 1) = 2 * P
      BY <2>1, Doubles
    <3>2. 2 ^ (((l - n - 1) + 1) + n) = 2 ^ ((l - n - 1) + 1) * 2 ^ n
      BY <2>1, PowerSum
    <3>. QED  BY <2>1, <3>1, <3>2
  <2>. HIDE DEF P
  <2>3. q \in Nat /\ (s + 1) * (2 * P * 2 ^ n) = (2 * q) * 2 ^ n
    BY <1>1, <2>1
  <2>. HIDE DEF q
  <2>4. 2 * q = j + 1
    <3>1. (2 * q) * 2 ^ n = (j + 1) * 2 ^ n
      BY <2>2, <2>3
    <3>. QED  BY <1>1, <1>2, <2>3, <3>1, 2 * q \in Nat, j + 1 \in Nat
  <2>. QED  BY <1>4, <2>3, <2>4
<1>. QED  BY <1>3, <1>4

\* A tree's last leaf: every place above it is the last of its level.
LEMMA LastLeaf ==
  ASSUME NEW m \in Nat, NEW n \in 0..m, NEW j \in Nat, NEW x \in 0..(2 ^ m - 1),
         x \div 2 ^ n = j, x + 1 = (j + 1) * 2 ^ n
  PROVE  /\ n = m => x = 2 ^ m - 1
         /\ n # m /\ x = 2 ^ m - 1 => j % 2 = 1
<1>1. 2 ^ n \in Nat \ {0} /\ 2 ^ m \in Nat \ {0}
  BY PowerNat
<1>2. ASSUME n = m PROVE x = 2 ^ m - 1
  <2>1. x \div 2 ^ m = 0
    BY <1>1
  <2>. QED  BY <1>1, <1>2, <2>1
<1>3. ASSUME n # m, x = 2 ^ m - 1 PROVE j % 2 = 1
  <2>. DEFINE P == 2 ^ (m - n - 1)
  <2>1. m - n - 1 \in Nat /\ m = (m - n - 1) + 1 + n /\ P \in Nat
    BY <1>3, PowerNat
  <2>2. 2 ^ m = 2 * P * 2 ^ n
    <3>1. 2 ^ ((m - n - 1) + 1) = 2 * P
      BY <2>1, Doubles
    <3>2. 2 ^ (((m - n - 1) + 1) + n) = 2 ^ ((m - n - 1) + 1) * 2 ^ n
      BY <2>1, PowerSum
    <3>. QED  BY <2>1, <3>1, <3>2
  <2>. HIDE DEF P
  <2>3. (j + 1) * 2 ^ n = (2 * P) * 2 ^ n
    BY <1>1, <1>3, <2>2
  <2>4. \A a, b \in Nat, Q \in Nat \ {0} : a * Q = b * Q => a = b
    OBVIOUS
  <2>5. j + 1 = 2 * P
    BY <1>1, <2>1, <2>3, <2>4, j + 1 \in Nat, 2 * P \in Nat
  <2>. QED  BY <2>1, <2>5
<1>. QED  BY <1>2, <1>3

\* The neighbour of an ancestor ends inside the tree.
LEMMA NeighbourInside ==
  ASSUME NEW m \in Nat, NEW l \in 0..(m - 1), NEW x \in 0..(2 ^ m - 1)
  PROVE  /\ Sibling(x \div 2 ^ l) \in Nat
         /\ (Sibling(x \div 2 ^ l) + 1) * 2 ^ l <= 2 ^ m
<1>. DEFINE j == x \div 2 ^ l
            P == 2 ^ (m - l - 1)
<1>1. m - l - 1 \in Nat /\ m = (m - l) + l /\ m - l = (m - l - 1) + 1 /\ l \in 0..m /\ m - l \in Nat
  OBVIOUS
<1>2. P \in Nat \ {0} /\ 2 ^ l \in Nat \ {0}
  BY <1>1, PowerNat
<1>3. 2 ^ (m - l) = 2 * P
  BY <1>1, Doubles
<1>4. 2 ^ m = (2 * P) * 2 ^ l
  <2>1. 2 ^ ((m - l) + l) = 2 ^ (m - l) * 2 ^ l
    BY <1>1, PowerSum
  <2>. QED  BY <1>1, <1>3, <2>1
<1>5. j \in 0..(2 * P - 1)
  BY <1>1, <1>3, Ancestor
<1>. HIDE DEF j, P
<1>6. Sibling(j) \in Nat /\ Sibling(j) + 1 <= 2 * P
  BY <1>2, <1>5 DEF Sibling
<1>7. \A a, b \in Nat, Q \in Nat : a <= b => a * Q <= b * Q
  OBVIOUS
<1>8. (Sibling(j) + 1) * 2 ^ l <= (2 * P) * 2 ^ l
  BY <1>2, <1>6, <1>7, 2 * P \in Nat, Sibling(j) + 1 \in Nat
<1>. QED  BY <1>4, <1>6, <1>8 DEF j

-----------------------------------------------------------------------------
(* What the invariant says of a state *)

\* The numbers of a state.
LEMMA Numbers ==
  ASSUME TreeInv
  PROVE  /\ height \in Nat \ {0} /\ 2 ^ height \in Nat \ {0} /\ MaxIdx \in Nat
         /\ MaxIdx = 2 ^ height - 1
         /\ idx \in 0..(2 ^ height - 1) /\ idx \in Nat /\ h \in 0..height /\ h \in Nat
         /\ internalIdx \in Nat /\ internalIdx \in 0..(2 ^ (height - h) - 1)
         /\ offset \in Nat
<1>1. height \in Nat \ {0} /\ 2 ^ height \in Nat \ {0} /\ MaxIdx \in Nat
  BY HeightType DEF TreeInv, ArgumentsType
<1>2. idx \in 0..(2 ^ height - 1) /\ h \in 0..height /\ internalIdx = idx \div 2 ^ h
  BY DEF TreeInv, NodeUnderWay, MaxIdx
<1>3. internalIdx \in 0..(2 ^ (height - h) - 1)
  BY <1>1, <1>2, Ancestor
<1>4. idx \in Nat /\ h \in Nat
  BY <1>1, <1>2
<1>5. internalIdx \in Nat
  BY <1>2, <1>4, ShiftType
<1>. QED  BY <1>1, <1>2, <1>3, <1>4, <1>5 DEF TreeInv, ArgumentsType, MaxIdx

\* ~0 is nobody's neighbour.
LEMMA NoLeafApart ==
  ASSUME TreeInv
  PROVE  /\ NoLeaf \notin 0..MaxIdx
         /\ leafIdx = NoLeaf => ~DifferInLowBit(internalIdx, internalLeaf)
<1>1. /\ height \in Nat \ {0} /\ 2 ^ height \in Nat \ {0} /\ h \in 0..height /\ h \in Nat
      /\ internalIdx \in Nat
  BY Numbers
<1>2. NoLeaf \in Nat /\ NoLeaf \div 2 ^ height > 2 ^ height
  BY TreeHashAssumption DEF TreeInv, ArgumentsType
<1>3. \A x \in Nat, P \in Nat \ {0} : x \div P \in Nat /\ x \div P <= x
  OBVIOUS
<1>4. NoLeaf > 2 ^ height
  BY <1>1, <1>2, <1>3
<1>5. NoLeaf \div 2 ^ h \in Nat /\ NoLeaf \div 2 ^ h >= NoLeaf \div 2 ^ height
  BY <1>1, <1>2, ShiftLess
<1>6. ASSUME leafIdx = NoLeaf, DifferInLowBit(internalIdx, internalLeaf) PROVE FALSE
  <2>1. NoLeaf \div 2 ^ h = Sibling(internalIdx)
    BY <1>6 DEF TreeInv, NodeUnderWay, DifferInLowBit
  <2>2. Sibling(internalIdx) <= internalIdx + 1 /\ Sibling(internalIdx) \in Nat
    BY <1>1, SiblingType
  <2>3. internalIdx + 1 <= 2 ^ height
    <3>1. idx \in 0..(2 ^ height - 1) /\ idx \in Nat /\ internalIdx = idx \div 2 ^ h
      BY Numbers DEF TreeInv, NodeUnderWay
    <3>2. 2 ^ h \in Nat \ {0}
      BY <1>1, PowerNat
    <3>3. internalIdx <= idx
      BY <1>3, <3>1, <3>2
    <3>. QED  BY <1>1, <3>1, <3>3
  <2>. QED  BY <1>1, <1>2, <1>5, <2>1, <2>2, <2>3
<1>. QED  BY <1>1, <1>2, <1>4, <1>6 DEF MaxIdx

\* What a turn writes to the path: the node under way, if the leaf to sign for
\* has it for a neighbour.
LEMMA PathWritten ==
  ASSUME TreeInv, ~AtTop, SavePath
  PROVE  authPath' = [l \in Levels |->
           IF leafIdx # NoLeaf /\ (Visited(l) \/ (l = h /\ Neighbour(l) = internalIdx))
           THEN Reference[l][Neighbour(l)] ELSE Unset]
<1>. DEFINE old == [l \in Levels |-> IF leafIdx # NoLeaf /\ Visited(l)
                                     THEN Reference[l][Neighbour(l)] ELSE Unset]
            new == [l \in Levels |->
                     IF leafIdx # NoLeaf /\ (Visited(l) \/ (l = h /\ Neighbour(l) = internalIdx))
                     THEN Reference[l][Neighbour(l)] ELSE Unset]
<1>1. h \in Levels
  BY Numbers DEF AtTop, Levels
<1>2. authPath = old
  BY DEF TreeInv, PathSoFar
<1>3. authPath' = IF DifferInLowBit(internalIdx, internalLeaf)
                  THEN [authPath EXCEPT ![h] = current] ELSE authPath
  BY DEF SavePath
<1>4. CASE leafIdx = NoLeaf
  BY <1>2, <1>3, <1>4, NoLeafApart
<1>5. CASE leafIdx # NoLeaf
  <2>1. leafIdx \in Nat /\ h \in Nat /\ internalIdx \in Nat
    BY <1>5, Numbers DEF TreeInv, ArgumentsType
  <2>2. internalLeaf = leafIdx \div 2 ^ h /\ internalLeaf \in Nat
    BY <2>1, ShiftType DEF TreeInv, NodeUnderWay
  <2>3. DifferInLowBit(internalIdx, internalLeaf) <=> Neighbour(h) = internalIdx
    <3>1. Neighbour(h) = Sibling(internalLeaf)
      BY <2>2 DEF Neighbour
    <3>2. internalLeaf = Sibling(internalIdx) <=> Sibling(internalLeaf) = internalIdx
      BY <2>1, <2>2, SiblingType
    <3>. QED  BY <3>1, <3>2 DEF DifferInLowBit
  <2>4. Neighbour(h) = internalIdx => current = Reference[h][Neighbour(h)]
    BY DEF TreeInv, CurrentNode
  <2>. HIDE DEF Levels, Reference, Neighbour, Visited, Unset, SavePath
  <2>5. CASE Neighbour(h) = internalIdx
    BY <1>1, <1>2, <1>3, <1>5, <2>3, <2>4, <2>5
  <2>6. CASE Neighbour(h) # internalIdx
    BY <1>1, <1>2, <1>3, <1>5, <2>3, <2>6
  <2>. QED  BY <2>5, <2>6
<1>. QED  BY <1>4, <1>5

\* The next stage of the path, when the nodes visited are those.
LEMMA PathGoesOn ==
  ASSUME TreeInv, ~AtTop, SavePath, UNCHANGED << height, leafIdx, offset >>,
         leafIdx # NoLeaf =>
           \A l \in Levels : Visited(l)' <=> Visited(l) \/ (l = h /\ Neighbour(l) = internalIdx)
  PROVE  PathSoFar'
<1>1. /\ Levels' = Levels /\ Unset' = Unset /\ Reference' = Reference
      /\ \A l : Neighbour(l)' = Neighbour(l)
  BY DEF Levels, Unset, Reference, Neighbour, MaxIdx, Leaf
<1>2. authPath' = [l \in Levels |->
         IF leafIdx # NoLeaf /\ (Visited(l) \/ (l = h /\ Neighbour(l) = internalIdx))
         THEN Reference[l][Neighbour(l)] ELSE Unset]
  BY PathWritten
<1>. HIDE DEF Levels, Unset, Reference, Neighbour, Visited, SavePath
<1>3. authPath' = [l \in Levels |-> IF leafIdx # NoLeaf /\ Visited(l)'
                                    THEN Reference[l][Neighbour(l)] ELSE Unset]
  BY <1>2
<1>. QED  BY <1>1, <1>3 DEF PathSoFar

\* The neighbour ends where the node under way does only if it is that node.
LEMMA NeighbourEnds ==
  ASSUME TreeInv, leafIdx # NoLeaf, NEW l \in Levels
  PROVE  /\ Neighbour(l) \in Nat /\ (Neighbour(l) + 1) * 2 ^ l \in Nat
         /\ l = h => ((Neighbour(l) + 1) * 2 ^ l = idx + 1 <=> Neighbour(l) = internalIdx)
         /\ l > h /\ internalIdx % 2 = 0 => (Neighbour(l) + 1) * 2 ^ l # idx + 1
<1>1. l \in Nat /\ 2 ^ l \in Nat /\ h \in Nat /\ internalIdx \in Nat
  BY Numbers, PowerNat DEF Levels
<1>2. Neighbour(l) \in Nat
  <2>1. leafIdx \in Nat
    BY Numbers DEF TreeInv, ArgumentsType
  <2>. QED  BY <1>1, <2>1, ShiftType, SiblingType DEF Neighbour
<1>3. idx + 1 = (internalIdx + 1) * 2 ^ h
  BY DEF TreeInv, NodeUnderWay
<1>. DEFINE s == Neighbour(l)
<1>4. ASSUME (s + 1) * 2 ^ l = idx + 1, l >= h, l = h \/ internalIdx % 2 = 0
      PROVE  l = h /\ s = internalIdx
  <2>1. (s + 1) * 2 ^ l = (internalIdx + 1) * 2 ^ h
    BY <1>3, <1>4
  <2>. HIDE DEF s
  <2>. QED  BY <1>1, <1>2, <1>4, <2>1, SameEnd DEF s
<1>5. (s + 1) * 2 ^ l \in Nat
  BY <1>1, <1>2
<1>6. s = internalIdx /\ l = h => (s + 1) * 2 ^ l = idx + 1
  BY <1>3
<1>. HIDE DEF Neighbour
<1>. QED  BY <1>1, <1>2, <1>4, <1>5, <1>6

-----------------------------------------------------------------------------
(* The invariant holds *)

LEMMA ShiftZero == ASSUME NEW x \in Int PROVE x \div 2 ^ 0 = x /\ x * 2 ^ 0 = x
<1>1. 2 ^ 0 = 1
  OBVIOUS
<1>2. x \div 1 = x /\ x * 1 = x
  OBVIOUS
<1>. QED  BY <1>1, <1>2

\* The reference, at the leaves and above them.
LEMMA ReferenceLeaf ==
  ASSUME height \in Nat, NEW x \in 0..MaxIdx
  PROVE  Reference[0][x] = Leaf(x + offset)
<1>1. Reference[0] = [j \in 0..MaxIdx |-> Leaf(j + offset)]
  BY TreeLeaves DEF Reference
<1>. QED  BY <1>1

LEMMA ReferenceNode ==
  ASSUME height \in Nat, NEW l \in 1..height, NEW x \in 0..(2 ^ (height - l) - 1)
  PROVE  IsNode(Reference, "seed", TreeBase, offset, l, x)
<1>. DEFINE leaves == [j \in 0..MaxIdx |-> Leaf(j + offset)]
<1>1. Reference = TreeLevels("seed", TreeBase, leaves, height, offset)
  BY DEF Reference
<1>. HIDE DEF leaves
<1>2. IsNode(TreeLevels("seed", TreeBase, leaves, height, offset), "seed", TreeBase, offset, l, x)
  BY TreeNode
<1>. QED  BY <1>1, <1>2

LEMMA InitTreeInv == Init => TreeInv
<1>. SUFFICES ASSUME Init PROVE TreeInv
  OBVIOUS
<1>1. height \in Nat \ {0} /\ 2 ^ height \in Nat \ {0} /\ MaxIdx \in Nat
  BY HeightType DEF Init
<1>2. offset \in Nat
  <2>1. PICK t \in 0..(Trees - 1) : offset = t * 2 ^ height
    BY DEF Init
  <2>2. t \in Nat
    BY TreeHashAssumption
  <2>. QED  BY <1>1, <2>1, <2>2
<1>3. ArgumentsType
  BY <1>2 DEF Init, ArgumentsType
<1>4. leafIdx \in Int
  BY <1>1, TreeHashAssumption DEF Init
<1>5. NodeUnderWay
  <2>1. 0 \div 2 ^ 0 = 0 /\ leafIdx \div 2 ^ 0 = leafIdx /\ offset \div 2 ^ 0 = offset
        /\ (0 + 1) * 2 ^ 0 = 0 + 1
    BY <1>2, <1>4, ShiftZero
  <2>. QED  BY <1>1, <2>1 DEF Init, NodeUnderWay
<1>6. AddressOfTree
  <2>1. TreeBase = NodeAddr(TreeBase, TreeBase.b27, TreeBase.index)
    BY DEF TreeBase, NodeAddr, SetTreeIndex, SetTreeHeight, ZeroAddr
  <2>. QED  BY <2>1 DEF Init, AddressOfTree
<1>7. CurrentNode
  <2>1. Reference[0][0] = Leaf(0 + offset) /\ 0 + offset = offset
    BY <1>1, <1>2, ReferenceLeaf
  <2>. QED  BY <2>1 DEF Init, CurrentNode
<1>8. \A l \in Levels : 0 \div 2 ^ l = 0
  <2>1. \A l \in Levels : 2 ^ l \in Nat \ {0}
    BY <1>1, PowerNat DEF Levels
  <2>. QED  BY <2>1
<1>9. LeftOnStack
  <2>1. idx = 0 /\ h = 0 /\ stack = [l \in Levels |-> Unset]
    BY DEF Init
  <2>2. \A l \in h..(height - 1) : l \in Levels /\ (idx \div 2 ^ l) % 2 = 0
    <3>1. 0 % 2 = 0
      OBVIOUS
    <3>. QED  BY <1>8, <2>1, <3>1 DEF Levels
  <2>3. ASSUME NEW l \in h..(height - 1), (idx \div 2 ^ l) % 2 = 1 PROVE FALSE
    BY <2>2, <2>3
  <2>. QED  BY <2>1, <2>3 DEF LeftOnStack
<1>10. PathSoFar
  <2>1. ASSUME leafIdx # NoLeaf, NEW l \in Levels PROVE ~Visited(l)
    <3>1. leafIdx \in Nat /\ l \in Nat /\ 2 ^ l \in Nat \ {0}
      BY <1>1, <2>1, PowerNat DEF Init, Levels
    <3>2. Neighbour(l) \in Nat
      BY <3>1, ShiftType, SiblingType DEF Neighbour
    <3>3. \A s \in Nat, P \in Nat \ {0} : ~((s + 1) * P <= 0)
      OBVIOUS
    <3>4. ~((Neighbour(l) + 1) * 2 ^ l <= 0)
      BY <3>1, <3>2, <3>3
    <3>. QED  BY <3>1, <3>4 DEF Visited, Init
  <2>. QED  BY <2>1 DEF Init, PathSoFar
<1>11. RootAtTop
  BY DEF Init, RootAtTop
<1>. QED  BY <1>3, <1>5, <1>6, <1>7, <1>9, <1>10, <1>11 DEF TreeInv

LEMMA TreeInvReturn ==
  ASSUME TreeInv, Return
  PROVE  TreeInv'
<1>1. UNCHANGED << height, leafIdx, offset, idx, h, internalIdx, internalLeaf,
                   internalOffset, current, stack, authPath, treeAddr >>
  BY DEF Return
<1>2. RootAtTop'
  BY DEF Return, RootAtTop, AtTop
<1>. QED
  BY <1>1, <1>2 DEF TreeInv, ArgumentsType, NodeUnderWay, AddressOfTree, CurrentNode, LeftOnStack,
     PathSoFar, Visited, Neighbour, Levels, MaxIdx, Reference, Leaf, Unset

LEMMA TreeInvPush ==
  ASSUME TreeInv, Push
  PROVE  TreeInv'
<1>1. /\ ~AtTop /\ internalIdx % 2 = 0 /\ idx < MaxIdx /\ SavePath
      /\ stack' = [stack EXCEPT ![h] = current]
      /\ StartLeaf(idx + 1)
      /\ UNCHANGED << height, leafIdx, offset, treeAddr, root >> /\ root = Unset
  BY DEF Push, LeftChild
<1>2. /\ height \in Nat \ {0} /\ 2 ^ height \in Nat \ {0} /\ MaxIdx \in Nat
      /\ idx \in Nat /\ h \in Levels /\ h \in Nat
      /\ internalIdx \in Nat /\ offset \in Nat /\ idx + 1 \in 0..MaxIdx
  <2>1. /\ height \in Nat \ {0} /\ 2 ^ height \in Nat \ {0} /\ MaxIdx \in Nat
        /\ idx \in Nat /\ h \in 0..height /\ h \in Nat /\ internalIdx \in Nat /\ offset \in Nat
    BY Numbers
  <2>2. h \in Levels
    BY <1>1, <2>1 DEF AtTop, Levels
  <2>3. idx + 1 \in 0..MaxIdx
    BY <1>1, <2>1
  <2>. QED  BY <2>1, <2>2, <2>3
<1>3. /\ idx' = idx + 1 /\ h' = 0 /\ current' = Leaf(idx + 1 + offset)
      /\ internalIdx' = idx + 1 /\ internalLeaf' = leafIdx /\ internalOffset' = offset
  BY <1>1 DEF StartLeaf
<1>4. Levels' = Levels /\ MaxIdx' = MaxIdx /\ Reference' = Reference /\ Unset' = Unset
  BY <1>1 DEF Levels, MaxIdx, Reference, Leaf, Unset
<1>5. ArgumentsType'
  BY <1>1 DEF TreeInv, ArgumentsType, MaxIdx
<1>6. NodeUnderWay'
  <2>1. leafIdx \in Int
    BY <1>1, <1>2, TreeHashAssumption DEF TreeInv, ArgumentsType
  <2>2. (idx + 1) \div 2 ^ 0 = idx + 1 /\ leafIdx \div 2 ^ 0 = leafIdx
        /\ offset \div 2 ^ 0 = offset /\ (idx + 1 + 1) * 2 ^ 0 = idx + 1 + 1
    BY <1>2, <2>1, ShiftZero, idx + 1 \in Int, idx + 1 + 1 \in Int, offset \in Int
  <2>. QED  BY <1>1, <1>2, <1>3, <1>4, <2>2 DEF NodeUnderWay
<1>7. AddressOfTree'
  BY <1>1 DEF TreeInv, AddressOfTree
<1>8. CurrentNode'
  BY <1>2, <1>3, <1>4, ReferenceLeaf DEF CurrentNode
<1>9. LeftOnStack'
  <2>1. DOMAIN stack' = Levels
    BY <1>1 DEF TreeInv, LeftOnStack
  <2>2. ASSUME NEW l \in Levels, ((idx + 1) \div 2 ^ l) % 2 = 1
        PROVE  stack'[l] = Reference[l][(idx + 1) \div 2 ^ l - 1]
    <3>1. l \in Nat /\ internalIdx = idx \div 2 ^ h /\ idx + 1 = (internalIdx + 1) * 2 ^ h
      BY <1>2 DEF TreeInv, NodeUnderWay, Levels
    <3>2. /\ l < h => ((idx + 1) \div 2 ^ l) % 2 = 0
          /\ l = h => (idx + 1) \div 2 ^ l = internalIdx + 1
          /\ l > h => (idx + 1) \div 2 ^ l = idx \div 2 ^ l
      <4>1. /\ internalIdx \in Nat /\ internalIdx % 2 = 0 /\ h \in Nat /\ idx \in Nat
            /\ idx \div 2 ^ h = internalIdx /\ idx + 1 = (internalIdx + 1) * 2 ^ h
            /\ l \in Nat
        BY <1>1, <1>2, <3>1, Zenon
      <4>2. NextFrom(idx + 1, idx, internalIdx, h, l)
        BY <4>1, NextLeaf, Zenon
      <4>. QED  BY <4>2 DEF NextFrom
    <3>3. CASE l = h
      <4>1. (idx + 1) \div 2 ^ l - 1 = internalIdx
        BY <1>2, <3>2, <3>3
      <4>2. stack'[h] = current
        BY <1>1, <1>2 DEF TreeInv, LeftOnStack
      <4>. QED  BY <3>3, <4>1, <4>2 DEF TreeInv, CurrentNode
    <3>4. CASE l # h
      <4>1. l > h /\ (idx + 1) \div 2 ^ l = idx \div 2 ^ l
        BY <1>2, <2>2, <3>1, <3>2, <3>4
      <4>2. l \in h..(height - 1) /\ (idx \div 2 ^ l) % 2 = 1
        <5>1. l \in h..(height - 1)
          BY <1>2, <3>1, <4>1 DEF Levels
        <5>2. (idx \div 2 ^ l) % 2 = 1
          BY <2>2, <4>1, Zenon
        <5>. QED  BY <5>1, <5>2
      <4>3. stack[l] = Reference[l][idx \div 2 ^ l - 1]
        BY <4>2 DEF TreeInv, LeftOnStack
      <4>4. stack'[l] = stack[l]
        BY <1>1, <3>4, <2>2 DEF TreeInv, LeftOnStack
      <4>. QED  BY <4>1, <4>3, <4>4
    <3>. QED  BY <3>3, <3>4
  <2>. QED  BY <1>1, <1>3, <1>4, <2>1, <2>2 DEF LeftOnStack, Levels
<1>10. PathSoFar'
  <2>1. ASSUME leafIdx # NoLeaf, NEW l \in Levels
        PROVE  Visited(l)' <=> Visited(l) \/ (l = h /\ Neighbour(l) = internalIdx)
    <3>. DEFINE e == (Neighbour(l) + 1) * 2 ^ l
    <3>1. /\ e \in Nat /\ (l = h => (e = idx + 1 <=> Neighbour(l) = internalIdx))
          /\ (l > h => e # idx + 1)
      BY <1>1, <2>1, NeighbourEnds
    <3>2. Visited(l)' <=> e <= idx + 1 \/ (e = idx + 1 + 1 /\ l < 0)
      <4>1. Neighbour(l)' = Neighbour(l)
        BY <1>1 DEF Neighbour
      <4>. QED  BY <1>3, <4>1 DEF Visited
    <3>3. Visited(l) <=> e <= idx \/ (e = idx + 1 /\ l < h)
      BY DEF Visited
    <3>4. l \in Nat
      BY <1>2 DEF Levels
    <3>. HIDE DEF e, Visited, Neighbour
    <3>. QED  BY <1>2, <3>1, <3>2, <3>3, <3>4
  <2>. QED  BY <1>1, <2>1, PathGoesOn
<1>11. RootAtTop'
  BY <1>1, <1>4 DEF RootAtTop
<1>. QED  BY <1>5, <1>6, <1>7, <1>8, <1>9, <1>10, <1>11 DEF TreeInv

\* A right child: its parent is the node under way, with one leaf of its tree.
LEMMA RightChild ==
  ASSUME TreeInv, ~AtTop, ~LeftChild
  PROVE  internalIdx % 2 = 1
<1>1. /\ height \in Nat \ {0} /\ MaxIdx = 2 ^ height - 1 /\ idx \in 0..(2 ^ height - 1)
      /\ idx \in Nat /\ h \in 0..height /\ internalIdx \in Nat /\ MaxIdx \in Nat
  BY Numbers
<1>2. CASE internalIdx % 2 = 0
  <2>1. idx = 2 ^ height - 1
    <3>1. ~(idx < MaxIdx)
      BY <1>2 DEF LeftChild
    <3>. HIDE DEF MaxIdx
    <3>2. idx <= MaxIdx
      BY <1>1
    <3>. QED  BY <1>1, <3>1, <3>2
  <2>2. height \in Nat /\ h # height
    BY <1>1 DEF AtTop
  <2>3. idx \div 2 ^ h = internalIdx /\ idx + 1 = (internalIdx + 1) * 2 ^ h
    BY DEF TreeInv, NodeUnderWay
  <2>. QED  BY <1>1, <2>1, <2>2, <2>3, LastLeaf, Zenon
<1>. QED  BY <1>1, <1>2

LEMMA TreeInvCombine ==
  ASSUME TreeInv, Combine
  PROVE  TreeInv'
<1>. DEFINE j == internalIdx \div 2
<1>1. /\ root = Unset /\ ~AtTop /\ ~LeftChild /\ SavePath /\ Climb
      /\ current' = Thash("seed", treeAddr', << stack[h], current >>)
      /\ h' = h + 1
      /\ internalIdx' = j /\ internalLeaf' = internalLeaf \div 2
      /\ UNCHANGED << height, leafIdx, offset, idx, stack, root >>
  BY DEF Combine
<1>2. /\ height \in Nat \ {0} /\ height \in Nat /\ MaxIdx \in Nat /\ MaxIdx = 2 ^ height - 1
      /\ idx \in 0..(2 ^ height - 1) /\ idx \in Nat /\ h \in 0..height /\ h \in Nat
      /\ internalIdx \in Nat /\ offset \in Nat
  BY Numbers
<1>3. h \in Levels /\ h \in 0..(height - 1) /\ h + 1 \in 1..height /\ h + 1 \in 0..height
  BY <1>1, <1>2 DEF AtTop, Levels
<1>4. internalIdx % 2 = 1 /\ internalIdx = 2 * j + 1 /\ j \in Nat
  <2>1. internalIdx % 2 = 1
    BY <1>1, RightChild
  <2>. QED  BY <1>2, <2>1
<1>5. idx \div 2 ^ h = internalIdx /\ idx + 1 = (internalIdx + 1) * 2 ^ h
  BY DEF TreeInv, NodeUnderWay
<1>6. Levels' = Levels /\ MaxIdx' = MaxIdx /\ Reference' = Reference /\ Unset' = Unset
  BY <1>1 DEF Levels, MaxIdx, Reference, Leaf, Unset
<1>7. idx \div 2 ^ (h + 1) = j /\ j \in 0..(2 ^ (height - (h + 1)) - 1)
  <2>1. idx \div 2 ^ (h + 1) = j
    BY <1>2, <1>5, HalfWay
  <2>2. idx \div 2 ^ (h + 1) \in 0..(2 ^ (height - (h + 1)) - 1)
    BY <1>2, <1>3, Ancestor
  <2>. QED  BY <2>1, <2>2
<1>. HIDE DEF j
<1>8. ArgumentsType'
  BY <1>1 DEF TreeInv, ArgumentsType, MaxIdx
<1>9. internalOffset' = offset \div 2 ^ (h + 1)
  <2>1. offset \div 2 ^ (h + 1) = (offset \div 2 ^ h) \div 2
    BY <1>2, HalfWay
  <2>. QED  BY <1>1, <2>1 DEF Climb, TreeInv, NodeUnderWay
<1>10. NodeUnderWay'
  <2>1. leafIdx \in Nat
    BY <1>2, TreeHashAssumption DEF TreeInv, ArgumentsType
  <2>2. leafIdx \div 2 ^ (h + 1) = (leafIdx \div 2 ^ h) \div 2
    BY <1>2, <2>1, HalfWay
  <2>3. idx + 1 = (j + 1) * 2 ^ (h + 1)
    <3>1. 2 ^ (h + 1) = 2 * 2 ^ h /\ 2 ^ h \in Nat
      BY <1>2, Doubles, PowerNat
    <3>2. (j + 1) * (2 * 2 ^ h) = (2 * j + 1 + 1) * 2 ^ h
      BY <1>4, <3>1
    <3>. QED  BY <1>4, <1>5, <3>1, <3>2
  <2>4. internalLeaf' = leafIdx \div 2 ^ (h + 1)
    BY <1>1, <2>2 DEF TreeInv, NodeUnderWay
  <2>5. idx \in 0..MaxIdx
    BY <1>2
  <2>. QED  BY <1>1, <1>3, <1>6, <1>7, <1>9, <2>3, <2>4, <2>5 DEF NodeUnderWay
<1>11. treeAddr' = NodeAddr(TreeBase, h + 1, j + offset \div 2 ^ (h + 1))
  <2>1. PICK b, n : treeAddr = NodeAddr(TreeBase, b, n)
    BY DEF TreeInv, AddressOfTree
  <2>. DEFINE m == j + offset \div 2 ^ (h + 1)
  <2>2. treeAddr' = NodeAddr(treeAddr, h + 1, m)
    BY <1>1, <1>9 DEF Climb, j
  <2>. HIDE DEF m
  <2>3. NodeAddr(NodeAddr(TreeBase, b, n), h + 1, m) = NodeAddr(TreeBase, h + 1, m)
    BY DEF NodeAddr, SetTreeHeight, SetTreeIndex, TreeBase, ZeroAddr
  <2>. QED  BY <2>1, <2>2, <2>3 DEF m
<1>12. AddressOfTree'
  BY <1>11 DEF AddressOfTree
<1>13. CurrentNode'
  <2>1. IsNode(Reference, "seed", TreeBase, offset, h + 1, j)
    BY <1>2, <1>3, <1>7, ReferenceNode
  <2>2. stack[h] = Reference[h][internalIdx - 1]
    <3>1. h \in h..(height - 1)
      BY <1>3
    <3>2. (idx \div 2 ^ h) % 2 = 1
      BY <1>4, <1>5
    <3>3. stack[h] = Reference[h][idx \div 2 ^ h - 1]
      BY <3>1, <3>2 DEF TreeInv, LeftOnStack
    <3>. QED  BY <1>5, <3>3
  <2>3. current = Reference[h][internalIdx]
    BY DEF TreeInv, CurrentNode
  <2>4. internalIdx - 1 = 2 * j /\ internalIdx = 2 * j + 1 /\ (h + 1) - 1 = h
    BY <1>2, <1>4
  <2>5. current' = Reference[h + 1][j]
    BY <1>1, <1>11, <2>1, <2>2, <2>3, <2>4 DEF IsNode
  <2>. QED  BY <1>1, <1>6, <2>5 DEF CurrentNode
<1>14. LeftOnStack'
  <2>1. \A l \in (h + 1)..(height - 1) : l \in h..(height - 1)
    BY <1>2
  <2>2. /\ DOMAIN stack = Levels
        /\ \A l \in h..(height - 1) :
             (idx \div 2 ^ l) % 2 = 1 => stack[l] = Reference[l][idx \div 2 ^ l - 1]
    BY DEF TreeInv, LeftOnStack
  <2>. QED  BY <1>1, <1>6, <2>1, <2>2 DEF LeftOnStack
<1>15. PathSoFar'
  <2>1. ASSUME leafIdx # NoLeaf, NEW l \in Levels
        PROVE  Visited(l)' <=> Visited(l) \/ (l = h /\ Neighbour(l) = internalIdx)
    <3>. DEFINE e == (Neighbour(l) + 1) * 2 ^ l
    <3>1. e \in Nat /\ (l = h => (e = idx + 1 <=> Neighbour(l) = internalIdx))
      BY <1>1, <2>1, NeighbourEnds
    <3>2. Visited(l)' <=> e <= idx \/ (e = idx + 1 /\ l < h + 1)
      <4>1. Neighbour(l)' = Neighbour(l)
        BY <1>1 DEF Neighbour
      <4>. QED  BY <1>1, <4>1 DEF Visited
    <3>3. Visited(l) <=> e <= idx \/ (e = idx + 1 /\ l < h)
      BY DEF Visited
    <3>4. l \in Nat
      BY <1>2 DEF Levels
    <3>. HIDE DEF e, Visited, Neighbour
    <3>. QED  BY <1>2, <3>1, <3>2, <3>3, <3>4
  <2>. QED  BY <1>1, <2>1, PathGoesOn
<1>16. RootAtTop'
  BY <1>1, <1>6 DEF RootAtTop
<1>. QED  BY <1>8, <1>10, <1>12, <1>13, <1>14, <1>15, <1>16 DEF TreeInv

LEMMA NextTreeInv == TreeInv /\ [Next]_vars => TreeInv'
<1>. SUFFICES ASSUME TreeInv, [Next]_vars PROVE TreeInv'
  OBVIOUS
<1>1. CASE Return
  BY <1>1, TreeInvReturn
<1>2. CASE Push
  BY <1>2, TreeInvPush
<1>3. CASE Combine
  BY <1>3, TreeInvCombine
<1>4. CASE UNCHANGED vars
  BY <1>4 DEF vars, TreeInv, ArgumentsType, NodeUnderWay, AddressOfTree, CurrentNode, LeftOnStack,
     PathSoFar, Visited, Neighbour, Levels, MaxIdx, Reference, Leaf, Unset, RootAtTop
<1>. QED  BY <1>1, <1>2, <1>3, <1>4 DEF Next

LEMMA TreeInvHolds == Spec => []TreeInv
  BY InitTreeInv, NextTreeInv, PTL DEF Spec

\* The stack and the current node are always nodes of the tree treehashx1 is
\* called for (utilsx1.c), each at its own place.
THEOREM StackHolds == Spec => []StackHoldsTheTree
<1>1. TreeInv => StackHoldsTheTree
  BY DEF TreeInv, NodeUnderWay, CurrentNode, LeftOnStack, StackHoldsTheTree
<1>. QED  BY <1>1, TreeInvHolds, PTL

\* At the top every neighbour's turn has been.
LEMMA AllVisited ==
  ASSUME TreeInv, h = height, leafIdx # NoLeaf, NEW l \in Levels
  PROVE  Visited(l)
<1>1. /\ height \in Nat /\ idx \in 0..(2 ^ height - 1) /\ h \in 0..height
      /\ idx \div 2 ^ h = internalIdx /\ idx + 1 = (internalIdx + 1) * 2 ^ h /\ internalIdx \in Nat
  BY Numbers DEF TreeInv, NodeUnderWay
<1>2. idx = 2 ^ height - 1
  BY <1>1, LastLeaf, Zenon
<1>3. l \in 0..(height - 1) /\ leafIdx \in 0..(2 ^ height - 1)
  BY DEF TreeInv, ArgumentsType, Levels, MaxIdx
<1>4. Neighbour(l) \in Nat /\ (Neighbour(l) + 1) * 2 ^ l <= 2 ^ height
  BY <1>1, <1>3, NeighbourInside DEF Neighbour
<1>5. 2 ^ l \in Nat /\ 2 ^ height \in Nat
  BY <1>1, <1>3, PowerNat
<1>. DEFINE e == (Neighbour(l) + 1) * 2 ^ l
<1>6. e \in Nat /\ e <= idx + 1 /\ l < h
  BY <1>1, <1>2, <1>3, <1>4, <1>5
<1>7. Visited(l) <=> e <= idx \/ (e = idx + 1 /\ l < h)
  BY DEF Visited
<1>. HIDE DEF e, Visited
<1>. QED  BY <1>1, <1>6, <1>7

\* The path that treehashx1 notes leads from the leaf to the root it returns;
\* with ~0 for a leaf it notes none.
THEOREM PathLeads == Spec => []PathVerifies
<1>1. TreeInv => PathVerifies
  <2>. SUFFICES ASSUME TreeInv, root # Unset PROVE PathVerifies
    BY DEF PathVerifies
  <2>1. h = height /\ root = current
    BY DEF TreeInv, RootAtTop
  <2>2. CASE leafIdx = NoLeaf
    BY <2>2 DEF TreeInv, PathSoFar, PathVerifies
  <2>3. CASE leafIdx # NoLeaf
    <3>. DEFINE leaves == [j \in 0..MaxIdx |-> Leaf(j + offset)]
    <3>1. height \in Nat /\ leafIdx \in 0..MaxIdx /\ leafIdx \in 0..(2 ^ height - 1)
      BY <2>3, Numbers DEF TreeInv, ArgumentsType, MaxIdx
    <3>2. \A l \in Levels : authPath[l] = Reference[l][Sibling(leafIdx \div 2 ^ l)]
      BY <2>1, <2>3, AllVisited DEF TreeInv, PathSoFar, Neighbour
    <3>3. Reference = TreeLevels("seed", TreeBase, leaves, height, offset)
      BY DEF Reference
    <3>4. leaves[leafIdx] = Leaf(leafIdx + offset)
      BY <3>1
    <3>. HIDE DEF leaves
    <3>5. \A l \in 0..(height - 1) :
            authPath[l] =
              TreeLevels("seed", TreeBase, leaves, height, offset)[l][Sibling(leafIdx \div 2 ^ l)]
      BY <3>2, <3>3 DEF Levels
    <3>6. ComputeRoot("seed", TreeBase, leaves[leafIdx], leafIdx, offset, authPath, height) =
            TreeRoot(TreeLevels("seed", TreeBase, leaves, height, offset), height)
      BY <3>1, <3>5, PathLeadsToRoot, Zenon
    <3>7. root = Reference[height][0]
      <4>1. internalIdx = 0
        <5>1. idx \div 2 ^ height \in 0..(2 ^ (height - height) - 1) /\ idx \div 2 ^ h = internalIdx
          BY <3>1, Numbers, Ancestor, height \in 0..height DEF TreeInv, NodeUnderWay
        <5>2. 2 ^ (height - height) - 1 = 0
          <6>1. height - height = 0 /\ 2 ^ 0 = 1 /\ 1 - 1 = 0
            BY <3>1
          <6>. QED  BY <6>1, Zenon
        <5>3. internalIdx \in 0..0
          BY <2>1, <5>1, <5>2, Zenon
        <5>. QED  BY <5>3
      <4>. QED  BY <2>1, <4>1 DEF TreeInv, CurrentNode
    <3>8. root = ComputeRoot("seed", TreeBase, Leaf(leafIdx + offset), leafIdx,
                             offset, authPath, height)
      BY <3>3, <3>4, <3>6, <3>7, Zenon DEF TreeRoot
    <3>. QED  BY <2>3, <3>8 DEF PathVerifies
  <2>. QED  BY <2>2, <2>3
<1>. QED  BY <1>1, TreeInvHolds, PTL

-----------------------------------------------------------------------------
(* A one-time signature *)

\* The address of a place in a chain of the key kp.
ChainAddr(kp, c, n) ==
  [layer |-> 1, tree |-> 1, type |-> "WOTS", kp |-> kp, b27 |-> c, index |-> n]

\* An address of that key, with what the chains before left in it.
KeyAddr(a, kp) == \E c : \E n \in 0..(ByteSize - 1) : a = ChainAddr(kp, c, n)

\* What the chain of the signer is after so many steps.
ValueAt(c, steps) == ChainValue("seed", ChainAddr(ownLeaf, 0, 0), c, steps)

PkAt(c)  == ValueAt(c, W - 1)
SigAt(c) == ValueAt(c, Lengths[c])

\* Chains whose turn has been, in the pass of phase p.
Past(p, c) == phase = "done" \/ (phase = p /\ c < chain) \/ (phase = "verify" /\ p = "generate")

AddressOfKey ==
  /\ msg \in Message /\ chain \in Chains /\ phase \in {"generate", "verify", "done"}
  /\ KeyAddr(leafAddr, ownLeaf)
  /\ KeyAddr(wotsAddr, signLeaf)

PkBufferWritten ==
  pkBuffer = [c \in Chains |-> IF Past("generate", c) THEN PkAt(c) ELSE Unset]

SigWritten ==
  sig = [c \in Chains |-> IF Signs /\ Past("generate", c) THEN SigAt(c) ELSE Unset]

PkWritten == pk = [c \in Chains |-> IF Signs /\ Past("verify", c) THEN PkAt(c) ELSE Unset]

Written == (phase = "verify" => Signs) /\ PkBufferWritten /\ SigWritten /\ PkWritten

ChainInv == AddressOfKey /\ Written

-----------------------------------------------------------------------------
LEMMA Bounds == WotsLen \in Nat \ {0} /\ W - 2 \in 0..(ByteSize - 1)
<1>1. WotsLen \in Nat \ {0}
  BY Len1Type, WotsAssumption DEF WotsLen
<1>2. W - 2 \in 0..(ByteSize - 1)
  BY WType, WotsAssumption DEF W, ByteSize
<1>. QED  BY <1>1, <1>2

\* The place in a chain is written over, whatever it was.
LEMMA SetHashAddr ==
  ASSUME NEW kp, NEW c, NEW n \in 0..(ByteSize - 1), NEW k \in Nat
  PROVE  SetHash(ChainAddr(kp, c, n), k) = ChainAddr(kp, c, k)
<1>1. (n - (n % ByteSize)) + k = k
  BY DEF ByteSize
<1>. QED  BY <1>1 DEF SetHash, ChainAddr

\* The start of a chain for the setters, from an address of the key.
LEMMA StartOfChain ==
  ASSUME NEW a, NEW kp, KeyAddr(a, kp), NEW c
  PROVE  /\ SetHash(SetChain(a, c), 0) = ChainAddr(kp, c, 0)
         /\ \A k \in Nat : SetHash(SetChain(a, c), k) = ChainAddr(kp, c, k)
         /\ \A k \in 0..(ByteSize - 1) :
              KeyAddr(SetType(SetHash(SetChain(a, c), k), "WOTS"), kp)
         /\ KeyAddr(SetChain(a, c), kp)
         /\ \A k \in 0..(ByteSize - 1) : KeyAddr(SetHash(SetChain(a, c), k), kp)
<1>1. PICK d : \E n \in 0..(ByteSize - 1) : a = ChainAddr(kp, d, n)
  BY DEF KeyAddr
<1>2. PICK n \in 0..(ByteSize - 1) : a = ChainAddr(kp, d, n)
  BY <1>1
<1>3. SetChain(a, c) = ChainAddr(kp, c, n)
  BY <1>2 DEF SetChain, ChainAddr
<1>4. \A k \in Nat : SetHash(SetChain(a, c), k) = ChainAddr(kp, c, k)
  BY <1>3, SetHashAddr
<1>5. \A k \in 0..(ByteSize - 1) : SetHash(SetChain(a, c), k) = ChainAddr(kp, c, k)
  BY <1>4 DEF ByteSize
<1>6. \A k : SetType(ChainAddr(kp, c, k), "WOTS") = ChainAddr(kp, c, k)
  BY DEF SetType, ChainAddr
<1>. QED  BY <1>3, <1>4, <1>5, <1>6 DEF KeyAddr

\* A chain of the signer does not depend on what is left in its address.
LEMMA ValueOfKey ==
  ASSUME KeyAddr(leafAddr, ownLeaf), NEW c, NEW steps
  PROVE  /\ ChainValue("seed", leafAddr, c, steps) = ValueAt(c, steps)
         /\ ValueAt(c, steps) = GenChain("seed", ChainAddr(ownLeaf, c, 0),
                                         ChainStart("seed", ChainAddr(ownLeaf, 0, 0), c), 0, steps)
<1>1. KeyAddr(ChainAddr(ownLeaf, 0, 0), ownLeaf)
  BY 0 \in 0..(ByteSize - 1) DEF KeyAddr, ByteSize
<1>2. /\ SetHash(SetChain(leafAddr, c), 0) = ChainAddr(ownLeaf, c, 0)
      /\ SetHash(SetChain(ChainAddr(ownLeaf, 0, 0), c), 0) = ChainAddr(ownLeaf, c, 0)
  BY <1>1, StartOfChain
<1>3. SetType(ChainAddr(ownLeaf, c, 0), "WOTS") = ChainAddr(ownLeaf, c, 0)
  BY DEF SetType, ChainAddr
<1>. QED  BY <1>2, <1>3 DEF ChainValue, ChainStart, ValueAt

\* The verifier goes on where the signer stopped, to the end of the chain.
LEMMA EndOfChain ==
  ASSUME KeyAddr(leafAddr, ownLeaf), KeyAddr(wotsAddr, ownLeaf), NEW c,
         NEW length \in 0..(W - 1)
  PROVE  ChainEnd("seed", wotsAddr, c, ValueAt(c, length), length) = ValueAt(c, W - 1)
<1>. DEFINE a == ChainAddr(ownLeaf, c, 0)
            b == SetChain(wotsAddr, c)
            x == ChainStart("seed", ChainAddr(ownLeaf, 0, 0), c)
<1>1. \A k \in Nat : SetHash(b, k) = SetHash(a, k)
  <2>1. \A k \in Nat : SetHash(b, k) = ChainAddr(ownLeaf, c, k)
    BY StartOfChain
  <2>2. \A k \in Nat : SetHash(a, k) = ChainAddr(ownLeaf, c, k)
    BY SetHashAddr, 0 \in 0..(ByteSize - 1) DEF ByteSize
  <2>. QED  BY <2>1, <2>2
<1>2. /\ ValueAt(c, length) = GenChain("seed", a, x, 0, length)
      /\ ValueAt(c, W - 1) = GenChain("seed", a, x, 0, W - 1)
  BY ValueOfKey
<1>3. ChainEnd("seed", wotsAddr, c, ValueAt(c, length), length) =
      GenChain("seed", b, ValueAt(c, length), length, W - 1 - length)
  BY DEF ChainEnd
<1>. HIDE DEF a, b, x
<1>4. GenChain("seed", b, GenChain("seed", a, x, 0, length), length, W - 1 - length) =
      GenChain("seed", a, x, 0, W - 1)
  BY <1>1, ChainsJoin
<1>. QED  BY <1>2, <1>3, <1>4

-----------------------------------------------------------------------------
LEMMA InitChainInv == WotsInit => ChainInv
<1>. SUFFICES ASSUME WotsInit PROVE ChainInv
  OBVIOUS
<1>1. chain = 0 /\ chain \in Chains
  BY Bounds DEF WotsInit, Chains
<1>2. leafAddr = ChainAddr(ownLeaf, 0, 0) /\ wotsAddr = ChainAddr(signLeaf, 0, 0)
  BY DEF WotsInit, Subtree, CopySubtree, SetKeypair, SetTree, SetLayer, ZeroAddr, ChainAddr
<1>3. KeyAddr(leafAddr, ownLeaf) /\ KeyAddr(wotsAddr, signLeaf)
  BY <1>2, 0 \in 0..(ByteSize - 1) DEF KeyAddr, ByteSize
<1>4. \A c \in Chains : ~(c < 0)
  BY Bounds DEF Chains
<1>5. \A c \in Chains : ~Past("generate", c) /\ ~Past("verify", c)
  BY <1>1, <1>4 DEF WotsInit, Past
<1>. QED  BY <1>1, <1>3, <1>5 DEF WotsInit, ChainInv, AddressOfKey, Written,
                               PkBufferWritten, SigWritten, PkWritten

\* After its turn a chain is past; the pass of the next phase has not begun.
LEMMA PastAfterTurn ==
  ASSUME NEW p \in {"generate", "verify"}, chain \in Chains, phase = p,
         NEW next \in {"verify", "done"}, Advance(next),
         p = "verify" => next = "done"
  PROVE  /\ chain' \in Chains /\ phase' \in {p, next}
         /\ \A c \in Chains : Past(p, c)' <=> Past(p, c) \/ c = chain
         /\ p = "generate" => \A c \in Chains : Past("verify", c)' <=> phase' = "done"
         /\ p = "verify" => \A c \in Chains : Past("generate", c)'
<1>1. CASE chain = WotsLen - 1
  <2>1. chain' = 0 /\ phase' = next
    BY <1>1 DEF Advance
  <2>2. \A c \in Chains : (c < chain \/ c = chain) /\ ~(c < 0)
    BY <1>1, Bounds DEF Chains
  <2>3. 0 \in Chains
    BY Bounds DEF Chains
  <2>. QED  BY <2>1, <2>2, <2>3 DEF Past
<1>2. CASE chain # WotsLen - 1
  <2>1. chain' = chain + 1 /\ phase' = phase
    BY <1>2 DEF Advance
  <2>2. chain + 1 \in Chains
    BY <1>2, Bounds DEF Chains
  <2>3. \A c \in Chains : c < chain + 1 <=> c < chain \/ c = chain
    BY Bounds DEF Chains
  <2>. QED  BY <2>1, <2>2, <2>3 DEF Past
<1>. QED  BY <1>1, <1>2

LEMMA GenerateChainInv ==
  ASSUME ChainInv, GenerateChain
  PROVE  ChainInv'
<1>1. /\ msg \in Message /\ chain \in Chains /\ phase = "generate"
      /\ KeyAddr(leafAddr, ownLeaf) /\ KeyAddr(wotsAddr, signLeaf)
      /\ UNCHANGED << msg, ownLeaf, signLeaf, wotsAddr, pk >>
  BY DEF ChainInv, AddressOfKey, GenerateChain
<1>. DEFINE next == IF Signs THEN "verify" ELSE "done"
<1>2. Advance(next) /\ next \in {"verify", "done"}
  BY DEF GenerateChain
<1>3. /\ chain' \in Chains /\ phase' \in {"generate", next}
      /\ \A c \in Chains : Past("generate", c)' <=> Past("generate", c) \/ c = chain
      /\ \A c \in Chains : Past("verify", c)' <=> phase' = "done"
  BY <1>1, <1>2, PastAfterTurn
<1>4. Signs' = Signs /\ \A c : PkAt(c)' = PkAt(c) /\ SigAt(c)' = SigAt(c)
  BY <1>1 DEF Signs, Lengths, ValueAt, PkAt, SigAt
<1>5. AddressOfKey'
  <2>1. leafAddr' = SetType(SetHash(SetChain(leafAddr, chain), W - 2), "WOTS")
    BY DEF GenerateChain
  <2>2. KeyAddr(leafAddr', ownLeaf)
    BY <1>1, <2>1, StartOfChain, Bounds
  <2>. QED  BY <1>1, <1>2, <1>3, <2>2 DEF AddressOfKey
<1>6. phase' = "verify" => Signs'
  BY <1>1, <1>3, <1>4
<1>7. phase' = "done" => ~Signs
  BY <1>1, <1>3
<1>. HIDE DEF next
<1>8. PkBufferWritten'
  <2>1. pkBuffer' = [pkBuffer EXCEPT ![chain] = PkAt(chain)]
    BY <1>1, ValueOfKey DEF GenerateChain, PkAt
  <2>2. PkBufferWritten
    BY DEF ChainInv, Written
  <2>. QED  BY <1>1, <1>3, <1>4, <2>1, <2>2 DEF PkBufferWritten, Chains, Unset
<1>9. SigWritten'
  <2>1. sig' = IF Signs THEN [sig EXCEPT ![chain] = SigAt(chain)] ELSE sig
    BY <1>1, ValueOfKey DEF GenerateChain, SigAt
  <2>2. SigWritten
    BY DEF ChainInv, Written
  <2>. QED  BY <1>1, <1>3, <1>4, <2>1, <2>2 DEF SigWritten, Chains, Unset
<1>10. PkWritten'
  <2>1. PkWritten
    BY DEF ChainInv, Written
  <2>2. \A c \in Chains : ~Past("verify", c)
    BY <1>1 DEF Past
  <2>. QED  BY <1>1, <1>3, <1>4, <1>7, <2>1, <2>2 DEF PkWritten, Chains, Unset
<1>11. Written'
  BY <1>6, <1>8, <1>9, <1>10 DEF Written
<1>. QED  BY <1>5, <1>11 DEF ChainInv

LEMMA VerifyChainInv ==
  ASSUME ChainInv, VerifyChain
  PROVE  ChainInv'
<1>1. /\ msg \in Message /\ chain \in Chains /\ phase = "verify" /\ Signs
      /\ KeyAddr(leafAddr, ownLeaf) /\ KeyAddr(wotsAddr, signLeaf)
      /\ UNCHANGED << msg, ownLeaf, signLeaf, leafAddr, pkBuffer, sig >>
  BY DEF ChainInv, AddressOfKey, Written, VerifyChain
<1>2. /\ chain' \in Chains /\ phase' \in {"verify", "done"}
      /\ \A c \in Chains : Past("verify", c)' <=> Past("verify", c) \/ c = chain
      /\ \A c \in Chains : Past("generate", c)'
  BY <1>1, PastAfterTurn DEF VerifyChain
<1>3. Signs' = Signs /\ \A c : PkAt(c)' = PkAt(c) /\ SigAt(c)' = SigAt(c)
  BY <1>1 DEF Signs, Lengths, ValueAt, PkAt, SigAt
<1>4. \A c \in Chains : Past("generate", c)
  BY <1>1 DEF Past
<1>5. AddressOfKey'
  <2>1. wotsAddr' = LET a == SetChain(wotsAddr, chain)
                    IN  IF Lengths[chain] < W - 1 THEN SetHash(a, W - 2) ELSE a
    BY DEF VerifyChain
  <2>2. KeyAddr(wotsAddr', signLeaf)
    BY <1>1, <2>1, StartOfChain, Bounds
  <2>. QED  BY <1>1, <1>2, <2>2 DEF AddressOfKey
<1>6. PkWritten'
  <2>1. PkWritten
    BY DEF ChainInv, Written
  <2>2. sig[chain] = ValueAt(chain, Lengths[chain])
    BY <1>1, <1>4 DEF ChainInv, Written, SigWritten, SigAt
  <2>3. Lengths[chain] \in 0..(W - 1)
    BY <1>1, LengthsType DEF Lengths, Chains
  <2>4. ChainEnd("seed", wotsAddr, chain, sig[chain], Lengths[chain]) = PkAt(chain)
    BY <1>1, <2>2, <2>3, EndOfChain DEF Signs, PkAt
  <2>5. pk' = [pk EXCEPT ![chain] = PkAt(chain)]
    BY <2>4 DEF VerifyChain
  <2>. QED  BY <1>1, <1>2, <1>3, <2>1, <2>5 DEF PkWritten, Chains, Unset
<1>7. PkBufferWritten'
  BY <1>1, <1>2, <1>3, <1>4 DEF ChainInv, Written, PkBufferWritten, Chains, Unset
<1>8. SigWritten'
  BY <1>1, <1>2, <1>3, <1>4 DEF ChainInv, Written, SigWritten, Chains, Unset
<1>9. Written'
  BY <1>1, <1>3, <1>6, <1>7, <1>8 DEF Written
<1>. QED  BY <1>5, <1>9 DEF ChainInv

LEMMA NextChainInv == ChainInv /\ [WotsNext]_wotsVars => ChainInv'
<1>. SUFFICES ASSUME ChainInv, [WotsNext]_wotsVars PROVE ChainInv'
  OBVIOUS
<1>1. CASE GenerateChain
  BY <1>1, GenerateChainInv
<1>2. CASE VerifyChain
  BY <1>2, VerifyChainInv
<1>3. CASE UNCHANGED wotsVars
  BY <1>3 DEF wotsVars, ChainInv, AddressOfKey, Written, PkBufferWritten, SigWritten,
               PkWritten, KeyAddr, Past, PkAt, SigAt, ValueAt, Signs, Lengths, Chains, Unset
<1>. QED  BY <1>1, <1>2, <1>3 DEF WotsNext

\* The verifier finds the signer's public key, whatever the message, the sizes
\* and what the chains before left in the addresses.
THEOREM PkFromSig == WotsSpec => []PkFromSigIsPk
<1>1. ChainInv => PkFromSigIsPk
  BY DEF ChainInv, Written, PkBufferWritten, SigWritten, PkWritten, PkFromSigIsPk, Past
<1>. QED  BY <1>1, InitChainInv, NextChainInv, PTL DEF WotsSpec

\* A signature cannot be moved on to another message: along some chain the
\* other is behind, since its checksum is the less the further on its digits
\* are, and the chains of the checksum hold it (ChecksumAssumption).
THEOREM ChecksumHolds == WotsSpec => []ChecksumDominates
<1>1. ChainInv => ChecksumDominates
  <2>. SUFFICES ASSUME msg \in Message, NEW m \in Message, m # msg
                PROVE  \E c \in Chains : AllLengths[m][c] < AllLengths[msg][c]
    BY DEF ChainInv, AddressOfKey, ChecksumDominates
  <2>1. AllLengths[m] = ChainLengths(m) /\ AllLengths[msg] = ChainLengths(msg)
    BY DEF AllLengths
  <2>2. PICK c \in Chains : ~(ChainLengths(m)[c] >= ChainLengths(msg)[c])
    BY NoOtherAbove DEF Chains
  <2>3. ChainLengths(m)[c] \in 0..(W - 1) /\ ChainLengths(msg)[c] \in 0..(W - 1)
    BY LengthsType DEF Chains
  <2>4. ChainLengths(m)[c] < ChainLengths(msg)[c]
    BY <2>2, <2>3, WType
  <2>. QED  BY <2>1, <2>4
<1>. QED  BY <1>1, InitChainInv, NextChainInv, PTL DEF WotsSpec
=============================================================================
