--------------------------- MODULE SphincsLemmas ---------------------------
(***************************************************************************)
(* What the hash structures of SPHINCS+ compute, for every height of tree, *)
(* length of chain and size of digit: the path of a leaf leads to the root *)
(* of its tree, the two parts of a chain make the whole one, every digit   *)
(* is below W.  All are recursive functions, so each has a lemma that it   *)
(* exists, by induction on the number of its values; induction and the     *)
(* powers of two come first.                                               *)
(***************************************************************************)
EXTENDS MerkleTree, Wots, FiniteSetTheorems, FunctionTheorems, TLAPS

(* Induction, and powers of two *)

NatLess == {p \in Nat \X Nat : p[1] < p[2]}

\* A set of numbers that is not empty has a least one.
LEMMA LeastNat ==
  ASSUME NEW T, T \subseteq Nat, T # {}
  PROVE  \E x \in T : \A y \in T : x <= y
<1>1. IsWellFoundedOn(NatLess, Nat)
  BY NatLessThanWellFounded, Zenon DEF OpToRel, NatLess
<1>2. PICK x \in T : \A y \in T : ~ (<< y, x >> \in NatLess)
  BY <1>1, WFMin, Zenon
<1>3. ASSUME NEW y \in T PROVE x <= y
  <2>1. x \in Nat /\ y \in Nat
    OBVIOUS
  <2>2. y < x => << y, x >> \in NatLess
    BY <2>1 DEF NatLess
  <2>. QED  BY <1>2, <2>1, <2>2
<1>. QED  BY <1>3

\* Induction, over a set: the library's takes an operator.
LEMMA Induction ==
  ASSUME NEW S, 0 \in S, \A n \in Nat : n \in S => n + 1 \in S
  PROVE  Nat \subseteq S
<1>. DEFINE T == Nat \ S
<1>1. CASE T # {}
  <2>1. PICK x \in T : \A y \in T : x <= y
    BY <1>1, LeastNat
  <2>2. x # 0 /\ x - 1 \in Nat /\ x - 1 \notin T
    BY <2>1
  <2>3. x - 1 \in S /\ (x - 1) + 1 = x
    BY <2>2
  <2>. QED  BY <2>1, <2>2, <2>3
<1>. QED  BY <1>1

\* The numbers up to n are n.
LEMMA Interval == \A n \in Nat : IsFiniteSet(1..n) /\ Cardinality(1..n) = n
  BY FS_Interval

\* 2 ^ n is the number of subsets of n elements.
LEMMA Subsets ==
  \A n \in Nat : IsFiniteSet(SUBSET (1..n)) /\ Cardinality(SUBSET (1..n)) = 2 ^ n
  BY Interval, FS_SUBSET

\* One element more doubles the subsets: those with it are as many as those without.
LEMMA Doubles == \A n \in Nat : 2 ^ (n + 1) = 2 * 2 ^ n
<1>. SUFFICES ASSUME NEW n \in Nat PROVE 2 ^ (n + 1) = 2 * 2 ^ n
  OBVIOUS
<1>. DEFINE P == SUBSET (1..n)
            Q == {s \cup {n + 1} : s \in P}
            F == [s \in P |-> s \cup {n + 1}]
<1>1. SUBSET (1..(n + 1)) = P \cup Q
  <2>1. ASSUME NEW s \in SUBSET (1..(n + 1)), n + 1 \in s PROVE s \in Q
    <3>1. s \ {n + 1} \in P
      OBVIOUS
    <3>2. s = (s \ {n + 1}) \cup {n + 1}
      BY <2>1
    <3>. QED  BY <3>1, <3>2
  <2>2. ASSUME NEW s \in SUBSET (1..(n + 1)), n + 1 \notin s PROVE s \in P
    BY <2>2
  <2>3. P \subseteq SUBSET (1..(n + 1))
    OBVIOUS
  <2>4. ASSUME NEW s \in Q PROVE s \in SUBSET (1..(n + 1))
    <3>1. PICK r \in P : s = r \cup {n + 1}
      BY <2>4
    <3>. QED  BY <3>1
  <2>. HIDE DEF P, Q
  <2>. QED  BY <2>1, <2>2, <2>3, <2>4
<1>2. P \cap Q = {}
  OBVIOUS
<1>3. ExistsBijection(P, Q)
  <2>1. F \in [P -> Q]
    OBVIOUS
  <2>2. \A a, b \in P : F[a] = F[b] => a = b
    <3>. SUFFICES ASSUME NEW a \in P, NEW b \in P, F[a] = F[b] PROVE a = b
      OBVIOUS
    <3>1. a \cup {n + 1} = b \cup {n + 1} /\ n + 1 \notin a /\ n + 1 \notin b
      OBVIOUS
    <3>. QED  BY <3>1
  <2>3. \A t \in Q : \E s \in P : F[s] = t
    OBVIOUS
  <2>. HIDE DEF P, Q, F
  <2>4. F \in Bijection(P, Q)
    BY <2>1, <2>2, <2>3, Fun_IsBij
  <2>. QED  BY <2>4 DEF ExistsBijection
<1>4. IsFiniteSet(P) /\ Cardinality(P) = 2 ^ n
  BY Subsets
<1>5. Cardinality(P \cup Q) = 2 ^ (n + 1)
  BY <1>1, Subsets, n + 1 \in Nat
<1>. HIDE DEF P, Q, F
<1>6. IsFiniteSet(Q) /\ Cardinality(Q) = 2 ^ n
  BY <1>3, <1>4, FS_Bijection
<1>7. Cardinality({}) = 0
  BY FS_EmptySet
<1>8. Cardinality(P) \in Nat
  BY <1>4, FS_CardinalityType
<1>9. Cardinality(P \cup Q) = Cardinality(P) + Cardinality(Q) - Cardinality(P \cap Q)
  BY <1>4, <1>6, FS_Union
<1>10. Cardinality(P \cup Q) = 2 * Cardinality(P)
  <2>1. Cardinality(Q) = Cardinality(P)
    BY <1>4, <1>6
  <2>2. Cardinality(P \cap Q) = 0
    BY <1>2, <1>7
  <2>. QED  BY <1>8, <1>9, <2>1, <2>2
<1>. QED  BY <1>4, <1>5, <1>10

\* Powers of two are positive numbers.
LEMMA PowerNat == \A n \in Nat : 2 ^ n \in Nat \ {0}
<1>. DEFINE S == {n \in Nat : 2 ^ n \in Nat \ {0}}
<1>1. 0 \in S
  <2>1. 2 ^ 0 = 1
    OBVIOUS
  <2>. QED  BY <2>1
<1>2. \A n \in Nat : n \in S => n + 1 \in S
  BY Doubles
<1>. HIDE DEF S
<1>3. Nat \subseteq S
  BY <1>1, <1>2, Induction
<1>. QED  BY <1>3 DEF S

\* The power of a sum is the product of the powers.
LEMMA PowerSum == \A m, n \in Nat : 2 ^ (m + n) = 2 ^ m * 2 ^ n
<1>. SUFFICES ASSUME NEW m \in Nat PROVE \A n \in Nat : 2 ^ (m + n) = 2 ^ m * 2 ^ n
  OBVIOUS
<1>. DEFINE S == {n \in Nat : 2 ^ (m + n) = 2 ^ m * 2 ^ n}
<1>1. 0 \in S
  <2>1. 2 ^ 0 = 1 /\ m + 0 = m /\ 2 ^ m \in Nat
    BY PowerNat
  <2>. QED  BY <2>1
<1>2. \A n \in Nat : n \in S => n + 1 \in S
  <2>. SUFFICES ASSUME NEW n \in Nat, 2 ^ (m + n) = 2 ^ m * 2 ^ n
                PROVE  2 ^ (m + (n + 1)) = 2 ^ m * 2 ^ (n + 1)
    OBVIOUS
  <2>1. m + (n + 1) = (m + n) + 1 /\ 2 ^ ((m + n) + 1) = 2 * 2 ^ (m + n)
    BY Doubles
  <2>2. 2 ^ (n + 1) = 2 * 2 ^ n
    BY Doubles
  <2>3. 2 ^ m \in Nat /\ 2 ^ n \in Nat
    BY PowerNat
  <2>. QED  BY <2>1, <2>2, <2>3
<1>. HIDE DEF S
<1>3. Nat \subseteq S
  BY <1>1, <1>2, Induction
<1>. QED  BY <1>3 DEF S

\* A multiple divided again.
LEMMA DivOfMultiple ==
  ASSUME NEW q \in Nat, NEW P \in Nat \ {0}, NEW r \in 0..(P - 1)
  PROVE  (q * P + r) \div P = q
  OBVIOUS

\* Dividing by a product is dividing by one factor and then by the other.
LEMMA DivDiv ==
  ASSUME NEW x \in Nat, NEW P \in Nat \ {0}, NEW Q \in Nat \ {0}
  PROVE  x \div (P * Q) = (x \div P) \div Q
<1>. DEFINE q == x \div P
            r == q \div Q
            s == (q % Q) * P + (x % P)
<1>1. q \in Nat /\ x % P \in 0..(P - 1) /\ x = q * P + (x % P)
  OBVIOUS
<1>. HIDE DEF q
<1>2. r \in Nat /\ q % Q \in 0..(Q - 1) /\ q = r * Q + (q % Q)
  BY <1>1
<1>. HIDE DEF r
<1>3. P * Q \in Nat \ {0}
  OBVIOUS
<1>4. s \in 0..(P * Q - 1)
  <2>1. (q % Q) * P \in Nat /\ (q % Q) * P <= (Q - 1) * P
    BY <1>2
  <2>2. (Q - 1) * P = P * Q - P
    OBVIOUS
  <2>. QED  BY <1>1, <1>3, <2>1, <2>2
<1>5. x = r * (P * Q) + s
  <2>1. q * P = (r * Q + (q % Q)) * P
    BY <1>2
  <2>2. (r * Q + (q % Q)) * P = r * (P * Q) + (q % Q) * P
    BY <1>2
  <2>3. r * (P * Q) \in Nat /\ (q % Q) * P \in Nat
    BY <1>2, <1>3
  <2>. QED  BY <1>1, <2>1, <2>2, <2>3
<1>. HIDE DEF s
<1>6. (r * (P * Q) + s) \div (P * Q) = r
  BY <1>2, <1>3, <1>4, DivOfMultiple
<1>. QED  BY <1>5, <1>6 DEF q, r

\* Shifting twice.
LEMMA ShiftTwice ==
  ASSUME NEW x \in Nat, NEW m \in Nat, NEW n \in Nat
  PROVE  x \div 2 ^ (m + n) = (x \div 2 ^ m) \div 2 ^ n
<1>1. 2 ^ m \in Nat \ {0} /\ 2 ^ n \in Nat \ {0} /\ 2 ^ (m + n) = 2 ^ m * 2 ^ n
  BY PowerNat, PowerSum
<1>2. x \div (2 ^ m * 2 ^ n) = (x \div 2 ^ m) \div 2 ^ n
  BY <1>1, DivDiv, Zenon
<1>. QED  BY <1>1, <1>2, Zenon

\* Shifting gives a number.
LEMMA ShiftType ==
  ASSUME NEW x \in Nat, NEW n \in Nat
  PROVE  x \div 2 ^ n \in Nat
<1>1. 2 ^ n \in Nat \ {0}
  BY PowerNat
<1>2. \A P \in Nat \ {0} : x \div P \in Nat
  OBVIOUS
<1>. QED  BY <1>1, <1>2

-----------------------------------------------------------------------------
(* Sums *)

\* The sums of the first terms.
SumsTo(f, m, term) ==
  f = [i \in 0..m |-> IF i = 0 THEN 0 ELSE f[i - 1] + term[i]]

\* There are such sums, as far as wanted.
LEMMA SumExists ==
  ASSUME NEW term, NEW n \in Nat
  PROVE  \E f : SumsTo(f, n, term)
<1>. DEFINE S == {m \in Nat : \E f : SumsTo(f, m, term)}
            Sum(i, below) == below + term[i]
<1>1. 0 \in S
  <2>. DEFINE f == [i \in 0..0 |-> 0]
  <2>1. f = [i \in 0..0 |-> IF i = 0 THEN 0 ELSE Sum(i, f[i - 1])]
    OBVIOUS
  <2>. QED  BY <2>1 DEF SumsTo
<1>2. ASSUME NEW m \in Nat, m \in S PROVE m + 1 \in S
  <2>1. PICK f : SumsTo(f, m, term)
    BY <1>2
  <2>. DEFINE g == [i \in 0..(m + 1) |-> IF i = m + 1 THEN Sum(i, f[m]) ELSE f[i]]
  <2>. HIDE DEF Sum
  <2>2. ASSUME NEW i \in 0..(m + 1)
        PROVE  g[i] = IF i = 0 THEN 0 ELSE Sum(i, g[i - 1])
    <3>1. CASE i = m + 1
      BY <3>1
    <3>2. CASE i # m + 1
      <4>1. i \in 0..m /\ g[i] = f[i]
        BY <3>2
      <4>2. f[i] = IF i = 0 THEN 0 ELSE Sum(i, f[i - 1])
        BY <2>1, <4>1 DEF SumsTo, Sum
      <4>3. i # 0 => g[i - 1] = f[i - 1]
        BY <3>2
      <4>. QED  BY <4>1, <4>2, <4>3
    <3>. QED  BY <3>1, <3>2
  <2>3. SumsTo(g, m + 1, term)
    <3>1. g = [i \in 0..(m + 1) |-> g[i]]
      OBVIOUS
    <3>. HIDE DEF g
    <3>. QED  BY <2>2, <3>1 DEF SumsTo, Sum
  <2>. QED  BY <2>3
<1>3. Nat \subseteq S
  <2>. HIDE DEF S
  <2>. QED  BY <1>1, <1>2, Induction
<1>. QED  BY <1>3

-----------------------------------------------------------------------------
(* Trees *)

\* A level of a tree from the one below.
Level(seed, a, height, offset, h, below) ==
  [i \in 0..(2 ^ (height - h) - 1) |->
     Thash(seed, NodeAddr(a, h, i + (offset \div 2 ^ h)), << below[2 * i], below[2 * i + 1] >>)]

\* f holds the levels of a tree up to level m.
LevelsUpTo(f, m, seed, a, leaf, height, offset) ==
  f = [h \in 0..m |-> IF h = 0 THEN leaf ELSE Level(seed, a, height, offset, h, f[h - 1])]

\* A tree has its levels.
LEMMA LevelsExist ==
  ASSUME NEW seed, NEW a, NEW leaf, NEW height \in Nat, NEW offset
  PROVE  \E f : LevelsUpTo(f, height, seed, a, leaf, height, offset)
<1>. DEFINE S == {m \in Nat : \E f : LevelsUpTo(f, m, seed, a, leaf, height, offset)}
            Node(h, below) == Level(seed, a, height, offset, h, below)
<1>1. 0 \in S
  <2>. DEFINE f == [h \in 0..0 |-> leaf]
  <2>1. f = [h \in 0..0 |-> IF h = 0 THEN leaf ELSE Node(h, f[h - 1])]
    OBVIOUS
  <2>. QED  BY <2>1 DEF LevelsUpTo
<1>2. ASSUME NEW m \in Nat, m \in S PROVE m + 1 \in S
  <2>1. PICK f : LevelsUpTo(f, m, seed, a, leaf, height, offset)
    BY <1>2
  <2>. DEFINE g == [h \in 0..(m + 1) |-> IF h = m + 1 THEN Node(h, f[m]) ELSE f[h]]
  <2>. HIDE DEF Node
  <2>2. ASSUME NEW h \in 0..(m + 1)
        PROVE  g[h] = IF h = 0 THEN leaf ELSE Node(h, g[h - 1])
    <3>1. CASE h = m + 1
      BY <3>1
    <3>2. CASE h # m + 1
      <4>1. h \in 0..m /\ g[h] = f[h]
        BY <3>2
      <4>2. f[h] = IF h = 0 THEN leaf ELSE Node(h, f[h - 1])
        BY <2>1, <4>1 DEF LevelsUpTo, Node
      <4>3. h # 0 => g[h - 1] = f[h - 1]
        BY <3>2
      <4>. QED  BY <4>1, <4>2, <4>3
    <3>. QED  BY <3>1, <3>2
  <2>3. LevelsUpTo(g, m + 1, seed, a, leaf, height, offset)
    <3>1. g = [h \in 0..(m + 1) |-> g[h]]
      OBVIOUS
    <3>. HIDE DEF g
    <3>. QED  BY <2>2, <3>1 DEF LevelsUpTo, Node
  <2>. QED  BY <2>3
<1>3. Nat \subseteq S
  <2>. HIDE DEF S
  <2>. QED  BY <1>1, <1>2, Induction
<1>. QED  BY <1>3

\* TreeLevels satisfies its recursion.
LEMMA LevelsUnfold ==
  ASSUME NEW seed, NEW a, NEW leaf, NEW height \in Nat, NEW offset
  PROVE  LevelsUpTo(TreeLevels(seed, a, leaf, height, offset), height,
                    seed, a, leaf, height, offset)
<1>1. PICK f : LevelsUpTo(f, height, seed, a, leaf, height, offset)
  BY LevelsExist
<1>. QED  BY <1>1 DEF TreeLevels, LevelsUpTo, Level

\* A turn of the loop of compute_root.
Above(seed, a, leafIdx, offset, path, h, node) ==
  Thash(seed, NodeAddr(a, h, leafIdx \div 2 ^ h + offset \div 2 ^ h),
        Pair(leafIdx \div 2 ^ (h - 1), node, path[h - 1]))

\* f holds the nodes that compute_root makes up to level m.
ClimbsTo(f, m, seed, a, leaf, leafIdx, offset, path) ==
  f = [h \in 0..m |-> IF h = 0 THEN leaf ELSE Above(seed, a, leafIdx, offset, path, h, f[h - 1])]

\* The way up exists.
LEMMA ClimbExists ==
  ASSUME NEW seed, NEW a, NEW leaf, NEW leafIdx, NEW offset, NEW path, NEW height \in Nat
  PROVE  \E f : ClimbsTo(f, height, seed, a, leaf, leafIdx, offset, path)
<1>. DEFINE S == {m \in Nat : \E f : ClimbsTo(f, m, seed, a, leaf, leafIdx, offset, path)}
            Node(h, below) == Above(seed, a, leafIdx, offset, path, h, below)
<1>1. 0 \in S
  <2>. DEFINE f == [h \in 0..0 |-> leaf]
  <2>1. f = [h \in 0..0 |-> IF h = 0 THEN leaf ELSE Node(h, f[h - 1])]
    OBVIOUS
  <2>. QED  BY <2>1 DEF ClimbsTo
<1>2. ASSUME NEW m \in Nat, m \in S PROVE m + 1 \in S
  <2>1. PICK f : ClimbsTo(f, m, seed, a, leaf, leafIdx, offset, path)
    BY <1>2
  <2>. DEFINE g == [h \in 0..(m + 1) |-> IF h = m + 1 THEN Node(h, f[m]) ELSE f[h]]
  <2>. HIDE DEF Node
  <2>2. ASSUME NEW h \in 0..(m + 1)
        PROVE  g[h] = IF h = 0 THEN leaf ELSE Node(h, g[h - 1])
    <3>1. CASE h = m + 1
      BY <3>1
    <3>2. CASE h # m + 1
      <4>1. h \in 0..m /\ g[h] = f[h]
        BY <3>2
      <4>2. f[h] = IF h = 0 THEN leaf ELSE Node(h, f[h - 1])
        BY <2>1, <4>1 DEF ClimbsTo, Node
      <4>3. h # 0 => g[h - 1] = f[h - 1]
        BY <3>2
      <4>. QED  BY <4>1, <4>2, <4>3
    <3>. QED  BY <3>1, <3>2
  <2>3. ClimbsTo(g, m + 1, seed, a, leaf, leafIdx, offset, path)
    <3>1. g = [h \in 0..(m + 1) |-> g[h]]
      OBVIOUS
    <3>. HIDE DEF g
    <3>. QED  BY <2>2, <3>1 DEF ClimbsTo, Node
  <2>. QED  BY <2>3
<1>3. Nat \subseteq S
  <2>. HIDE DEF S
  <2>. QED  BY <1>1, <1>2, Induction
<1>. QED  BY <1>3

\* ComputeRoot is the last node of the way up.
LEMMA ClimbUnfold ==
  ASSUME NEW seed, NEW a, NEW leaf, NEW leafIdx, NEW offset, NEW path, NEW height \in Nat
  PROVE  \E f : /\ ClimbsTo(f, height, seed, a, leaf, leafIdx, offset, path)
                /\ ComputeRoot(seed, a, leaf, leafIdx, offset, path, height) = f[height]
<1>. DEFINE node[h \in 0..height] ==
              IF h = 0 THEN leaf
              ELSE Thash(seed, NodeAddr(a, h, leafIdx \div 2 ^ h + offset \div 2 ^ h),
                         Pair(leafIdx \div 2 ^ (h - 1), node[h - 1], path[h - 1]))
<1>1. PICK f : ClimbsTo(f, height, seed, a, leaf, leafIdx, offset, path)
  BY ClimbExists
<1>2. ClimbsTo(node, height, seed, a, leaf, leafIdx, offset, path)
  BY <1>1 DEF ClimbsTo, Above
<1>3. ComputeRoot(seed, a, leaf, leafIdx, offset, path, height) = node[height]
  BY DEF ComputeRoot
<1>. QED  BY <1>2, <1>3

\* The way up from a leaf: the ancestor of leaf idx on level h.
LEMMA Ancestor ==
  ASSUME NEW height \in Nat, NEW idx \in 0..(2 ^ height - 1), NEW h \in 0..height
  PROVE  idx \div 2 ^ h \in 0..(2 ^ (height - h) - 1)
<1>. DEFINE P == 2 ^ h
            Q == 2 ^ (height - h)
<1>1. P \in Nat \ {0} /\ Q \in Nat \ {0}
  BY PowerNat, height - h \in Nat
<1>2. 2 ^ height = P * Q
  <2>1. height = h + (height - h) /\ height - h \in Nat /\ h \in Nat
    OBVIOUS
  <2>2. 2 ^ (h + (height - h)) = 2 ^ h * 2 ^ (height - h)
    BY <2>1, PowerSum
  <2>. QED  BY <2>1, <2>2
<1>3. idx \in Nat /\ idx < P * Q
  BY <1>2, PowerNat
<1>. HIDE DEF P, Q
<1>4. idx \div P \in Nat /\ idx % P \in 0..(P - 1) /\ idx = (idx \div P) * P + (idx % P)
  BY <1>1, <1>3
<1>5. ASSUME idx \div P >= Q PROVE FALSE
  <2>1. (idx \div P) * P >= Q * P
    BY <1>1, <1>4, <1>5
  <2>. QED  BY <1>1, <1>3, <1>4, <2>1
<1>. QED  BY <1>1, <1>4, <1>5 DEF P, Q

\* The parent's index is half of the child's, rounded down.
LEMMA HalfWay ==
  ASSUME NEW x \in Nat, NEW h \in Nat
  PROVE  /\ x \div 2 ^ h \in Nat
         /\ x \div 2 ^ (h + 1) = (x \div 2 ^ h) \div 2
<1>1. 2 ^ 1 = 2 /\ 1 \in Nat
  OBVIOUS
<1>2. x \div 2 ^ (h + 1) = (x \div 2 ^ h) \div 2 ^ 1
  BY <1>1, ShiftTwice, Zenon
<1>. QED  BY <1>1, <1>2, ShiftType, Zenon

\* Node i of level h is the hash of its two children.
IsNode(levels, seed, a, offset, h, i) ==
  levels[h][i] = Thash(seed, NodeAddr(a, h, i + (offset \div 2 ^ h)),
                       << levels[h - 1][2 * i], levels[h - 1][2 * i + 1] >>)

\* Every node of TreeLevels above the leaves is.
LEMMA TreeNode ==
  ASSUME NEW seed, NEW a, NEW leaf, NEW height \in Nat, NEW offset,
         NEW h \in 1..height, NEW i \in 0..(2 ^ (height - h) - 1)
  PROVE  IsNode(TreeLevels(seed, a, leaf, height, offset), seed, a, offset, h, i)
<1>. DEFINE levels == TreeLevels(seed, a, leaf, height, offset)
<1>1. LevelsUpTo(levels, height, seed, a, leaf, height, offset)
  BY LevelsUnfold
<1>. HIDE DEF levels
<1>2. levels[h] = Level(seed, a, height, offset, h, levels[h - 1])
  BY <1>1 DEF LevelsUpTo
<1>3. levels[h][i] = Thash(seed, NodeAddr(a, h, i + (offset \div 2 ^ h)),
                           << levels[h - 1][2 * i], levels[h - 1][2 * i + 1] >>)
  BY <1>2 DEF Level
<1>. QED  BY <1>3 DEF levels, IsNode

\* Its lowest level is the leaves.
LEMMA TreeLeaves ==
  ASSUME NEW seed, NEW a, NEW leaf, NEW height \in Nat, NEW offset
  PROVE  TreeLevels(seed, a, leaf, height, offset)[0] = leaf
  BY LevelsUnfold DEF LevelsUpTo

\* The address a tree is given matters by its node addresses only.
LEMMA SameTree ==
  ASSUME NEW seed, NEW a, NEW b, NEW leaf, NEW height \in Nat, NEW offset,
         \A h, i : NodeAddr(a, h, i) = NodeAddr(b, h, i)
  PROVE  TreeRoot(TreeLevels(seed, a, leaf, height, offset), height) =
         TreeRoot(TreeLevels(seed, b, leaf, height, offset), height)
<1>. DEFINE f == TreeLevels(seed, a, leaf, height, offset)
            g == TreeLevels(seed, b, leaf, height, offset)
            S == {h \in Nat : h <= height => f[h] = g[h]}
<1>1. /\ LevelsUpTo(f, height, seed, a, leaf, height, offset)
      /\ LevelsUpTo(g, height, seed, b, leaf, height, offset)
  BY LevelsUnfold
<1>2. f[0] = g[0]
  BY TreeLeaves
<1>. HIDE DEF f, g
<1>3. 0 \in S
  BY <1>2
<1>4. ASSUME NEW n \in Nat, n \in S PROVE n + 1 \in S
  <2>. SUFFICES ASSUME n + 1 <= height PROVE f[n + 1] = g[n + 1]
    OBVIOUS
  <2>1. f[n] = g[n] /\ n + 1 \in 0..height /\ n + 1 # 0 /\ (n + 1) - 1 = n
    BY <1>4
  <2>2. /\ f[n + 1] = Level(seed, a, height, offset, n + 1, f[n])
        /\ g[n + 1] = Level(seed, b, height, offset, n + 1, g[n])
    BY <1>1, <2>1 DEF LevelsUpTo
  <2>3. Level(seed, a, height, offset, n + 1, f[n]) = Level(seed, b, height, offset, n + 1, f[n])
    BY DEF Level
  <2>. QED  BY <2>1, <2>2, <2>3
<1>5. Nat \subseteq S
  <2>. HIDE DEF S
  <2>. QED  BY <1>3, <1>4, Induction
<1>6. f[height] = g[height]
  BY <1>5
<1>. QED  BY <1>6 DEF TreeRoot, f, g

\* Every node is hashed with the seed of the tree.
LEMMA NodesOfSeed ==
  ASSUME NEW seed, NEW a, NEW leaf, NEW height \in Nat, NEW offset,
         \A j \in 0..(2 ^ height - 1) : leaf[j].seed = seed,
         NEW h \in 0..height, NEW i \in 0..(2 ^ (height - h) - 1)
  PROVE  TreeLevels(seed, a, leaf, height, offset)[h][i].seed = seed
<1>1. CASE h = 0
  <2>1. height - h = height
    BY <1>1
  <2>2. i \in 0..(2 ^ height - 1)
    BY <2>1, Zenon
  <2>. QED  BY <1>1, <2>2, TreeLeaves
<1>2. CASE h # 0
  <2>1. h \in 1..height
    BY <1>2
  <2>2. IsNode(TreeLevels(seed, a, leaf, height, offset), seed, a, offset, h, i)
    BY <2>1, TreeNode
  <2>. QED  BY <2>2 DEF IsNode, Thash
<1>. QED  BY <1>1, <1>2

\* The root has two children.
LEMMA RootOfTree ==
  ASSUME NEW seed, NEW a, NEW leaf, NEW height \in Nat \ {0}, NEW offset
  PROVE  LET levels == TreeLevels(seed, a, leaf, height, offset)
         IN  TreeRoot(levels, height).in = << levels[height - 1][0], levels[height - 1][1] >>
<1>. DEFINE levels == TreeLevels(seed, a, leaf, height, offset)
<1>1. height \in Nat /\ height \in 1..height /\ 0 \in 0..0 /\ 2 * 0 = 0 /\ 2 * 0 + 1 = 1
  OBVIOUS
<1>2. 0..(2 ^ (height - height) - 1) = 0..0
  <2>1. height - height = 0 /\ 2 ^ 0 = 1 /\ 1 - 1 = 0
    OBVIOUS
  <2>. QED  BY <2>1, Zenon
<1>3. IsNode(levels, seed, a, offset, height, 0)
  BY <1>1, <1>2, TreeNode
<1>. HIDE DEF levels
<1>4. TreeRoot(levels, height).in = << levels[height - 1][0], levels[height - 1][1] >>
  BY <1>1, <1>3 DEF IsNode, TreeRoot, Thash
<1>. QED  BY <1>4 DEF levels

\* The verifier's root has the last node of the path for a child.
LEMMA RootOfPath ==
  ASSUME NEW seed, NEW a, NEW leaf, NEW leafIdx, NEW offset, NEW path,
         NEW height \in Nat \ {0}
  PROVE  \E x \in 1..2 :
           ComputeRoot(seed, a, leaf, leafIdx, offset, path, height).in[x] = path[height - 1]
<1>1. PICK f : /\ ClimbsTo(f, height, seed, a, leaf, leafIdx, offset, path)
               /\ ComputeRoot(seed, a, leaf, leafIdx, offset, path, height) = f[height]
  BY ClimbUnfold, height \in Nat
<1>2. f[height] = Above(seed, a, leafIdx, offset, path, height, f[height - 1])
  BY <1>1 DEF ClimbsTo
<1>3. f[height].in = Pair(leafIdx \div 2 ^ (height - 1), f[height - 1], path[height - 1])
  BY <1>2 DEF Above, Thash
<1>4. \A i, node, other : \E x \in 1..2 : Pair(i, node, other)[x] = other
  <2>1. SUFFICES ASSUME NEW i, NEW node, NEW other
                 PROVE  Pair(i, node, other)[1] = other \/ Pair(i, node, other)[2] = other
    OBVIOUS
  <2>2. CASE i % 2 = 1
    BY <2>2 DEF Pair
  <2>3. CASE i % 2 # 1
    BY <2>3 DEF Pair
  <2>. QED  BY <2>2, <2>3
<1>. QED  BY <1>1, <1>3, <1>4

\* A node with its sibling, in their order, are the children of their parent.
LEMMA PairOfSiblings ==
  ASSUME NEW f, NEW j \in Nat
  PROVE  Pair(j, f[j], f[Sibling(j)]) = << f[2 * (j \div 2)], f[2 * (j \div 2) + 1] >>
<1>1. CASE j % 2 = 1
  <2>1. 2 * (j \div 2) = j - 1 /\ 2 * (j \div 2) + 1 = j /\ Sibling(j) = j - 1
    BY <1>1 DEF Sibling
  <2>. QED  BY <1>1, <2>1 DEF Pair
<1>2. CASE j % 2 = 0
  <2>1. 2 * (j \div 2) = j /\ Sibling(j) = j + 1
    BY <1>2 DEF Sibling
  <2>. QED  BY <1>2, <2>1 DEF Pair
<1>. QED  BY <1>1, <1>2

\* The path of a leaf leads to the root, in every tree.
LEMMA PathLeadsToRoot ==
  ASSUME NEW seed, NEW a, NEW leaf, NEW height \in Nat, NEW offset,
         NEW idx \in 0..(2 ^ height - 1), NEW path,
         \A h \in 0..(height - 1) :
           path[h] = TreeLevels(seed, a, leaf, height, offset)[h][Sibling(idx \div 2 ^ h)]
  PROVE  ComputeRoot(seed, a, leaf[idx], idx, offset, path, height) =
         TreeRoot(TreeLevels(seed, a, leaf, height, offset), height)
<1>. DEFINE levels == TreeLevels(seed, a, leaf, height, offset)
<1>1. PICK f : /\ ClimbsTo(f, height, seed, a, leaf[idx], idx, offset, path)
               /\ ComputeRoot(seed, a, leaf[idx], idx, offset, path, height) = f[height]
  BY ClimbUnfold
<1>. DEFINE S == {h \in Nat : h <= height => f[h] = levels[h][idx \div 2 ^ h]}
<1>2. idx \in Nat
  BY PowerNat
<1>3. 0 \in S
  <2>1. f[0] = leaf[idx]
    BY <1>1 DEF ClimbsTo
  <2>2. 2 ^ 0 = 1 /\ idx \div 1 = idx
    BY <1>2
  <2>. QED  BY <2>1, <2>2, TreeLeaves
<1>4. ASSUME NEW n \in Nat, n \in S PROVE n + 1 \in S
  <2>. SUFFICES ASSUME n + 1 <= height PROVE f[n + 1] = levels[n + 1][idx \div 2 ^ (n + 1)]
    OBVIOUS
  <2>. DEFINE j == idx \div 2 ^ n
  <2>1. j \in Nat /\ idx \div 2 ^ (n + 1) = j \div 2
    BY <1>2, HalfWay
  <2>2. f[n] = levels[n][j] /\ path[n] = levels[n][Sibling(j)]
    BY <1>4
  <2>3. f[n + 1] = Thash(seed, NodeAddr(a, n + 1, (j \div 2) + offset \div 2 ^ (n + 1)),
                         Pair(j, f[n], path[n]))
    <3>1. n + 1 \in 0..height /\ n + 1 # 0 /\ (n + 1) - 1 = n
      OBVIOUS
    <3>2. f[n + 1] = Above(seed, a, idx, offset, path, n + 1, f[n])
      BY <1>1, <3>1 DEF ClimbsTo
    <3>. QED  BY <2>1, <3>1, <3>2 DEF Above
  <2>4. j \div 2 \in 0..(2 ^ (height - (n + 1)) - 1)
    BY <2>1, Ancestor, n + 1 \in 0..height
  <2>5. levels[n + 1][j \div 2] =
          Thash(seed, NodeAddr(a, n + 1, (j \div 2) + offset \div 2 ^ (n + 1)),
                << levels[n][2 * (j \div 2)], levels[n][2 * (j \div 2) + 1] >>)
    <3>1. n + 1 \in 1..height /\ (n + 1) - 1 = n
      OBVIOUS
    <3>. HIDE DEF j
    <3>2. IsNode(levels, seed, a, offset, n + 1, j \div 2)
      BY <2>4, <3>1, TreeNode, Zenon
    <3>. QED  BY <3>1, <3>2 DEF IsNode
  <2>6. Pair(j, f[n], path[n]) = << levels[n][2 * (j \div 2)], levels[n][2 * (j \div 2) + 1] >>
    BY <2>1, <2>2, PairOfSiblings
  <2>. HIDE DEF j, levels
  <2>. QED  BY <2>1, <2>3, <2>5, <2>6
<1>5. Nat \subseteq S
  <2>. HIDE DEF S
  <2>. QED  BY <1>3, <1>4, Induction
<1>6. f[height] = levels[height][idx \div 2 ^ height]
  BY <1>5
<1>7. idx \div 2 ^ height = 0
  <2>1. 2 ^ (height - height) = 1 /\ height \in 0..height
    BY height - height = 0
  <2>2. idx \div 2 ^ height \in 0..(2 ^ (height - height) - 1)
    BY <2>1, Ancestor
  <2>. QED  BY <2>1, <2>2
<1>. QED  BY <1>1, <1>6, <1>7 DEF TreeRoot

-----------------------------------------------------------------------------
(* Chains *)

\* A step of a chain.
Link(seed, a, start, k, value) == Thash(seed, SetHash(a, start + k - 1), << value >>)

\* f holds the values of a chain, m steps far.
ChainsTo(f, m, seed, a, in, start) ==
  f = [k \in 0..m |-> IF k = 0 THEN in ELSE Link(seed, a, start, k, f[k - 1])]

\* A chain goes on as far as wanted.
LEMMA ChainExists ==
  ASSUME NEW seed, NEW a, NEW in, NEW start, NEW n \in Nat
  PROVE  \E f : ChainsTo(f, n, seed, a, in, start)
<1>. DEFINE S == {m \in Nat : \E f : ChainsTo(f, m, seed, a, in, start)}
            Value(k, below) == Link(seed, a, start, k, below)
<1>1. 0 \in S
  <2>. DEFINE f == [k \in 0..0 |-> in]
  <2>1. f = [k \in 0..0 |-> IF k = 0 THEN in ELSE Value(k, f[k - 1])]
    OBVIOUS
  <2>. QED  BY <2>1 DEF ChainsTo
<1>2. ASSUME NEW m \in Nat, m \in S PROVE m + 1 \in S
  <2>1. PICK f : ChainsTo(f, m, seed, a, in, start)
    BY <1>2
  <2>. DEFINE g == [k \in 0..(m + 1) |-> IF k = m + 1 THEN Value(k, f[m]) ELSE f[k]]
  <2>. HIDE DEF Value
  <2>2. ASSUME NEW k \in 0..(m + 1)
        PROVE  g[k] = IF k = 0 THEN in ELSE Value(k, g[k - 1])
    <3>1. CASE k = m + 1
      BY <3>1
    <3>2. CASE k # m + 1
      <4>1. k \in 0..m /\ g[k] = f[k]
        BY <3>2
      <4>2. f[k] = IF k = 0 THEN in ELSE Value(k, f[k - 1])
        BY <2>1, <4>1 DEF ChainsTo, Value
      <4>3. k # 0 => g[k - 1] = f[k - 1]
        BY <3>2
      <4>. QED  BY <4>1, <4>2, <4>3
    <3>. QED  BY <3>1, <3>2
  <2>3. ChainsTo(g, m + 1, seed, a, in, start)
    <3>1. g = [k \in 0..(m + 1) |-> g[k]]
      OBVIOUS
    <3>. HIDE DEF g
    <3>. QED  BY <2>2, <3>1 DEF ChainsTo, Value
  <2>. QED  BY <2>3
<1>3. Nat \subseteq S
  <2>. HIDE DEF S
  <2>. QED  BY <1>1, <1>2, Induction
<1>. QED  BY <1>3

\* A digit has at least two values.
LEMMA WType == W \in Nat /\ W >= 2
<1>1. LogW - 1 \in Nat /\ LogW = (LogW - 1) + 1
  BY WotsAssumption
<1>2. 2 ^ (LogW - 1) \in Nat \ {0} /\ 2 ^ ((LogW - 1) + 1) = 2 * 2 ^ (LogW - 1)
  BY <1>1, PowerNat, Doubles
<1>. QED  BY <1>1, <1>2 DEF W

\* GenChain returns the value after its steps, inside the chain.
LEMMA ChainUnfold ==
  ASSUME NEW seed, NEW a, NEW in, NEW start \in Nat, NEW steps \in Nat, start + steps <= W
  PROVE  \E f : /\ ChainsTo(f, steps, seed, a, in, start)
                /\ GenChain(seed, a, in, start, steps) = f[steps]
<1>. DEFINE n == IF start + steps <= W THEN steps ELSE W - start
            value[k \in 0..n] ==
              IF k = 0 THEN in
              ELSE Thash(seed, SetHash(a, start + k - 1), << value[k - 1] >>)
<1>1. n = steps
  OBVIOUS
<1>2. PICK f : ChainsTo(f, n, seed, a, in, start)
  BY <1>1, ChainExists
<1>3. ChainsTo(value, n, seed, a, in, start)
  BY <1>2 DEF ChainsTo, Link
<1>4. GenChain(seed, a, in, start, steps) = value[n]
  BY DEF GenChain
<1>. HIDE DEF value, n
<1>. QED  BY <1>1, <1>3, <1>4

\* A chain of no steps is its start.
LEMMA ChainFirst ==
  ASSUME NEW seed, NEW a, NEW in
  PROVE  GenChain(seed, a, in, 0, 0) = in
<1>1. 0 + 0 <= W /\ 0 \in Nat
  BY WType
<1>2. PICK f : ChainsTo(f, 0, seed, a, in, 0) /\ GenChain(seed, a, in, 0, 0) = f[0]
  BY <1>1, ChainUnfold
<1>. QED  BY <1>2 DEF ChainsTo

\* Each step of a chain hashes the value before it.
LEMMA ChainStep ==
  ASSUME NEW seed, NEW a, NEW in, NEW n \in Nat, n + 1 <= W
  PROVE  GenChain(seed, a, in, 0, n + 1) =
           Thash(seed, SetHash(a, n), << GenChain(seed, a, in, 0, n) >>)
<1>1. W \in Nat /\ 0 + n <= W /\ 0 + (n + 1) <= W /\ n + 1 \in Nat
  BY WType
<1>3. PICK f : ChainsTo(f, n, seed, a, in, 0) /\ GenChain(seed, a, in, 0, n) = f[n]
  BY <1>1, ChainUnfold, 0 \in Nat
<1>4. PICK g : ChainsTo(g, n + 1, seed, a, in, 0) /\ GenChain(seed, a, in, 0, n + 1) = g[n + 1]
  BY <1>1, ChainUnfold, 0 \in Nat
<1>5. f[n] = g[n]
  <2>. DEFINE S == {j \in Nat : j <= n => f[j] = g[j]}
  <2>1. 0 \in S
    BY <1>3, <1>4 DEF ChainsTo
  <2>2. ASSUME NEW j \in Nat, j \in S PROVE j + 1 \in S
    <3>. SUFFICES ASSUME j + 1 <= n PROVE f[j + 1] = g[j + 1]
      OBVIOUS
    <3>1. f[j] = g[j] /\ j + 1 # 0 /\ (j + 1) - 1 = j /\ j + 1 \in 0..n /\ j + 1 \in 0..(n + 1)
      BY <2>2
    <3>2. f[j + 1] = Link(seed, a, 0, j + 1, f[j])
      BY <1>3, <3>1 DEF ChainsTo
    <3>3. g[j + 1] = Link(seed, a, 0, j + 1, g[j])
      BY <1>4, <3>1 DEF ChainsTo
    <3>. QED  BY <3>1, <3>2, <3>3
  <2>. HIDE DEF S
  <2>3. Nat \subseteq S
    BY <2>1, <2>2, Induction
  <2>. QED  BY <2>3 DEF S
<1>6. g[n + 1] = Link(seed, a, 0, n + 1, g[n])
  <2>1. n + 1 \in 0..(n + 1) /\ n + 1 # 0 /\ (n + 1) - 1 = n
    OBVIOUS
  <2>. QED  BY <1>4, <2>1 DEF ChainsTo
<1>7. 0 + (n + 1) - 1 = n
  OBVIOUS
<1>. QED  BY <1>3, <1>4, <1>5, <1>6, <1>7 DEF Link

\* Two parts of a chain, made under addresses that agree but for the hash
\* address, make the whole chain.
LEMMA ChainsJoin ==
  ASSUME NEW seed, NEW a, NEW b, NEW in, NEW s \in 0..(W - 1),
         \A k \in Nat : SetHash(b, k) = SetHash(a, k)
  PROVE  GenChain(seed, b, GenChain(seed, a, in, 0, s), s, W - 1 - s) =
         GenChain(seed, a, in, 0, W - 1)
<1>1. W \in Nat /\ W >= 2 /\ s \in Nat /\ W - 1 - s \in Nat /\ W - 1 \in Nat
  BY WType
<1>2. PICK whole : /\ ChainsTo(whole, W - 1, seed, a, in, 0)
                   /\ GenChain(seed, a, in, 0, W - 1) = whole[W - 1]
  BY <1>1, ChainUnfold
<1>3. PICK first : /\ ChainsTo(first, s, seed, a, in, 0)
                   /\ GenChain(seed, a, in, 0, s) = first[s]
  BY <1>1, ChainUnfold
<1>4. PICK second : /\ ChainsTo(second, W - 1 - s, seed, b, first[s], s)
                    /\ GenChain(seed, b, first[s], s, W - 1 - s) = second[W - 1 - s]
  BY <1>1, ChainUnfold
<1>5. \A k \in Nat : k <= s => first[k] = whole[k]
  <2>. DEFINE S == {k \in Nat : k <= s => first[k] = whole[k]}
  <2>1. 0 \in S
    BY <1>1, <1>2, <1>3 DEF ChainsTo
  <2>2. ASSUME NEW k \in Nat, k \in S PROVE k + 1 \in S
    <3>. SUFFICES ASSUME k + 1 <= s PROVE first[k + 1] = whole[k + 1]
      OBVIOUS
    <3>1. first[k] = whole[k] /\ k + 1 # 0 /\ (k + 1) - 1 = k
      BY <1>1, <2>2
    <3>2. first[k + 1] = Link(seed, a, 0, k + 1, first[k])
      BY <1>1, <1>3, <3>1 DEF ChainsTo
    <3>3. whole[k + 1] = Link(seed, a, 0, k + 1, whole[k])
      BY <1>1, <1>2, <3>1 DEF ChainsTo
    <3>. QED  BY <3>1, <3>2, <3>3
  <2>. HIDE DEF S
  <2>3. Nat \subseteq S
    BY <2>1, <2>2, Induction
  <2>. QED  BY <2>3 DEF S
<1>6. \A k \in Nat : k <= W - 1 - s => second[k] = whole[s + k]
  <2>. DEFINE S == {k \in Nat : k <= W - 1 - s => second[k] = whole[s + k]}
  <2>1. 0 \in S
    BY <1>1, <1>4, <1>5 DEF ChainsTo
  <2>2. ASSUME NEW k \in Nat, k \in S PROVE k + 1 \in S
    <3>. SUFFICES ASSUME k + 1 <= W - 1 - s PROVE second[k + 1] = whole[s + (k + 1)]
      OBVIOUS
    <3>1. /\ second[k] = whole[s + k] /\ k + 1 # 0 /\ (k + 1) - 1 = k
          /\ s + (k + 1) \in 0..(W - 1) /\ s + (k + 1) # 0 /\ (s + (k + 1)) - 1 = s + k
      BY <1>1, <2>2
    <3>2. second[k + 1] = Link(seed, b, s, k + 1, second[k])
      BY <1>1, <1>4, <3>1 DEF ChainsTo
    <3>3. whole[s + (k + 1)] = Link(seed, a, 0, s + (k + 1), whole[s + k])
      BY <1>2, <3>1 DEF ChainsTo
    <3>4. Link(seed, b, s, k + 1, second[k]) = Link(seed, a, 0, s + (k + 1), whole[s + k])
      <4>1. s + (k + 1) - 1 = s + k /\ 0 + (s + (k + 1)) - 1 = s + k /\ s + k \in Nat
        BY <1>1
      <4>2. SetHash(b, s + k) = SetHash(a, s + k)
        BY <4>1
      <4>. QED  BY <3>1, <4>1, <4>2 DEF Link
    <3>. QED  BY <3>2, <3>3, <3>4
  <2>. HIDE DEF S
  <2>3. Nat \subseteq S
    BY <2>1, <2>2, Induction
  <2>. QED  BY <2>3 DEF S
<1>7. second[W - 1 - s] = whole[W - 1]
  <2>1. s + (W - 1 - s) = W - 1
    BY <1>1
  <2>. QED  BY <1>1, <1>6, <2>1
<1>. QED  BY <1>2, <1>3, <1>4, <1>7

-----------------------------------------------------------------------------
(* Digits *)

\* The digits of the message are in its bytes.
LEMMA Len1Type == Len1 \in Nat /\ Len1 * LogW <= ByteBits * N
<1>1. LogW \in Nat \ {0} /\ ByteBits * N \in Nat
  BY WotsAssumption
<1>2. \A p \in Nat : p \div LogW \in Nat /\ (p \div LogW) * LogW <= p
  BY <1>1
<1>. QED  BY <1>1, <1>2 DEF Len1

\* The checksum is the last of its partial sums.
LEMMA ChecksumUnfold ==
  ASSUME NEW digits
  PROVE  \E f : /\ f[0] = 0
                /\ \A i \in 0..(Len1 - 1) : f[i + 1] = f[i] + (W - 1 - digits[i])
                /\ Checksum(digits) = f[Len1]
<1>. DEFINE csum[i \in 0..Len1] ==
              IF i = 0 THEN 0 ELSE csum[i - 1] + (W - 1 - digits[i - 1])
            term == [i \in 1..Len1 |-> W - 1 - digits[i - 1]]
<1>1. PICK f : SumsTo(f, Len1, term)
  BY Len1Type, SumExists
<1>2. SumsTo(csum, Len1, term)
  <2>1. \A i \in 0..Len1 : i # 0 => term[i] = W - 1 - digits[i - 1]
    BY Len1Type
  <2>. HIDE DEF term
  <2>2. f = [i \in 0..Len1 |-> IF i = 0 THEN 0 ELSE f[i - 1] + (W - 1 - digits[i - 1])]
    BY <1>1, <2>1 DEF SumsTo
  <2>3. csum = [i \in 0..Len1 |-> IF i = 0 THEN 0 ELSE csum[i - 1] + (W - 1 - digits[i - 1])]
    BY <2>2
  <2>. HIDE DEF csum
  <2>. QED  BY <2>1, <2>3 DEF SumsTo
<1>3. Checksum(digits) = csum[Len1]
  BY DEF Checksum
<1>. HIDE DEF csum, term
<1>4. csum[0] = 0
  BY <1>2, Len1Type DEF SumsTo
<1>5. ASSUME NEW i \in 0..(Len1 - 1) PROVE csum[i + 1] = csum[i] + (W - 1 - digits[i])
  <2>1. i + 1 \in 0..Len1 /\ i + 1 \in 1..Len1 /\ i + 1 # 0 /\ (i + 1) - 1 = i
    BY Len1Type
  <2>2. csum[i + 1] = csum[i] + term[i + 1]
    BY <1>2, <2>1 DEF SumsTo
  <2>3. term[i + 1] = W - 1 - digits[i]
    BY <2>1 DEF term
  <2>. QED  BY <2>2, <2>3
<1>. QED  BY <1>3, <1>4, <1>5

\* The checksum of digits below W is at most that of all zeros.
LEMMA ChecksumType ==
  ASSUME NEW digits, \A i \in 0..(Len1 - 1) : digits[i] \in 0..(W - 1)
  PROVE  Checksum(digits) \in Nat /\ Checksum(digits) <= Len1 * (W - 1)
<1>1. PICK f : /\ f[0] = 0
               /\ \A i \in 0..(Len1 - 1) : f[i + 1] = f[i] + (W - 1 - digits[i])
               /\ Checksum(digits) = f[Len1]
  BY ChecksumUnfold
<1>. DEFINE S == {i \in Nat : i <= Len1 => f[i] \in Nat /\ f[i] <= i * (W - 1)}
<1>2. 0 \in S
  BY <1>1, WType
<1>3. ASSUME NEW i \in Nat, i \in S PROVE i + 1 \in S
  <2>. SUFFICES ASSUME i + 1 <= Len1 PROVE f[i + 1] \in Nat /\ f[i + 1] <= (i + 1) * (W - 1)
    OBVIOUS
  <2>1. f[i] \in Nat /\ f[i] <= i * (W - 1) /\ i \in 0..(Len1 - 1)
    BY <1>3, Len1Type
  <2>2. f[i + 1] = f[i] + (W - 1 - digits[i]) /\ digits[i] \in 0..(W - 1)
    BY <1>1, <2>1
  <2>3. (i + 1) * (W - 1) = i * (W - 1) + (W - 1) /\ i * (W - 1) \in Nat
    BY WType
  <2>. QED  BY <2>1, <2>2, <2>3, WType
<1>4. Nat \subseteq S
  <2>. HIDE DEF S
  <2>. QED  BY <1>2, <1>3, Induction
<1>. QED  BY <1>1, <1>4, Len1Type

\* Of digits at or above others, and not all the same, the checksum is less.
LEMMA ChecksumLess ==
  ASSUME NEW c, NEW d,
         \A i \in 0..(Len1 - 1) : c[i] \in 0..(W - 1) /\ d[i] \in 0..(W - 1) /\ c[i] >= d[i],
         NEW j \in 0..(Len1 - 1), c[j] # d[j]
  PROVE  Checksum(c) < Checksum(d)
<1>1. PICK f : /\ f[0] = 0
               /\ \A i \in 0..(Len1 - 1) : f[i + 1] = f[i] + (W - 1 - c[i])
               /\ Checksum(c) = f[Len1]
  BY ChecksumUnfold
<1>2. PICK g : /\ g[0] = 0
               /\ \A i \in 0..(Len1 - 1) : g[i + 1] = g[i] + (W - 1 - d[i])
               /\ Checksum(d) = g[Len1]
  BY ChecksumUnfold
<1>. DEFINE Below(i) == /\ f[i] \in Nat /\ g[i] \in Nat /\ f[i] <= g[i]
                        /\ j < i => f[i] < g[i]
            S == {i \in Nat : i <= Len1 => Below(i)}
<1>3. 0 \in S
  BY <1>1, <1>2
<1>4. ASSUME NEW i \in Nat, i \in S PROVE i + 1 \in S
  <2>. SUFFICES ASSUME i + 1 <= Len1 PROVE Below(i + 1)
    OBVIOUS
  <2>1. i \in 0..(Len1 - 1) /\ Below(i)
    BY <1>4, Len1Type
  <2>. HIDE DEF Below
  <2>2. f[i + 1] = f[i] + (W - 1 - c[i]) /\ g[i + 1] = g[i] + (W - 1 - d[i])
    BY <1>1, <1>2, <2>1
  <2>3. c[i] \in 0..(W - 1) /\ d[i] \in 0..(W - 1) /\ c[i] >= d[i] /\ (i = j => c[i] # d[i])
    BY <2>1
  <2>. QED  BY <2>1, <2>2, <2>3, WType DEF Below
<1>5. Nat \subseteq S
  <2>. HIDE DEF S
  <2>. QED  BY <1>3, <1>4, Induction
<1>6. Below(Len1)
  BY <1>5, Len1Type
<1>. QED  BY <1>1, <1>2, <1>6, Len1Type

\* The bits of a digit lie in one byte.
LEMMA DigitInByte ==
  ASSUME NEW i \in Nat
  PROVE  (i * LogW) % ByteBits \in 0..(ByteBits - LogW)
<1>. DEFINE c == ByteBits \div LogW
            bit == i * LogW
            q == bit \div ByteBits
<1>1. LogW \in Nat \ {0} /\ ByteBits \in Nat \ {0} /\ ByteBits % LogW = 0
  BY WotsAssumption
<1>2. c \in Nat /\ ByteBits = c * LogW
  BY <1>1
<1>3. bit \in Nat
  BY <1>1
<1>. HIDE DEF c
<1>4. q \in Nat /\ bit % ByteBits \in 0..(ByteBits - 1) /\ bit = q * ByteBits + (bit % ByteBits)
  <2>. HIDE DEF bit
  <2>. QED  BY <1>1, <1>3
<1>. HIDE DEF q
<1>5. bit % ByteBits = (i - c * q) * LogW
  <2>1. q * ByteBits = (c * q) * LogW
    BY <1>1, <1>2, <1>4
  <2>2. (i - c * q) * LogW = i * LogW - (c * q) * LogW
    BY <1>1, <1>2, <1>4
  <2>3. (c * q) * LogW \in Int
    BY <1>1, <1>2, <1>4
  <2>. QED  BY <1>3, <1>4, <2>1, <2>2, <2>3
<1>. DEFINE d == i - c * q
<1>6. d \in Int
  BY <1>2, <1>4
<1>. HIDE DEF d, bit
<1>7. bit % ByteBits = d * LogW
  BY <1>5 DEF d
<1>8. d <= c - 1
  <2>1. ASSUME d >= c PROVE FALSE
    <3>1. d * LogW >= c * LogW
      BY <1>1, <1>2, <1>6, <2>1
    <3>. QED  BY <1>1, <1>2, <1>4, <1>7, <3>1
  <2>. QED  BY <1>2, <1>6, <2>1
<1>9. d * LogW <= (c - 1) * LogW
  BY <1>1, <1>2, <1>6, <1>8
<1>10. (c - 1) * LogW = ByteBits - LogW
  BY <1>1, <1>2
<1>. QED  BY <1>1, <1>4, <1>7, <1>9, <1>10 DEF bit

\* The digits of bytes are below W.
LEMMA BaseWType ==
  ASSUME NEW outLen \in Nat, NEW bytes \in Nat, NEW input,
         outLen * LogW <= bytes * ByteBits,
         \A b \in 0..(bytes - 1) : input[b] \in Nat,
         NEW i \in 0..(outLen - 1)
  PROVE  BaseW(outLen, input)[i] \in 0..(W - 1)
<1>. DEFINE bit == i * LogW
            b   == bit \div ByteBits
            e   == ByteBits - LogW - (bit % ByteBits)
<1>1. LogW \in Nat \ {0} /\ ByteBits \in Nat \ {0}
  BY WotsAssumption
<1>2. BaseW(outLen, input)[i] = (input[b] \div 2 ^ e) % W
  BY DEF BaseW
<1>3. bit \in Nat /\ bit < bytes * ByteBits
  <2>1. bit \in Nat /\ (i + 1) * LogW <= outLen * LogW
    BY <1>1
  <2>2. (i + 1) * LogW = bit + LogW
    BY <1>1
  <2>3. bytes * ByteBits \in Nat /\ outLen * LogW \in Nat
    BY <1>1
  <2>. HIDE DEF bit
  <2>. QED  BY <1>1, <2>1, <2>2, <2>3
<1>4. e \in Nat
  <2>1. bit % ByteBits \in 0..(ByteBits - LogW)
    BY DigitInByte
  <2>. HIDE DEF bit
  <2>. QED  BY <1>1, <2>1
<1>. HIDE DEF e, bit
<1>5. b \in 0..(bytes - 1)
  <2>1. b \in Nat /\ b * ByteBits <= bit
    BY <1>1, <1>3
  <2>2. ASSUME b >= bytes PROVE FALSE
    <3>. HIDE DEF b
    <3>1. b * ByteBits >= bytes * ByteBits
      BY <1>1, <2>1, <2>2
    <3>. QED  BY <1>1, <1>3, <2>1, <3>1
  <2>. QED  BY <2>1, <2>2
<1>. HIDE DEF b
<1>6. input[b] \div 2 ^ e \in Nat
  <2>1. input[b] \in Nat /\ 2 ^ e \in Nat \ {0}
    BY <1>4, <1>5, PowerNat
  <2>. QED  BY <2>1
<1>. QED  BY <1>2, <1>6, WType

\* How far a signature is along each chain.
LEMMA LengthsType ==
  ASSUME NEW msg \in Message, NEW c \in 0..(WotsLen - 1)
  PROVE  ChainLengths(msg)[c] \in 0..(W - 1)
<1>. DEFINE digits == BaseW(Len1, msg)
            csum   == Checksum(digits) * 2 ^ CsumShift
            input  == BigEndian(CsumBytes, csum)
<1>1. /\ N \in Nat /\ LogW \in Nat \ {0} /\ ByteBits \in Nat \ {0} /\ Len2 \in Nat
      /\ ByteBits * N = N * ByteBits
  BY WotsAssumption
<1>2. \A i \in 0..(Len1 - 1) : digits[i] \in 0..(W - 1)
  <2>1. \A b \in 0..(N - 1) : msg[b] \in Nat
    <3>1. 2 ^ ByteBits \in Nat
      BY <1>1, PowerNat
    <3>. QED  BY <3>1 DEF Message, Byte
  <2>. QED  BY <1>1, <2>1, Len1Type, BaseWType
<1>3. csum \in Nat
  <2>1. CsumShift \in Nat
    <3>1. \A x \in Int : x % ByteBits \in Nat
      BY <1>1
    <3>. QED  BY <1>1, <3>1 DEF CsumShift
  <2>2. 2 ^ CsumShift \in Nat
    BY <2>1, PowerNat
  <2>3. Checksum(digits) \in Nat
    BY <1>2, ChecksumType
  <2>. QED  BY <2>2, <2>3
<1>4. CsumBytes \in Nat /\ Len2 * LogW <= CsumBytes * ByteBits
  <2>. DEFINE p == Len2 * LogW
  <2>1. p \in Nat
    BY <1>1
  <2>. HIDE DEF p
  <2>2. /\ (p + ByteBits - 1) \div ByteBits \in Nat
        /\ ((p + ByteBits - 1) \div ByteBits) * ByteBits >= p
    BY <1>1, <2>1
  <2>. QED  BY <2>2 DEF p, CsumBytes
<1>5. \A b \in 0..(CsumBytes - 1) : input[b] \in Nat
  <2>. SUFFICES ASSUME NEW b \in 0..(CsumBytes - 1) PROVE input[b] \in Nat
    OBVIOUS
  <2>. DEFINE e == ByteBits * (CsumBytes - 1 - b)
  <2>1. input[b] = (csum \div 2 ^ e) % 2 ^ ByteBits
    BY DEF BigEndian
  <2>2. e \in Nat
    BY <1>1, <1>4
  <2>3. 2 ^ e \in Nat \ {0} /\ 2 ^ ByteBits \in Nat \ {0}
    BY <1>1, <2>2, PowerNat
  <2>. HIDE DEF e, csum
  <2>4. csum \div 2 ^ e \in Nat
    BY <1>3, <2>3
  <2>. QED  BY <2>1, <2>3, <2>4
<1>6. \A i \in 0..(Len2 - 1) : BaseW(Len2, input)[i] \in 0..(W - 1)
  <2>. HIDE DEF input
  <2>. QED  BY <1>1, <1>4, <1>5, BaseWType
<1>7. ChainLengths(msg)[c] = IF c < Len1 THEN digits[c] ELSE BaseW(Len2, input)[c - Len1]
  BY DEF ChainLengths, WotsChecksum
<1>. HIDE DEF digits, input
<1>8. c \in Nat /\ c < Len1 + Len2
  BY <1>1, Len1Type DEF WotsLen
<1>. QED  BY <1>1, <1>2, <1>6, <1>7, <1>8, Len1Type

-----------------------------------------------------------------------------
(* Digits and the order of numbers *)

\* Digit k of a number in base W, from the least significant.
Digit(v, k) == (v \div 2 ^ (LogW * k)) % W

\* A multiple on top does not change what a division leaves below it.
LEMMA DivAbove ==
  ASSUME NEW q \in Nat, NEW P \in Nat \ {0}, NEW r \in Nat
  PROVE  (q * P + r) \div P = q + (r \div P)
<1>. DEFINE s == r \div P
            t == r % P
<1>1. s \in Nat /\ t \in 0..(P - 1) /\ r = s * P + t
  OBVIOUS
<1>. HIDE DEF s, t
<1>2. q * P + r = (q + s) * P + t
  <2>1. q * P \in Nat /\ s * P \in Nat /\ (q + s) * P = q * P + s * P
    BY <1>1
  <2>. QED  BY <1>1, <2>1
<1>3. q + s \in Nat
  BY <1>1
<1>4. ((q + s) * P + t) \div P = q + s
  BY <1>1, <1>3, DivOfMultiple
<1>. QED  BY <1>2, <1>4 DEF s

\* Nor what is left of it.
LEMMA ModAbove ==
  ASSUME NEW q \in Nat, NEW P \in Nat \ {0}, NEW r \in Nat
  PROVE  (q * P + r) % P = r % P
<1>. DEFINE s == r \div P
            t == r % P
            x == q * P + r
            y == x \div P
            z == x % P
<1>1. s \in Nat /\ t \in 0..(P - 1) /\ r = s * P + t
  OBVIOUS
<1>2. x \in Nat
  OBVIOUS
<1>3. y = q + s
  BY DivAbove
<1>4. x = y * P + z /\ z \in Nat /\ y \in Nat
  <2>. HIDE DEF x
  <2>. QED  BY <1>2
<1>5. (q + s) * P = q * P + s * P /\ q * P \in Nat /\ s * P \in Nat
  BY <1>1
<1>6. q * P + r = (q + s) * P + z
  BY <1>3, <1>4
<1>. HIDE DEF s, t, y, z
<1>7. z = t
  <2>. DEFINE u == q * P
              v == s * P
              w == (q + s) * P
  <2>. HIDE DEF u, v, w
  <2>1. u \in Nat /\ v \in Nat /\ w = u + v /\ r = v + t /\ u + r = w + z
    BY <1>1, <1>5, <1>6 DEF u, v, w
  <2>. QED  BY <1>1, <1>4, <2>1
<1>. QED  BY <1>7 DEF z, t, x

\* A digit of a byte of a number is a digit of the number.
LEMMA DigitOfByte ==
  ASSUME NEW x \in Nat, NEW m \in Nat, NEW e \in Nat, e + LogW <= ByteBits
  PROVE  (((x \div 2 ^ m) % 2 ^ ByteBits) \div 2 ^ e) % W = (x \div 2 ^ (m + e)) % W
<1>. DEFINE y == x \div 2 ^ m
            B == 2 ^ ByteBits
            E == 2 ^ e
            t == ByteBits - LogW - e
            T == 2 ^ t
            q == y \div B
            r == y % B
<1>1. LogW \in Nat /\ ByteBits \in Nat /\ t \in Nat
  BY WotsAssumption
<1>2. y \in Nat
  BY ShiftType
<1>3. B \in Nat \ {0} /\ E \in Nat \ {0} /\ T \in Nat \ {0}
  BY <1>1, PowerNat
<1>4. W \in Nat \ {0}
  BY WType
<1>5. B = (T * W) * E
  <2>1. (t + LogW) + e = ByteBits /\ t + LogW \in Nat
    BY <1>1
  <2>. HIDE DEF t
  <2>2. 2 ^ ((t + LogW) + e) = 2 ^ (t + LogW) * 2 ^ e
    BY <2>1, PowerSum
  <2>3. 2 ^ (t + LogW) = 2 ^ t * 2 ^ LogW
    BY <1>1, PowerSum
  <2>. QED  BY <2>1, <2>2, <2>3 DEF W
<1>. HIDE DEF y, B, E, t, T
<1>6. q \in Nat /\ r \in Nat /\ y = q * B + r
  BY <1>2, <1>3
<1>. HIDE DEF q, r
<1>7. y = (q * (T * W)) * E + r
  <2>1. q * ((T * W) * E) = (q * (T * W)) * E
    BY <1>3, <1>4, <1>6
  <2>. QED  BY <1>5, <1>6, <2>1
<1>8. q * (T * W) \in Nat
  BY <1>3, <1>4, <1>6
<1>9. y \div E = q * (T * W) + (r \div E)
  <2>. DEFINE z == q * (T * W)
  <2>. HIDE DEF z
  <2>1. z \in Nat /\ y = z * E + r
    BY <1>7, <1>8 DEF z
  <2>2. (z * E + r) \div E = z + (r \div E)
    BY <1>3, <1>6, <2>1, DivAbove
  <2>. QED  BY <2>1, <2>2 DEF z
<1>10. y \div E = (q * T) * W + (r \div E)
  <2>1. q * (T * W) = (q * T) * W
    BY <1>3, <1>4, <1>6
  <2>. QED  BY <1>9, <2>1
<1>11. q * T \in Nat /\ r \div E \in Nat
  BY <1>3, <1>6
<1>12. ((q * T) * W + (r \div E)) % W = (r \div E) % W
  BY <1>4, <1>11, ModAbove
<1>13. y \div E = x \div 2 ^ (m + e)
  BY ShiftTwice DEF y, E
<1>. QED  BY <1>10, <1>12, <1>13 DEF r, y, B, E

\* A number above a digit is that digit and the number above the next one.
LEMMA NextDigit ==
  ASSUME NEW v \in Nat, NEW k \in Nat
  PROVE  /\ v \div 2 ^ (LogW * k) = (v \div 2 ^ (LogW * (k + 1))) * W + Digit(v, k)
         /\ Digit(v, k) \in 0..(W - 1)
         /\ v \div 2 ^ (LogW * (k + 1)) \in Nat
<1>. DEFINE m == LogW * k
            x == v \div 2 ^ m
            y == v \div 2 ^ (m + LogW)
<1>1. LogW \in Nat /\ m \in Nat /\ LogW * (k + 1) = m + LogW
  BY WotsAssumption
<1>2. W \in Nat \ {0}
  BY WType
<1>. HIDE DEF m
<1>3. x \in Nat /\ y = x \div W
  <2>1. x \in Nat
    BY <1>1, ShiftType, Zenon
  <2>2. v \div 2 ^ (m + LogW) = (v \div 2 ^ m) \div 2 ^ LogW
    <3>1. m \in Nat /\ LogW \in Nat
      BY <1>1
    <3>2. \A c \in Nat : v \div 2 ^ (m + c) = (v \div 2 ^ m) \div 2 ^ c
      BY <3>1, ShiftTwice
    <3>. HIDE DEF x, y
    <3>. QED  BY <3>1, <3>2, Zenon
  <2>. QED  BY <2>1, <2>2 DEF W
<1>. HIDE DEF x, y
<1>4. x = (x \div W) * W + (x % W) /\ x % W \in 0..(W - 1) /\ x \div W \in Nat
  BY <1>2, <1>3
<1>5. Digit(v, k) = x % W
  BY DEF Digit, x, m
<1>6. v \div 2 ^ (LogW * (k + 1)) = y
  BY <1>1 DEF y
<1>7. v \div 2 ^ (LogW * k) = x
  BY DEF x, m
<1>. QED  BY <1>3, <1>4, <1>5, <1>6, <1>7

\* Of two numbers of so many digits, one has every digit at or above the
\* other's only if it is itself at or above it.
LEMMA DigitsOrder ==
  ASSUME NEW u \in Nat, NEW v \in Nat, NEW n \in Nat,
         u < 2 ^ (LogW * n), v < 2 ^ (LogW * n),
         \A k \in 0..(n - 1) : Digit(u, k) >= Digit(v, k)
  PROVE  u >= v
<1>. DEFINE U(k) == u \div 2 ^ (LogW * k)
            V(k) == v \div 2 ^ (LogW * k)
            S == {j \in Nat : j <= n => U(n - j) >= V(n - j)}
<1>1. 0 \in S
  <2>1. LogW * n \in Nat
    BY WotsAssumption
  <2>2. 2 ^ (LogW * n) \in Nat \ {0}
    BY <2>1, PowerNat
  <2>3. \A P \in Nat \ {0}, x \in Nat : x < P => x \div P = 0
    OBVIOUS
  <2>4. U(n) = 0 /\ V(n) = 0
    BY <2>2, <2>3
  <2>5. n - 0 = n
    OBVIOUS
  <2>. QED  BY <2>4, <2>5
<1>2. ASSUME NEW j \in Nat, j \in S PROVE j + 1 \in S
  <2>. SUFFICES ASSUME j + 1 <= n PROVE U(n - (j + 1)) >= V(n - (j + 1))
    OBVIOUS
  <2>. DEFINE k == n - (j + 1)
  <2>1. k \in Nat /\ k + 1 = n - j /\ k \in 0..(n - 1)
    OBVIOUS
  <2>2. U(n - j) >= V(n - j)
    BY <1>2
  <2>. HIDE DEF k
  <2>3. U(k + 1) >= V(k + 1)
    BY <2>1, <2>2
  <2>4. Digit(u, k) >= Digit(v, k)
    BY <2>1
  <2>5. /\ U(k) = U(k + 1) * W + Digit(u, k) /\ Digit(u, k) \in 0..(W - 1) /\ U(k + 1) \in Nat
        /\ V(k) = V(k + 1) * W + Digit(v, k) /\ Digit(v, k) \in 0..(W - 1) /\ V(k + 1) \in Nat
    BY <2>1, NextDigit
  <2>. HIDE DEF U, V
  <2>6. U(k + 1) * W >= V(k + 1) * W /\ U(k + 1) * W \in Nat /\ V(k + 1) * W \in Nat
    <3>1. \A a, b, w \in Nat : a >= b => a * w >= b * w /\ a * w \in Nat /\ b * w \in Nat
      OBVIOUS
    <3>. QED  BY <2>3, <2>5, <3>1, WType
  <2>7. U(k) >= V(k)
    <3>. DEFINE a == U(k + 1) * W
                b == V(k + 1) * W
                c == Digit(u, k)
                d == Digit(v, k)
    <3>. HIDE DEF a, b, c, d
    <3>1. a \in Nat /\ b \in Nat /\ a >= b /\ c \in Nat /\ d \in Nat /\ c >= d
      BY <2>4, <2>5, <2>6, WType DEF a, b, c, d
    <3>2. U(k) = a + c /\ V(k) = b + d
      BY <2>5 DEF a, b, c, d
    <3>. QED  BY <3>1, <3>2
  <2>. QED  BY <2>7 DEF k
<1>3. n \in S
  <2>. HIDE DEF S
  <2>1. Nat \subseteq S
    BY <1>1, <1>2, Induction
  <2>. QED  BY <2>1
<1>4. U(0) >= V(0)
  BY <1>3
<1>5. LogW * 0 = 0 /\ 2 ^ 0 = 1 /\ u \div 1 = u /\ v \div 1 = v
  BY WotsAssumption
<1>. QED  BY <1>4, <1>5

-----------------------------------------------------------------------------
(* The digits of a message and of its checksum *)

\* The bits of the checksum, shifted up, fill its bytes.
LEMMA CsumFill ==
  /\ CsumBytes \in Nat /\ CsumShift \in Nat
  /\ CsumBytes * ByteBits = Len2 * LogW + CsumShift
<1>. DEFINE p == Len2 * LogW
            q == p \div ByteBits
            r == p % ByteBits
<1>1. ByteBits \in Nat \ {0} /\ p \in Nat
  BY WotsAssumption
<1>. HIDE DEF p
<1>2. q \in Nat /\ r \in 0..(ByteBits - 1) /\ p = q * ByteBits + r
  BY <1>1
<1>3. CsumBytes = (p + ByteBits - 1) \div ByteBits /\ CsumShift = (ByteBits - r) % ByteBits
  BY DEF CsumBytes, CsumShift, p
<1>. HIDE DEF q, r
<1>4. CASE r = 0
  <2>1. CsumShift = 0
    <3>1. \A b \in Nat \ {0} : (b - 0) % b = 0
      <4>1. \A b \in Nat \ {0} : b - 0 = 1 * b + 0 /\ 0 % b = 0
        OBVIOUS
      <4>. QED  BY <4>1, ModAbove
    <3>. QED  BY <1>1, <1>3, <1>4, <3>1
  <2>2. CsumBytes = q
    <3>1. p + ByteBits - 1 = q * ByteBits + (ByteBits - 1)
      BY <1>1, <1>2, <1>4
    <3>2. ByteBits - 1 \in 0..(ByteBits - 1)
      BY <1>1
    <3>3. (q * ByteBits + (ByteBits - 1)) \div ByteBits = q
      BY <1>1, <1>2, <3>2, DivOfMultiple
    <3>. DEFINE u == p + ByteBits - 1
                v == q * ByteBits + (ByteBits - 1)
    <3>4. u = v
      BY <3>1
    <3>5. CsumBytes = u \div ByteBits /\ v \div ByteBits = q
      BY <1>3, <3>3
    <3>. HIDE DEF u, v
    <3>. QED  BY <3>4, <3>5
  <2>. QED  BY <1>1, <1>2, <1>4, <2>1, <2>2 DEF p
<1>5. CASE r # 0
  <2>1. CsumShift = ByteBits - r /\ CsumShift \in Nat
    <3>1. \A b, c \in Nat : c < b => c % b = c
      OBVIOUS
    <3>2. ByteBits - r \in Nat /\ ByteBits - r < ByteBits
      BY <1>1, <1>2, <1>5
    <3>. QED  BY <1>1, <1>3, <3>1, <3>2
  <2>2. CsumBytes = q + 1
    <3>1. p + ByteBits - 1 = (q + 1) * ByteBits + (r - 1)
      <4>1. (q + 1) * ByteBits = q * ByteBits + ByteBits /\ q * ByteBits \in Nat
        BY <1>1, <1>2
      <4>. QED  BY <1>1, <1>2, <4>1
    <3>2. r - 1 \in 0..(ByteBits - 1) /\ q + 1 \in Nat
      BY <1>1, <1>2, <1>5
    <3>3. ((q + 1) * ByteBits + (r - 1)) \div ByteBits = q + 1
      BY <1>1, <3>2, DivOfMultiple
    <3>. DEFINE u == p + ByteBits - 1
                v == (q + 1) * ByteBits + (r - 1)
    <3>4. u = v
      BY <3>1
    <3>5. CsumBytes = u \div ByteBits /\ v \div ByteBits = q + 1
      BY <1>3, <3>3
    <3>. HIDE DEF u, v
    <3>. QED  BY <3>4, <3>5
  <2>3. (q + 1) * ByteBits = q * ByteBits + ByteBits /\ q * ByteBits \in Nat
    BY <1>1, <1>2
  <2>4. (q + 1) * ByteBits = p + (ByteBits - r)
    BY <1>1, <1>2, <2>3
  <2>. QED  BY <1>2, <2>1, <2>2, <2>4 DEF p
<1>. QED  BY <1>2, <1>4, <1>5

\* Where digit i of the bytes is: in byte b, e bits up, and E bits up from the end.
LEMMA PlaceOfDigit ==
  ASSUME NEW outLen \in Nat, NEW bytes \in Nat, NEW shift \in Nat,
         bytes * ByteBits = outLen * LogW + shift,
         NEW i \in 0..(outLen - 1),
         NEW b, b = (i * LogW) \div ByteBits,
         NEW e, e = ByteBits - LogW - ((i * LogW) % ByteBits)
  PROVE  /\ b \in 0..(bytes - 1) /\ e \in Nat /\ e + LogW <= ByteBits
         /\ ByteBits * (bytes - 1 - b) \in Nat
         /\ ByteBits * (bytes - 1 - b) + e = shift + LogW * (outLen - 1 - i)
<1>. DEFINE bit == i * LogW
            r == bit % ByteBits
<1>1. LogW \in Nat \ {0} /\ ByteBits \in Nat \ {0} /\ LogW <= ByteBits
  BY WotsAssumption
<1>2. bit \in Nat /\ r \in 0..(ByteBits - LogW)
  BY <1>1, DigitInByte
<1>. HIDE DEF bit
<1>3. b = bit \div ByteBits /\ e = ByteBits - LogW - r
  BY DEF bit
<1>4. b \in Nat /\ bit = b * ByteBits + r /\ r \in Nat
  BY <1>1, <1>2, <1>3
<1>. HIDE DEF r
<1>5. e \in Nat /\ e + LogW <= ByteBits
  BY <1>1, <1>2, <1>3
<1>6. LogW * (outLen - 1 - i) = outLen * LogW - LogW - bit /\ LogW * (outLen - 1 - i) \in Nat
  <2>1. LogW * (outLen - 1 - i) = outLen * LogW - LogW - i * LogW
    BY <1>1
  <2>2. outLen - 1 - i \in Nat
    OBVIOUS
  <2>3. LogW * (outLen - 1 - i) \in Nat
    BY <1>1, <2>2
  <2>. QED  BY <2>1, <2>3 DEF bit
<1>7. ByteBits * (bytes - 1 - b) = bytes * ByteBits - ByteBits - b * ByteBits
  BY <1>1, <1>4
<1>. DEFINE F == ByteBits * (bytes - 1 - b)
            G == LogW * (outLen - 1 - i)
            p == outLen * LogW
            s == b * ByteBits
            t == bytes * ByteBits
<1>8. p \in Nat /\ s \in Nat /\ t \in Nat /\ F \in Int
  BY <1>1, <1>4
<1>9. G = p - LogW - bit /\ G \in Nat /\ F = t - ByteBits - s /\ bit = s + r /\ t = p + shift
  BY <1>4, <1>6, <1>7
<1>. HIDE DEF F, G, p, s, t
<1>10. F + e = shift + G
  <2>1. F + e = t - s - LogW - r
    BY <1>1, <1>3, <1>4, <1>8, <1>9
  <2>2. t - s - LogW - r = shift + (p - LogW - (s + r))
    BY <1>1, <1>4, <1>8, <1>9
  <2>3. p - LogW - (s + r) = G
    BY <1>9
  <2>. QED  BY <2>1, <2>2, <2>3
<1>11. b <= bytes - 1
  <2>1. ASSUME b >= bytes PROVE FALSE
    <3>1. s >= t
      <4>1. \A x, y, z \in Nat : x >= y => x * z >= y * z
        OBVIOUS
      <4>. QED  BY <1>1, <1>4, <2>1, <4>1 DEF s, t
    <3>2. bit + LogW <= p
      BY <1>1, <1>2, <1>8, <1>9
    <3>. QED  BY <1>1, <1>2, <1>4, <1>8, <1>9, <3>1, <3>2
  <2>. QED  BY <1>4, <2>1
<1>12. F \in Nat
  <2>1. bytes - 1 - b \in Nat
    BY <1>4, <1>11
  <2>2. \A x, y \in Nat : x * y \in Nat
    OBVIOUS
  <2>. QED  BY <1>1, <2>1, <2>2 DEF F
<1>. QED  BY <1>4, <1>5, <1>10, <1>11, <1>12 DEF F, G

\* The digits of the checksum are those of the number.
LEMMA DigitOfChecksum ==
  ASSUME NEW digits, NEW csum \in Nat, csum = Checksum(digits), NEW i \in 0..(Len2 - 1)
  PROVE  WotsChecksum(digits)[i] = Digit(csum, Len2 - 1 - i)
<1>. DEFINE x == csum * 2 ^ CsumShift
            b == (i * LogW) \div ByteBits
            e == ByteBits - LogW - ((i * LogW) % ByteBits)
            m == ByteBits * (CsumBytes - 1 - b)
            g == LogW * (Len2 - 1 - i)
            input == BigEndian(CsumBytes, x)
<1>1. WotsChecksum(digits)[i] = (input[b] \div 2 ^ e) % W
  BY DEF WotsChecksum, BaseW
<1>2. Len2 \in Nat /\ CsumBytes \in Nat /\ CsumShift \in Nat
  BY WotsAssumption, CsumFill
<1>3. /\ b \in 0..(CsumBytes - 1) /\ e \in Nat /\ e + LogW <= ByteBits
      /\ m \in Nat /\ m + e = CsumShift + g
  <2>1. CsumBytes * ByteBits = Len2 * LogW + CsumShift
    BY CsumFill
  <2>. DEFINE bb == b
              ee == e
  <2>. HIDE DEF bb, ee
  <2>2. bb = (i * LogW) \div ByteBits /\ ee = ByteBits - LogW - ((i * LogW) % ByteBits)
    BY DEF bb, ee
  <2>3. /\ bb \in 0..(CsumBytes - 1) /\ ee \in Nat /\ ee + LogW <= ByteBits
        /\ ByteBits * (CsumBytes - 1 - bb) \in Nat
        /\ ByteBits * (CsumBytes - 1 - bb) + ee = CsumShift + LogW * (Len2 - 1 - i)
    BY <1>2, <2>1, <2>2, PlaceOfDigit
  <2>. QED  BY <2>3 DEF bb, ee
<1>4. input[b] = (x \div 2 ^ m) % 2 ^ ByteBits
  <2>. HIDE DEF b, x
  <2>. QED  BY <1>3 DEF BigEndian
<1>5. 2 ^ CsumShift \in Nat \ {0} /\ x \in Nat
  BY <1>2, PowerNat
<1>6. x \div 2 ^ CsumShift = csum
  <2>1. \A P \in Nat \ {0} : (csum * P) \div P = csum
    <3>1. \A P \in Nat \ {0} : (csum * P + 0) \div P = csum /\ csum * P + 0 = csum * P
      BY DivOfMultiple
    <3>. QED  BY <3>1
  <2>. QED  BY <1>5, <2>1
<1>7. g \in Nat
  <2>1. LogW \in Nat /\ Len2 - 1 - i \in Nat
    BY <1>2, WotsAssumption
  <2>. QED  BY <2>1
<1>. HIDE DEF x, b, e, m, g, input
<1>8. (input[b] \div 2 ^ e) % W = (x \div 2 ^ (m + e)) % W
  BY <1>3, <1>4, <1>5, DigitOfByte
<1>9. x \div 2 ^ (CsumShift + g) = csum \div 2 ^ g
  <2>1. x \div 2 ^ (CsumShift + g) = (x \div 2 ^ CsumShift) \div 2 ^ g
    <3>1. x \in Nat /\ CsumShift \in Nat /\ g \in Nat
      BY <1>2, <1>5, <1>7
    <3>2. \A n \in Nat : x \div 2 ^ (CsumShift + n) = (x \div 2 ^ CsumShift) \div 2 ^ n
      BY <3>1, ShiftTwice
    <3>. QED  BY <3>1, <3>2, Zenon
  <2>. QED  BY <1>6, <2>1
<1>. QED  BY <1>1, <1>3, <1>8, <1>9 DEF Digit, g

\* Each digit of a byte is a digit of the message, in the same place in every message.
LEMMA DigitOfMessage ==
  ASSUME NEW b \in 0..(N - 1), NEW k \in 0..((ByteBits \div LogW) - 1)
  PROVE  \E i \in 0..(Len1 - 1) :
           \A m \in Message : BaseW(Len1, m)[i] = Digit(m[b], k)
<1>. DEFINE c == ByteBits \div LogW
            j == c - 1 - k
            i == b * c + j
<1>1. LogW \in Nat \ {0} /\ ByteBits \in Nat \ {0} /\ N \in Nat \ {0} /\ ByteBits % LogW = 0
  BY WotsAssumption
<1>2. c \in Nat /\ ByteBits = c * LogW
  BY <1>1
<1>. HIDE DEF c
<1>3. j \in 0..(c - 1) /\ k \in Nat /\ k = c - 1 - j
  BY <1>2 DEF c
<1>. HIDE DEF j
<1>4. b * c \in Nat /\ i \in Nat /\ b \in Nat
  BY <1>1, <1>2, <1>3
<1>5. Len1 = c * N
  <2>1. (c * N) * LogW = ByteBits * N /\ c * N \in Nat
    BY <1>1, <1>2
  <2>2. \A x \in Nat : (x * LogW + 0) \div LogW = x /\ x * LogW + 0 = x * LogW
    BY <1>1, DivOfMultiple
  <2>. DEFINE x == c * N
  <2>. HIDE DEF x
  <2>3. x * LogW = ByteBits * N /\ x \in Nat
    BY <2>1 DEF x
  <2>4. (x * LogW) \div LogW = x
    BY <2>2, <2>3
  <2>. QED  BY <2>3, <2>4 DEF Len1, x
<1>6. i \in 0..(Len1 - 1)
  <2>1. b * c <= (N - 1) * c
    <3>1. \A x, y, z \in Nat : x <= y => x * z <= y * z
      OBVIOUS
    <3>. QED  BY <1>1, <1>2, <3>1
  <2>2. (N - 1) * c = c * N - c /\ c * N \in Nat
    BY <1>1, <1>2
  <2>. QED  BY <1>2, <1>3, <1>4, <1>5, <2>1, <2>2
<1>7. /\ i * LogW = b * ByteBits + j * LogW
      /\ j * LogW \in 0..(ByteBits - 1)
      /\ ByteBits - LogW - j * LogW = LogW * k
  <2>1. (b * c + j) * LogW = (b * c) * LogW + j * LogW
    BY <1>1, <1>2, <1>3, <1>4
  <2>2. (b * c) * LogW = b * (c * LogW)
    BY <1>1, <1>2, <1>4
  <2>3. LogW * k = c * LogW - LogW - j * LogW
    BY <1>1, <1>2, <1>3
  <2>4. j * LogW \in Nat /\ LogW * k \in Nat
    BY <1>1, <1>3
  <2>5. j * LogW < ByteBits
    <3>. DEFINE p == j * LogW
                q == LogW * k
                t == c * LogW
    <3>1. p \in Nat /\ q \in Nat /\ t = ByteBits /\ q = t - LogW - p
      BY <1>2, <2>3, <2>4
    <3>. HIDE DEF p, q, t
    <3>2. p < ByteBits
      BY <1>1, <3>1
    <3>. QED  BY <3>2 DEF p
  <2>. QED  BY <1>1, <1>2, <2>1, <2>2, <2>3, <2>4, <2>5
<1>8. (i * LogW) \div ByteBits = b
  <2>. DEFINE r == j * LogW
  <2>1. r \in 0..(ByteBits - 1) /\ i * LogW = b * ByteBits + r
    BY <1>7
  <2>. HIDE DEF r, i
  <2>2. (b * ByteBits + r) \div ByteBits = b
    BY <1>1, <1>4, <2>1, DivOfMultiple
  <2>. QED  BY <2>1, <2>2
<1>9. (i * LogW) % ByteBits = j * LogW
  <2>. DEFINE r == j * LogW
  <2>1. r \in 0..(ByteBits - 1) /\ i * LogW = b * ByteBits + r
    BY <1>7
  <2>. HIDE DEF r, i
  <2>2. (b * ByteBits + r) % ByteBits = r % ByteBits
    BY <1>1, <1>4, <2>1, ModAbove
  <2>3. r % ByteBits = r
    BY <1>1, <2>1
  <2>. QED  BY <2>1, <2>2, <2>3 DEF r
<1>10. ASSUME NEW m \in Message PROVE BaseW(Len1, m)[i] = Digit(m[b], k)
  <2>. DEFINE e == ByteBits - LogW - ((i * LogW) % ByteBits)
  <2>1. BaseW(Len1, m)[i] = (m[(i * LogW) \div ByteBits] \div 2 ^ e) % W
    BY <1>6 DEF BaseW
  <2>2. e = LogW * k
    BY <1>7, <1>9
  <2>. HIDE DEF e, i
  <2>. QED  BY <1>8, <2>1, <2>2 DEF Digit
<1>. HIDE DEF i
<1>. QED  BY <1>6, <1>10

\* Digits at or above those of another message are of bytes at or above its bytes.
LEMMA MessageOrder ==
  ASSUME NEW m \in Message, NEW s \in Message,
         \A i \in 0..(Len1 - 1) : BaseW(Len1, m)[i] >= BaseW(Len1, s)[i],
         NEW b \in 0..(N - 1)
  PROVE  m[b] \in Nat /\ s[b] \in Nat /\ m[b] >= s[b]
<1>. DEFINE c == ByteBits \div LogW
<1>1. LogW \in Nat \ {0} /\ ByteBits \in Nat \ {0} /\ ByteBits % LogW = 0
  BY WotsAssumption
<1>2. c \in Nat /\ LogW * c = ByteBits
  BY <1>1
<1>3. 2 ^ ByteBits \in Nat
  BY <1>1, PowerNat
<1>4. m[b] \in Nat /\ m[b] < 2 ^ ByteBits /\ s[b] \in Nat /\ s[b] < 2 ^ ByteBits
  BY <1>3 DEF Message, Byte
<1>5. \A k \in 0..(c - 1) : Digit(m[b], k) >= Digit(s[b], k)
  <2>. SUFFICES ASSUME NEW k \in 0..(c - 1) PROVE Digit(m[b], k) >= Digit(s[b], k)
    OBVIOUS
  <2>1. PICK i \in 0..(Len1 - 1) : \A t \in Message : BaseW(Len1, t)[i] = Digit(t[b], k)
    BY DigitOfMessage
  <2>. QED  BY <2>1
<1>. HIDE DEF c
<1>. QED  BY <1>2, <1>4, <1>5, DigitsOrder

\* The digits of a message are below W.
LEMMA DigitsType ==
  ASSUME NEW m \in Message, NEW i \in 0..(Len1 - 1)
  PROVE  BaseW(Len1, m)[i] \in 0..(W - 1)
<1>1. N \in Nat /\ ByteBits \in Nat /\ ByteBits * N = N * ByteBits /\ 2 ^ ByteBits \in Nat
  BY WotsAssumption, PowerNat
<1>2. \A b \in 0..(N - 1) : m[b] \in Nat
  BY <1>1 DEF Message, Byte
<1>. QED  BY <1>1, <1>2, Len1Type, BaseWType

\* No other message has all its chains at or above those of a message.
LEMMA NoOtherAbove ==
  ASSUME NEW m \in Message, NEW s \in Message,
         \A c \in 0..(WotsLen - 1) : ChainLengths(m)[c] >= ChainLengths(s)[c]
  PROVE  m = s
<1>. DEFINE d == BaseW(Len1, m)
            g == BaseW(Len1, s)
            x == Checksum(d)
            y == Checksum(g)
            csumD == WotsChecksum(d)
            csumG == WotsChecksum(g)
<1>1. Len1 \in Nat /\ Len2 \in Nat /\ WotsLen = Len1 + Len2
  BY Len1Type, WotsAssumption DEF WotsLen
<1>2. /\ \A c \in 0..(WotsLen - 1) :
            ChainLengths(m)[c] = IF c < Len1 THEN d[c] ELSE csumD[c - Len1]
      /\ \A c \in 0..(WotsLen - 1) :
            ChainLengths(s)[c] = IF c < Len1 THEN g[c] ELSE csumG[c - Len1]
  BY DEF ChainLengths
<1>3. \A i \in 0..(Len1 - 1) : d[i] \in 0..(W - 1) /\ g[i] \in 0..(W - 1)
  BY DigitsType
<1>4. x \in Nat /\ x <= Len1 * (W - 1) /\ y \in Nat /\ y <= Len1 * (W - 1)
  <2>. HIDE DEF d, g
  <2>. QED  BY <1>3, ChecksumType
<1>5. x < 2 ^ (LogW * Len2) /\ y < 2 ^ (LogW * Len2)
  <2>1. LogW * Len2 \in Nat /\ Len1 * (W - 1) \in Nat
    BY <1>1, WType, WotsAssumption
  <2>2. 2 ^ (LogW * Len2) \in Nat
    BY <2>1, PowerNat
  <2>. HIDE DEF x, y
  <2>. QED  BY <1>4, <2>1, <2>2, ChecksumAssumption
<1>6. \A i \in 0..(Len2 - 1) : /\ csumD[i] = Digit(x, Len2 - 1 - i)
                               /\ csumG[i] = Digit(y, Len2 - 1 - i)
  BY <1>4, DigitOfChecksum
<1>7. \A i \in 0..(Len1 - 1) : d[i] >= g[i]
  <2>. HIDE DEF d, g, csumD, csumG
  <2>. SUFFICES ASSUME NEW i \in 0..(Len1 - 1) PROVE d[i] >= g[i]
    OBVIOUS
  <2>1. i \in 0..(WotsLen - 1) /\ i < Len1
    BY <1>1
  <2>. QED  BY <1>2, <2>1
<1>8. \A i \in 0..(Len2 - 1) : csumD[i] >= csumG[i]
  <2>. HIDE DEF d, g, csumD, csumG
  <2>. SUFFICES ASSUME NEW i \in 0..(Len2 - 1) PROVE csumD[i] >= csumG[i]
    OBVIOUS
  <2>1. Len1 + i \in 0..(WotsLen - 1) /\ ~(Len1 + i < Len1) /\ (Len1 + i) - Len1 = i
    BY <1>1
  <2>. QED  BY <1>2, <2>1
<1>9. x >= y
  <2>1. ASSUME NEW k \in 0..(Len2 - 1) PROVE Digit(x, k) >= Digit(y, k)
    <3>1. Len2 - 1 - k \in 0..(Len2 - 1) /\ Len2 - 1 - (Len2 - 1 - k) = k
      BY <1>1
    <3>. HIDE DEF x, y, csumD, csumG
    <3>. QED  BY <1>6, <1>8, <3>1
  <2>. HIDE DEF x, y
  <2>. QED  BY <1>1, <1>4, <1>5, <2>1, DigitsOrder
<1>10. \A i \in 0..(Len1 - 1) : d[i] = g[i]
  <2>. SUFFICES ASSUME NEW i \in 0..(Len1 - 1), d[i] # g[i] PROVE FALSE
    OBVIOUS
  <2>. HIDE DEF d, g
  <2>1. x < y
    BY <1>3, <1>7, ChecksumLess
  <2>. QED  BY <1>4, <1>9, <2>1
<1>11. \A i \in 0..(Len1 - 1) : g[i] >= d[i]
  <2>. HIDE DEF d, g
  <2>. QED  BY <1>3, <1>10, WType
<1>12. \A b \in 0..(N - 1) : m[b] = s[b]
  <2>. SUFFICES ASSUME NEW b \in 0..(N - 1) PROVE m[b] = s[b]
    OBVIOUS
  <2>1. m[b] \in Nat /\ s[b] \in Nat /\ m[b] >= s[b]
    BY <1>7, MessageOrder
  <2>2. s[b] >= m[b]
    BY <1>11, MessageOrder
  <2>. QED  BY <2>1, <2>2
<1>13. /\ m = [b \in 0..(N - 1) |-> m[b]]
       /\ s = [b \in 0..(N - 1) |-> s[b]]
  BY DEF Message
<1>14. [b \in 0..(N - 1) |-> m[b]] = [b \in 0..(N - 1) |-> s[b]]
  BY <1>12
<1>. QED  BY <1>13, <1>14, Zenon
=============================================================================
