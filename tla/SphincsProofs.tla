--------------------------- MODULE SphincsProofs ---------------------------
(***************************************************************************)
(* For every number of layers, height of trees, set of keys and digests:   *)
(* a one-time key signs one root only, a few-time secret given away        *)
(* belongs to one leaf, a signature opens under its key and no other, and  *)
(* no address is hashed with two inputs.  The argument is that the root    *)
(* signed at a place of the hypertree is a function of the place, that the *)
(* verifier comes to the same roots, and that an address tells its hash.   *)
(***************************************************************************)
EXTENDS Sphincs, SphincsLemmas

\* An address by its fields.
Addr(l, t, y, f, b, i) ==
  [layer |-> l, tree |-> t, type |-> y, kp |-> f, b27 |-> b, index |-> i]

\* The addresses at a place, with all that earlier layers left in them.
PlaceAddr(l, t)    == SetTree(SetLayer(ZeroAddr, l), t)
WotsAt(l, t, f)    == SetKeypair(PlaceAddr(l, t), f)
HeightLeft(l)      == IF l = 0 THEN 0 ELSE H
TreeAddrAt(l, t)   == Addr(l, t, "HASHTREE", 0, HeightLeft(l), 0)

\* The roots: of the few-time key of a leaf, and of a subtree.
ForsRootAt(k, t, f) ==
  ForsPk(k, WotsAt(0, t, f),
         [x \in 0..(K - 1) |-> TreeRoot(ForsTree(k, WotsAt(0, t, f), x), A)])

SubtreeRootAt(k, l, t) == TreeRoot(Subtree(k, PlaceAddr(l, t), TreeAddrAt(l, t)), H)

\* What the one-time key at a place signs: the tree below its leaf.
SignedAt(k, l, t, f) ==
  IF l = 0 THEN ForsRootAt(k, t, f) ELSE SubtreeRootAt(k, l - 1, t * 2 ^ H + f)

\* The stages of crypto_sign_signature; the other calls sign nothing.
Signing == pc \in {"fors", "layer"}

IndexType ==
  /\ Signing => tree \in Nat /\ idxLeaf \in 0..(2 ^ H - 1) /\ layer \in Nat
  /\ Signing => \E d \in Digests : mhash = d.mhash

AddressOfPlace ==
  /\ Signing => /\ SetTree(SetLayer(treeAddr, layer), tree) = TreeAddrAt(layer, tree)
                /\ \E l, t, f : wotsAddr = WotsAt(l, t, f)
  /\ pc = "fors" => layer = 0 /\ wotsAddr = WotsAt(0, tree, idxLeaf)

RootOfPlace == pc = "layer" => root = SignedAt(key, layer, tree, idxLeaf)

CertifiedByPlace ==
  \A c \in certified :
    \E k, l, t, f : c = [at |-> << k, l, t, f >>, root |-> SignedAt(k, l, t, f),
                         addr |-> WotsAt(l, t, f)]

RevealedByPlace ==
  \A s \in revealed :
    \E k, t, f : \E x \in 0..(K - 1), i \in 0..(2 ^ A - 1) :
      s = [at |-> << k, t, f, x, i >>,
           sk |-> ForsSk(k, WotsAt(0, t, f), i + IdxOffset(x))]

SignInv == IndexType /\ AddressOfPlace /\ RootOfPlace /\ CertifiedByPlace /\ RevealedByPlace

-----------------------------------------------------------------------------
\* What the setters do to an address.
LEMMA AddrFields ==
  ASSUME NEW l, NEW t, NEW y, NEW f, NEW b, NEW i, NEW x
  PROVE  /\ ZeroAddr = Addr(0, 0, "WOTS", 0, 0, 0)
         /\ SetLayer(Addr(l, t, y, f, b, i), x) = Addr(x, t, y, f, b, i)
         /\ SetTree(Addr(l, t, y, f, b, i), x) = Addr(l, x, y, f, b, i)
         /\ SetType(Addr(l, t, y, f, b, i), x) = Addr(l, t, x, f, b, i)
         /\ SetKeypair(Addr(l, t, y, f, b, i), x) = Addr(l, t, y, x, b, i)
         /\ SetTreeHeight(Addr(l, t, y, f, b, i), x) = Addr(l, t, y, f, x, i)
         /\ SetTreeIndex(Addr(l, t, y, f, b, i), x) = Addr(l, t, y, f, b, x)
<1>1. ZeroAddr = Addr(0, 0, "WOTS", 0, 0, 0)
  BY DEF ZeroAddr, Addr
<1>2. SetLayer(Addr(l, t, y, f, b, i), x) = Addr(x, t, y, f, b, i)
  BY DEF SetLayer, Addr
<1>3. SetTree(Addr(l, t, y, f, b, i), x) = Addr(l, x, y, f, b, i)
  BY DEF SetTree, Addr
<1>4. SetType(Addr(l, t, y, f, b, i), x) = Addr(l, t, x, f, b, i)
  BY DEF SetType, Addr
<1>5. SetKeypair(Addr(l, t, y, f, b, i), x) = Addr(l, t, y, x, b, i)
  BY DEF SetKeypair, Addr
<1>6. SetTreeHeight(Addr(l, t, y, f, b, i), x) = Addr(l, t, y, f, x, i)
  BY DEF SetTreeHeight, Addr
<1>7. SetTreeIndex(Addr(l, t, y, f, b, i), x) = Addr(l, t, y, f, b, x)
  BY DEF SetTreeIndex, Addr
<1>. QED  BY <1>1, <1>2, <1>3, <1>4, <1>5, <1>6, <1>7

LEMMA CopyFields ==
  ASSUME NEW l, NEW t, NEW y, NEW f, NEW b, NEW i, NEW l2, NEW t2, NEW y2, NEW f2, NEW b2, NEW i2
  PROVE  CopySubtree(Addr(l, t, y, f, b, i), Addr(l2, t2, y2, f2, b2, i2)) =
         Addr(l2, t2, y, f, b, i)
<1>. DEFINE in == Addr(l2, t2, y2, f2, b2, i2)
<1>1. in.layer = l2 /\ in.tree = t2
  BY DEF Addr
<1>. HIDE DEF in
<1>2. CopySubtree(Addr(l, t, y, f, b, i), in) = Addr(in.layer, in.tree, y, f, b, i)
  BY AddrFields DEF CopySubtree
<1>. QED  BY <1>1, <1>2 DEF in

LEMMA PlaceFields ==
  ASSUME NEW l, NEW t, NEW f
  PROVE  /\ PlaceAddr(l, t) = Addr(l, t, "WOTS", 0, 0, 0)
         /\ WotsAt(l, t, f) = Addr(l, t, "WOTS", f, 0, 0)
  BY AddrFields DEF PlaceAddr, WotsAt

LEMMA AddrInjective ==
  ASSUME NEW l, NEW t, NEW y, NEW f, NEW b, NEW i, NEW l2, NEW t2, NEW y2, NEW f2, NEW b2, NEW i2,
         Addr(l, t, y, f, b, i) = Addr(l2, t2, y2, f2, b2, i2)
  PROVE  l = l2 /\ t = t2 /\ f = f2 /\ i = i2
  BY DEF Addr

\* A subtree does not depend on the keypair in the address it is given.
LEMMA SubtreeOfPlace ==
  ASSUME NEW k, NEW l, NEW t, NEW f, NEW a
  PROVE  Subtree(k, WotsAt(l, t, f), a) = Subtree(k, PlaceAddr(l, t), a)
<1>1. CopySubtree(ZeroAddr, WotsAt(l, t, f)) = CopySubtree(ZeroAddr, PlaceAddr(l, t))
  BY AddrFields, CopyFields, PlaceFields
<1>2. \A leaf : WotsAddr(WotsAt(l, t, f), leaf) = WotsAddr(PlaceAddr(l, t), leaf)
  BY <1>1 DEF WotsAddr
<1>3. \A leaf : WotsLeaf(k, WotsAt(l, t, f), leaf) = WotsLeaf(k, PlaceAddr(l, t), leaf)
  BY <1>2 DEF WotsLeaf, WotsPkAddr
<1>. QED
  BY <1>3 DEF Subtree

\* Quotient and remainder give the tree back.
LEMMA DivMod ==
  ASSUME NEW P \in Nat \ {0}, NEW n \in Nat
  PROVE  /\ n \div P \in Nat /\ n % P \in 0..(P - 1)
         /\ (n \div P) * P + (n % P) = n
  OBVIOUS

\* A number below P and a multiple of P are told apart in their sum.
LEMMA IndexApart ==
  ASSUME NEW P \in Nat \ {0}, NEW x \in Nat, NEW y \in Nat,
         NEW i \in 0..(P - 1), NEW j \in 0..(P - 1), i + x * P = j + y * P
  PROVE  x = y /\ i = j
<1>1. (i + x * P) \div P = x /\ (j + y * P) \div P = y
  OBVIOUS
<1>. QED
  BY <1>1

\* The powers of two that divide a digest.
LEMMA Powers ==
  2 ^ H \in Nat \ {0} /\ 2 ^ A \in Nat \ {0} /\ 2 ^ TreeBits \in Nat \ {0}
<1>1. H \in Nat /\ A \in Nat /\ TreeBits \in Nat
  BY SphincsAssumption, ForsAssumption DEF TreeBits
<1>. QED  BY <1>1, PowerNat

\* The index of a leaf in a few-time tree, from A bits of the digest.
LEMMA IndicesType ==
  ASSUME NEW d \in Digests, NEW t \in 0..(K - 1)
  PROVE  MessageToIndices(d.mhash)[t] \in 0..(2 ^ A - 1)
<1>. DEFINE bits == d.mhash
            index[j \in 0..A] ==
              IF j = 0 THEN 0 ELSE index[j - 1] + bits[t * A + j - 1] * 2 ^ (j - 1)
            term == [j \in 1..A |-> bits[t * A + j - 1] * 2 ^ (j - 1)]
<1>1. A \in Nat /\ K \in Nat /\ t \in Nat /\ t <= K - 1 /\ bits \in [0..(K * A - 1) -> 0..1]
  BY ForsAssumption, SphincsAssumption
<1>2. \A j \in 0..(A - 1) : bits[t * A + j] \in 0..1
  <2>1. t * A <= (K - 1) * A /\ (K - 1) * A = K * A - A /\ t * A \in Nat /\ K * A \in Nat
    BY <1>1
  <2>2. \A j \in 0..(A - 1) : t * A + j \in 0..(K * A - 1)
    BY <1>1, <2>1
  <2>. QED  BY <1>1, <2>2
<1>. HIDE DEF bits
<1>3. PICK f : SumsTo(f, A, term)
  BY <1>1, SumExists
<1>4. SumsTo(index, A, term)
  <2>1. \A j \in 0..A : j # 0 => term[j] = bits[t * A + j - 1] * 2 ^ (j - 1)
    BY <1>1
  <2>. HIDE DEF term
  <2>2. f = [j \in 0..A |-> IF j = 0 THEN 0 ELSE f[j - 1] + bits[t * A + j - 1] * 2 ^ (j - 1)]
    BY <1>3, <2>1 DEF SumsTo
  <2>3. index = [j \in 0..A |->
                   IF j = 0 THEN 0 ELSE index[j - 1] + bits[t * A + j - 1] * 2 ^ (j - 1)]
    BY <2>2
  <2>. HIDE DEF index
  <2>. QED  BY <2>1, <2>3 DEF SumsTo
<1>5. MessageToIndices(d.mhash)[t] = index[A]
  BY DEF MessageToIndices, bits
<1>. DEFINE S == {j \in Nat : j <= A => index[j] \in 0..(2 ^ j - 1)}
<1>. HIDE DEF index, term
<1>6. 0 \in S
  <2>1. index[0] = 0 /\ 2 ^ 0 = 1
    BY <1>1, <1>4 DEF SumsTo
  <2>. QED  BY <2>1
<1>7. ASSUME NEW j \in Nat, j \in S PROVE j + 1 \in S
  <2>. SUFFICES ASSUME j + 1 <= A PROVE index[j + 1] \in 0..(2 ^ (j + 1) - 1)
    OBVIOUS
  <2>1. index[j] \in 0..(2 ^ j - 1) /\ j + 1 \in 0..A /\ j + 1 # 0 /\ (j + 1) - 1 = j
    BY <1>1, <1>7
  <2>2. index[j + 1] = index[j] + term[j + 1]
    BY <1>4, <2>1 DEF SumsTo
  <2>3. term[j + 1] = bits[t * A + j] * 2 ^ j
    <3>1. j + 1 \in 1..A /\ t * A + (j + 1) - 1 = t * A + j
      BY <1>1, <2>1
    <3>. QED  BY <2>1, <3>1 DEF term
  <2>4. bits[t * A + j] \in 0..1
    BY <1>1, <1>2, <2>1
  <2>5. 2 ^ j \in Nat /\ 2 ^ (j + 1) = 2 * 2 ^ j
    BY PowerNat, Doubles
  <2>6. term[j + 1] \in Nat /\ term[j + 1] <= 2 ^ j
    <3>1. \A P \in Nat, b \in 0..1 : b * P \in Nat /\ b * P <= P
      OBVIOUS
    <3>. QED  BY <2>3, <2>4, <2>5, <3>1
  <2>. QED  BY <2>1, <2>2, <2>5, <2>6
<1>8. Nat \subseteq S
  <2>. HIDE DEF S
  <2>. QED  BY <1>6, <1>7, Induction
<1>. QED  BY <1>1, <1>5, <1>8

-----------------------------------------------------------------------------
LEMMA InitSignInv == Init => SignInv
  BY DEF Init, SignInv, IndexType, AddressOfPlace, RootOfPlace, CertifiedByPlace,
         RevealedByPlace, Signing

\* Steps that end or keep away from signing disturb no part of the invariant.
LEMMA AwayFromSigning ==
  ASSUME SignInv, certified' = certified, revealed' = revealed, ~Signing'
  PROVE  SignInv'
<1>1. IndexType' /\ AddressOfPlace' /\ RootOfPlace'
  BY DEF IndexType, AddressOfPlace, RootOfPlace, Signing
<1>2. CertifiedByPlace' /\ RevealedByPlace'
  BY DEF SignInv, CertifiedByPlace, RevealedByPlace
<1>. QED  BY <1>1, <1>2 DEF SignInv

LEMMA SignInvSign ==
  ASSUME SignInv, NEW k \in Keys, NEW m \in Msgs, Sign(k, m)
  PROVE  SignInv'
<1>1. pc' = "fors" /\ layer' = 0 /\ certified' = certified /\ revealed' = revealed
  BY DEF Sign, SetUp
<1>2. PICK d \in Digests : /\ mhash' = d.mhash
                           /\ tree' = MaskedTree(d) /\ idxLeaf' = MaskedLeaf(d)
  BY DEF Sign, SetUp, HashMessage
<1>3. tree' \in Nat /\ idxLeaf' \in 0..(2 ^ H - 1)
  <2>1. idxLeaf' \in 0..(2 ^ H - 1)
    BY <1>2, SphincsAssumption, Powers, DivMod DEF MaskedLeaf
  <2>2. tree' \in Nat
    <3>1. d.tree % 2 ^ TreeBits \in Nat
      <4>. DEFINE P == 2 ^ TreeBits
      <4>1. P \in Nat \ {0} /\ d.tree \in Nat
        BY SphincsAssumption, Powers
      <4>. HIDE DEF P
      <4>2. d.tree % P \in Nat
        BY <4>1
      <4>. QED  BY <4>2 DEF P
    <3>. QED  BY <1>2, <3>1 DEF MaskedTree
  <2>. QED  BY <2>1, <2>2
<1>4. IndexType'
  BY <1>1, <1>2, <1>3 DEF IndexType
<1>5. AddressOfPlace'
  <2>1. wotsAddr' = SetKeypair(SetTree(SetType(ZeroAddr, "WOTS"), tree'), idxLeaf')
        /\ treeAddr' = SetType(ZeroAddr, "HASHTREE")
    BY DEF Sign, SetUp
  <2>2. wotsAddr' = WotsAt(0, tree', idxLeaf')
    BY <2>1, AddrFields, PlaceFields
  <2>3. SetTree(SetLayer(treeAddr', layer'), tree') = TreeAddrAt(layer', tree')
    BY <1>1, <2>1, AddrFields DEF TreeAddrAt, HeightLeft
  <2>. QED  BY <1>1, <2>2, <2>3 DEF AddressOfPlace
<1>6. RootOfPlace'
  BY <1>1 DEF RootOfPlace
<1>7. CertifiedByPlace' /\ RevealedByPlace'
  BY <1>1 DEF SignInv, CertifiedByPlace, RevealedByPlace
<1>. QED  BY <1>4, <1>5, <1>6, <1>7 DEF SignInv

LEMMA SignInvFors ==
  ASSUME SignInv, SignFors
  PROVE  SignInv'
<1>1. /\ pc = "fors" /\ pc' = "layer" /\ layer = 0 /\ wotsAddr = WotsAt(0, tree, idxLeaf)
      /\ UNCHANGED << key, mhash, tree, idxLeaf, layer, wotsAddr, treeAddr, certified >>
  BY DEF SignFors, SignInv, AddressOfPlace
<1>2. IndexType'
  BY <1>1 DEF SignInv, IndexType, Signing
<1>3. AddressOfPlace'
  BY <1>1 DEF SignInv, AddressOfPlace, Signing
<1>4. RootOfPlace'
  <2>1. root' = ForsSign(key, mhash, wotsAddr).pk
    BY DEF SignFors
  <2>2. root' = ForsRootAt(key, tree, idxLeaf)
    BY <1>1, <2>1 DEF ForsSign, ForsRootAt
  <2>. QED  BY <1>1, <2>2 DEF RootOfPlace, SignedAt
<1>5. CertifiedByPlace'
  BY <1>1 DEF SignInv, CertifiedByPlace
<1>6. RevealedByPlace'
  <2>. DEFINE F == ForsSign(key, mhash, wotsAddr)
              I == MessageToIndices(mhash)
  <2>1. revealed' = revealed \cup
          {[at |-> << key, tree, idxLeaf, x, I[x] >>, sk |-> F.sig[x].sk] : x \in 0..(K - 1)}
    BY DEF SignFors
  <2>2. ASSUME NEW x \in 0..(K - 1)
        PROVE  /\ F.sig[x].sk = ForsSk(key, WotsAt(0, tree, idxLeaf), I[x] + IdxOffset(x))
               /\ I[x] \in 0..(2 ^ A - 1)
    <3>1. F.sig[x].sk = ForsSk(key, WotsAt(0, tree, idxLeaf), I[x] + IdxOffset(x))
      BY <1>1 DEF ForsSign
    <3>2. PICK d \in Digests : mhash = d.mhash
      BY <1>1 DEF SignInv, IndexType, Signing
    <3>3. I[x] \in 0..(2 ^ A - 1)
      BY <3>2, IndicesType
    <3>. QED  BY <3>1, <3>3
  <2>. HIDE DEF F, I
  <2>3. \A s \in revealed : s \in revealed' BY <2>1
  <2>. QED  BY <2>1, <2>2, <1>1 DEF SignInv, RevealedByPlace
<1>. QED  BY <1>2, <1>3, <1>4, <1>5, <1>6 DEF SignInv

LEMMA SignInvLayer ==
  ASSUME SignInv, SignLayer
  PROVE  SignInv'
<1>1. /\ pc = "layer" /\ tree \in Nat /\ idxLeaf \in 0..(2 ^ H - 1) /\ layer \in Nat
      /\ SetTree(SetLayer(treeAddr, layer), tree) = TreeAddrAt(layer, tree)
      /\ \E l, t, f : wotsAddr = WotsAt(l, t, f)
      /\ root = SignedAt(key, layer, tree, idxLeaf)
  BY DEF SignLayer, SignInv, IndexType, AddressOfPlace, RootOfPlace, Signing
<1>2. /\ tree' = tree \div 2 ^ H /\ idxLeaf' = tree % 2 ^ H /\ layer' = layer + 1
      /\ UNCHANGED << key, mhash, revealed >>
      /\ pc' = "idle" \/ pc' = "layer"
  BY DEF SignLayer, NextLayer
<1>3. /\ tree' \in Nat /\ idxLeaf' \in 0..(2 ^ H - 1) /\ tree' * 2 ^ H + idxLeaf' = tree
  BY <1>1, <1>2, Powers, DivMod
<1>4. LayerAddr = TreeAddrAt(layer, tree)
  BY <1>1 DEF LayerAddr
<1>5. KeypairAddr = WotsAt(layer, tree, idxLeaf)
  <2>1. PICK l, t, f : wotsAddr = WotsAt(l, t, f)
    BY <1>1
  <2>2. CopySubtree(wotsAddr, TreeAddrAt(layer, tree)) = Addr(layer, tree, "WOTS", f, 0, 0)
    BY <2>1, CopyFields, PlaceFields DEF TreeAddrAt
  <2>. QED  BY <1>4, <2>2, AddrFields, PlaceFields DEF KeypairAddr
<1>6. IndexType'
  BY <1>2, <1>3, <1>1 DEF SignInv, IndexType, Signing
<1>7. AddressOfPlace'
  <2>1. wotsAddr' = WotsAt(layer, tree, idxLeaf) /\ treeAddr' = RootAddr(TreeAddrAt(layer, tree))
    BY <1>4, <1>5 DEF SignLayer
  <2>2. SetTree(SetLayer(treeAddr', layer'), tree') = TreeAddrAt(layer', tree')
    <3>1. treeAddr' = Addr(layer, tree, "HASHTREE", 0, H, 0)
      BY <2>1, AddrFields DEF TreeAddrAt, RootAddr, NodeAddr
    <3>2. HeightLeft(layer') = H
      BY <1>1, <1>2 DEF HeightLeft
    <3>. QED  BY <3>1, <3>2, AddrFields DEF TreeAddrAt
  <2>. QED  BY <1>2, <2>1, <2>2 DEF AddressOfPlace, Signing
<1>8. RootOfPlace'
  <2>1. root' = TreeRoot(Subtree(key, WotsAt(layer, tree, idxLeaf), TreeAddrAt(layer, tree)), H)
    BY <1>4, <1>5 DEF SignLayer, MerkleSign
  <2>2. root' = SubtreeRootAt(key, layer, tree)
    BY <2>1, SubtreeOfPlace DEF SubtreeRootAt
  <2>. QED  BY <1>1, <1>2, <1>3, <2>2 DEF RootOfPlace, SignedAt
<1>9. CertifiedByPlace'
  <2>1. WotsAddr(KeypairAddr, idxLeaf) = WotsAt(layer, tree, idxLeaf)
    BY <1>5, AddrFields, CopyFields, PlaceFields DEF WotsAddr
  <2>2. certified' = certified \cup {[at |-> << key, layer, tree, idxLeaf >>, root |-> root,
                                      addr |-> WotsAt(layer, tree, idxLeaf)]}
    BY <2>1 DEF SignLayer
  <2>. QED  BY <1>1, <2>2 DEF SignInv, CertifiedByPlace
<1>10. RevealedByPlace'
  BY <1>2 DEF SignInv, RevealedByPlace
<1>. QED  BY <1>6, <1>7, <1>8, <1>9, <1>10 DEF SignInv

LEMMA NextSignInv == SignInv /\ [Next]_vars => SignInv'
<1>. SUFFICES ASSUME SignInv, [Next]_vars PROVE SignInv'
  OBVIOUS
<1>1. ASSUME NEW k \in Keys, KeyPair(k) PROVE SignInv'
  BY <1>1, AwayFromSigning DEF KeyPair, history, Signing
<1>2. ASSUME NEW k \in Keys, Open(k) PROVE SignInv'
  BY <1>2, AwayFromSigning DEF Open, Signing
<1>3. ASSUME NEW k \in Keys, OpenShort(k) PROVE SignInv'
  BY <1>3, AwayFromSigning DEF OpenShort, history, Signing
<1>4. ASSUME NEW k \in Keys, NEW m \in Msgs, Sign(k, m) PROVE SignInv'
  BY <1>4, SignInvSign
<1>5. CASE SignFors
  BY <1>5, SignInvFors
<1>6. CASE SignLayer
  BY <1>6, SignInvLayer
<1>7. CASE OpenFors
  BY <1>7, AwayFromSigning DEF OpenFors, history, Signing
<1>8. CASE OpenLayer
  <2>1. UNCHANGED << certified, revealed >> /\ (pc' = "compare" \/ pc' = "open-layer")
    BY <1>8 DEF OpenLayer, history
  <2>. QED  BY <2>1, AwayFromSigning DEF Signing
<1>9. CASE Compare
  BY <1>9, AwayFromSigning DEF Compare, history, Signing
<1>10. CASE UNCHANGED vars
  BY <1>10 DEF vars, locals, history, SignInv, IndexType, AddressOfPlace, RootOfPlace,
               CertifiedByPlace, RevealedByPlace, Signing
<1>. QED
  BY <1>1, <1>2, <1>3, <1>4, <1>5, <1>6, <1>7, <1>8, <1>9, <1>10 DEF Next

LEMMA SignInvariant == Spec => []SignInv
  BY InitSignInv, NextSignInv, PTL DEF Spec

-----------------------------------------------------------------------------
\* Whatever messages are signed, each one-time key signs one root.
THEOREM OneTime == Spec => []OneTimeKeysSignOnce
<1>1. SignInv => OneTimeKeysSignOnce
  <2>. SUFFICES ASSUME SignInv, NEW c \in certified, NEW e \in certified,
                       c.at[1] = e.at[1], c.at = e.at \/ c.addr = e.addr
                PROVE  c.at = e.at /\ c.root = e.root
    BY DEF OneTimeKeysSignOnce
  <2>1. PICK k, l, t, f : c = [at |-> << k, l, t, f >>, root |-> SignedAt(k, l, t, f),
                               addr |-> WotsAt(l, t, f)]
    BY DEF SignInv, CertifiedByPlace
  <2>2. PICK k2, l2, t2, f2 : e = [at |-> << k2, l2, t2, f2 >>, root |-> SignedAt(k2, l2, t2, f2),
                                   addr |-> WotsAt(l2, t2, f2)]
    BY DEF SignInv, CertifiedByPlace
  <2>3. k = k2
    BY <2>1, <2>2
  <2>4. WotsAt(l, t, f) = WotsAt(l2, t2, f2) => l = l2 /\ t = t2 /\ f = f2
    BY PlaceFields, AddrInjective
  <2>5. l = l2 /\ t = t2 /\ f = f2
    BY <2>1, <2>2, <2>4
  <2>. QED  BY <2>1, <2>2, <2>3, <2>5
<1>. QED  BY <1>1, SignInvariant, PTL

\* A few-time secret given away belongs to one leaf of one tree of one key.
THEOREM SecretsApart == Spec => []SecretsStayApart
<1>1. SignInv => SecretsStayApart
  <2>. SUFFICES ASSUME SignInv, NEW s \in revealed, NEW r \in revealed
                PROVE  s.sk = r.sk <=> s.at = r.at
    BY DEF SecretsStayApart
  <2>1. PICK k, t, f : \E x \in 0..(K - 1), i \in 0..(2 ^ A - 1) :
          s = [at |-> << k, t, f, x, i >>, sk |-> ForsSk(k, WotsAt(0, t, f), i + IdxOffset(x))]
    BY DEF SignInv, RevealedByPlace
  <2>2. PICK x \in 0..(K - 1), i \in 0..(2 ^ A - 1) :
          s = [at |-> << k, t, f, x, i >>, sk |-> ForsSk(k, WotsAt(0, t, f), i + IdxOffset(x))]
    BY <2>1
  <2>3. PICK k2, t2, f2 : \E y \in 0..(K - 1), j \in 0..(2 ^ A - 1) :
          r = [at |-> << k2, t2, f2, y, j >>, sk |-> ForsSk(k2, WotsAt(0, t2, f2), j + IdxOffset(y))]
    BY DEF SignInv, RevealedByPlace
  <2>4. PICK y \in 0..(K - 1), j \in 0..(2 ^ A - 1) :
          r = [at |-> << k2, t2, f2, y, j >>, sk |-> ForsSk(k2, WotsAt(0, t2, f2), j + IdxOffset(y))]
    BY <2>3
  <2>5. ASSUME s.sk = r.sk PROVE k = k2 /\ t = t2 /\ f = f2 /\ x = y /\ i = j
    <3>1. ForsSk(k, WotsAt(0, t, f), i + IdxOffset(x)) =
            ForsSk(k2, WotsAt(0, t2, f2), j + IdxOffset(y))
      BY <2>2, <2>4, <2>5
    <3>2. /\ k = k2
          /\ SetTreeIndex(ForsAddr(WotsAt(0, t, f), "FORSPRF"), i + IdxOffset(x)) =
             SetTreeIndex(ForsAddr(WotsAt(0, t2, f2), "FORSPRF"), j + IdxOffset(y))
      BY <3>1 DEF ForsSk, Prf, Thash
    <3>3. t = t2 /\ f = f2 /\ i + IdxOffset(x) = j + IdxOffset(y)
      <4>1. ASSUME NEW u, NEW v, NEW n
            PROVE  SetTreeIndex(ForsAddr(WotsAt(0, u, v), "FORSPRF"), n) =
                   Addr(0, u, "FORSPRF", v, 0, n)
        <5>1. CopyKeypair(ZeroAddr, WotsAt(0, u, v)) = Addr(0, u, "WOTS", v, 0, 0)
          <6>1. CopySubtree(ZeroAddr, WotsAt(0, u, v)) = Addr(0, u, "WOTS", 0, 0, 0)
            BY AddrFields, CopyFields, PlaceFields
          <6>2. WotsAt(0, u, v).kp = v
            BY PlaceFields DEF Addr
          <6>. QED  BY <6>1, <6>2, AddrFields DEF CopyKeypair
        <5>. QED  BY <5>1, AddrFields DEF ForsAddr
      <4>. QED  BY <3>2, <4>1, AddrInjective
    <3>4. x = y /\ i = j
      BY <3>3, IndexApart, Powers, ForsAssumption DEF IdxOffset
    <3>. QED  BY <3>2, <3>3, <3>4
  <2>6. ASSUME s.at = r.at PROVE k = k2 /\ t = t2 /\ f = f2 /\ x = y /\ i = j
    BY <2>2, <2>4, <2>6
  <2>. QED  BY <2>2, <2>4, <2>5, <2>6
<1>. QED  BY <1>1, SignInvariant, PTL

-----------------------------------------------------------------------------
(* What crypto_sign_open meets *)

\* A digest taken apart: the tree and the leaf in it, layer by layer.
TreeOf(d, l) == MaskedTree(d) \div 2 ^ (H * l)
LeafOf(d, l) == IF l = 0 THEN MaskedLeaf(d) ELSE TreeOf(d, l - 1) % 2 ^ H

\* The parts of a signature, each a function of its place.
ForsSigAt(k, d) == ForsSign(k, d.mhash, WotsAt(0, TreeOf(d, 0), LeafOf(d, 0))).sig

LayerSigAt(k, l, t, f) ==
  LET s == MerkleSign(k, SignedAt(k, l, t, f), WotsAt(l, t, f), TreeAddrAt(l, t), f)
  IN  [wots |-> s.sig, path |-> s.path]

\* A signature under way: fors is its first part, n its layers.
PartSig(k, m, d, fors, n) ==
  [signer |-> k, r |-> Random(k, m), fors |-> fors,
   layers |-> [x \in 1..n |-> LayerSigAt(k, x - 1, TreeOf(d, x - 1), LeafOf(d, x - 1))],
   m |-> m]

\* hash_message gave d for the message m of the key k.
HashedTo(k, m, d) ==
  << Random(k, m), k, m >> \in DOMAIN digestOf /\ digestOf[<< Random(k, m), k, m >>] = d

IsWhole(k, m, d) == HashedTo(k, m, d) /\ sm = PartSig(k, m, d, ForsSigAt(k, d), D)

\* tree and idxLeaf are those of the layer.
AtDigest(d) ==
  mhash = d.mhash /\ tree = TreeOf(d, layer) /\ idxLeaf = LeafOf(d, layer)

Opening == pc \in {"open-fors", "open-layer", "compare"}

PublicKeys == \A k \in Keys : pkRoot[k] # Unset => pkRoot[k] = MerkleGenRoot(k)

SignatureInHand ==
  /\ Signing =>
       \E m \in Msgs, d \in Digests :
         /\ key \in Keys /\ layer \in Layers /\ AtDigest(d) /\ HashedTo(key, m, d)
         /\ sm = PartSig(key, m, d, IF pc = "fors" THEN << >> ELSE ForsSigAt(key, d), layer)
  /\ ~Signing => sm = NoSignature \/ \E k \in Keys, m \in Msgs, d \in Digests : IsWhole(k, m, d)

\* What is opened, and the addresses, with what the chains leave in them.
OpenArguments ==
  Opening =>
    /\ key \in Keys /\ sm # NoSignature /\ pkRoot[key] # Unset
    /\ layer \in 0..D /\ (pc # "compare" => layer \in Layers) /\ (pc = "open-fors" => layer = 0)
    /\ SetTree(SetLayer(treeAddr, layer), tree) = TreeAddrAt(layer, tree)
    /\ \E l, t, f, b : \E n \in 0..(ByteSize - 1) : wotsAddr = Addr(l, t, "WOTS", f, b, n)
    /\ pc = "open-fors" => wotsAddr = WotsAt(0, tree, idxLeaf)

\* Under the signer's key the verifier has in hand what the signer had.
OpensRight ==
  Opening => \A k \in Keys, m \in Msgs, d \in Digests :
    IsWhole(k, m, d) /\ key = k =>
      /\ AtDigest(d)
      /\ pc = "open-layer" => root = SignedAt(key, layer, tree, idxLeaf)
      /\ pc = "compare" => root = SubtreeRootAt(key, D - 1, 0)

\* Under another key the root has a child that the signer made.
OpensWrong ==
  pc = "compare" /\ key # sm.signer =>
    \E x \in 1..2 : root.in[x].seed = sm.signer

OutcomeLast == pc # "idle" => outcome = "none"

OpenInv ==
  /\ PublicKeys /\ SignatureInHand /\ OpenArguments /\ OpensRight /\ OpensWrong
  /\ OutcomeLast /\ OpensUnderItsKey

\* The place of a digest in each layer: the tree is a leaf of the layer above.
LEMMA PlacesOfDigest ==
  ASSUME NEW d \in Digests, NEW l \in Layers
  PROVE  /\ TreeOf(d, l) \in Nat /\ LeafOf(d, l) \in 0..(2 ^ H - 1)
         /\ TreeOf(d, l + 1) = TreeOf(d, l) \div 2 ^ H
         /\ LeafOf(d, l + 1) = TreeOf(d, l) % 2 ^ H
<1>1. D \in Nat \ {0} /\ H \in Nat /\ l \in Nat /\ d.tree \in Nat /\ d.leaf \in Nat
  BY SphincsAssumption DEF Layers
<1>2. MaskedTree(d) \in Nat
  <2>. DEFINE P == 2 ^ TreeBits
  <2>1. P \in Nat \ {0}
    BY Powers
  <2>. HIDE DEF P
  <2>2. d.tree % P \in Nat
    BY <1>1, <2>1
  <2>. QED  BY <2>2 DEF MaskedTree, P
<1>3. \A m \in Nat : H * m \in Nat /\ TreeOf(d, m) \in Nat
  BY <1>1, <1>2, ShiftType DEF TreeOf
<1>4. TreeOf(d, l + 1) = TreeOf(d, l) \div 2 ^ H
  <2>1. H * (l + 1) = H * l + H /\ H * l \in Nat
    BY <1>1
  <2>. DEFINE n == H * l
              q == MaskedTree(d)
  <2>2. n \in Nat /\ q \in Nat /\ H \in Nat
    BY <1>1, <1>2, <2>1
  <2>. HIDE DEF n, q
  <2>3. q \div 2 ^ (n + H) = (q \div 2 ^ n) \div 2 ^ H
    BY <2>2, ShiftTwice, Zenon
  <2>4. MaskedTree(d) \div 2 ^ (H * l + H) = (MaskedTree(d) \div 2 ^ (H * l)) \div 2 ^ H
    BY <2>3, Zenon DEF n, q
  <2>. QED  BY <2>1, <2>4, Zenon DEF TreeOf
<1>5. LeafOf(d, l + 1) = TreeOf(d, l) % 2 ^ H
  BY <1>1 DEF LeafOf
<1>6. LeafOf(d, l) \in 0..(2 ^ H - 1)
  <2>. DEFINE P == 2 ^ H
  <2>1. P \in Nat \ {0}
    BY Powers
  <2>2. LeafOf(d, l) = IF l = 0 THEN d.leaf % P ELSE TreeOf(d, l - 1) % P
    BY DEF LeafOf, MaskedLeaf
  <2>. HIDE DEF P
  <2>3. l # 0 => TreeOf(d, l - 1) \in Nat
    BY <1>1, <1>3
  <2>4. \A x \in Nat : x % P \in 0..(P - 1)
    BY <2>1
  <2>5. LeafOf(d, l) \in 0..(P - 1)
    BY <1>1, <2>2, <2>3, <2>4
  <2>. QED  BY <2>5 DEF P
<1>. QED  BY <1>1, <1>3, <1>4, <1>5, <1>6

\* The lowest layer has the whole digest, the uppermost one tree.
LEMMA EndsOfDigest ==
  ASSUME NEW d \in Digests
  PROVE  /\ TreeOf(d, 0) = MaskedTree(d) /\ LeafOf(d, 0) = MaskedLeaf(d)
         /\ TreeOf(d, D - 1) = 0
<1>1. D \in Nat \ {0} /\ H \in Nat /\ d.tree \in Nat /\ H * 0 = 0 /\ 2 ^ 0 = 1
  BY SphincsAssumption
<1>. DEFINE P == 2 ^ TreeBits
            q == MaskedTree(d)
<1>2. P \in Nat \ {0}
  BY Powers
<1>3. q = IF D = 1 THEN 0 ELSE d.tree % P
  BY DEF MaskedTree
<1>. HIDE DEF P
<1>4. q \in Nat /\ q < P
  BY <1>1, <1>2, <1>3
<1>5. TreeOf(d, 0) = q
  <2>. HIDE DEF q
  <2>1. TreeOf(d, 0) = q \div 1
    <3>1. TreeOf(d, 0) = q \div 2 ^ (H * 0)
      BY DEF TreeOf, q
    <3>. QED  BY <1>1, <3>1, Zenon
  <2>. QED  BY <1>4, <2>1
<1>6. TreeOf(d, D - 1) = q \div P
  BY DEF TreeOf, P, TreeBits
<1>. HIDE DEF q
<1>7. q \div P = 0
  BY <1>2, <1>4
<1>. QED  BY <1>5, <1>6, <1>7 DEF q, LeafOf

-----------------------------------------------------------------------------
(* What is made at a place, and what is found there *)

\* The few-time signature opens.
LEMMA ForsOpens ==
  ASSUME NEW k, NEW a, NEW d \in Digests
  PROVE  ForsPkFromSig(k, ForsSign(k, d.mhash, a).sig, d.mhash, a) =
         ForsPk(k, a, [x \in 0..(K - 1) |-> TreeRoot(ForsTree(k, a, x), A)])
<1>. DEFINE indices == MessageToIndices(d.mhash)
            sig     == ForsSign(k, d.mhash, a).sig
            forsAddr == ForsAddr(a, "FORSTREE")
            leaf(x) == ForsSkToLeaf(k, a, indices[x] + IdxOffset(x), sig[x].sk)
            found   == [x \in 0..(K - 1) |->
                          ComputeRoot(k, forsAddr, leaf(x), indices[x], IdxOffset(x),
                                      sig[x].path, A)]
            roots   == [x \in 0..(K - 1) |-> TreeRoot(ForsTree(k, a, x), A)]
<1>1. ASSUME NEW x \in 0..(K - 1) PROVE found[x] = roots[x]
  <2>. DEFINE leaves == [i \in 0..(2 ^ A - 1) |-> ForsLeaf(k, a, i + IdxOffset(x))]
  <2>1. A \in Nat /\ indices[x] \in 0..(2 ^ A - 1)
    BY ForsAssumption, IndicesType
  <2>2. ForsTree(k, a, x) = TreeLevels(k, forsAddr, leaves, A, IdxOffset(x))
    BY DEF ForsTree
  <2>3. /\ sig[x].sk = ForsSk(k, a, indices[x] + IdxOffset(x))
        /\ sig[x].path = AuthPath(ForsTree(k, a, x), A, indices[x])
    BY DEF ForsSign
  <2>4. leaf(x) = leaves[indices[x]]
    BY <2>1, <2>3 DEF ForsLeaf
  <2>5. \A h \in 0..(A - 1) : sig[x].path[h] = ForsTree(k, a, x)[h][Sibling(indices[x] \div 2 ^ h)]
    BY <2>3 DEF AuthPath
  <2>6. found[x] = ComputeRoot(k, forsAddr, leaves[indices[x]], indices[x], IdxOffset(x),
                               sig[x].path, A)
    BY <2>4
  <2>. HIDE DEF leaves, found, sig, indices, forsAddr, leaf
  <2>7. ComputeRoot(k, forsAddr, leaves[indices[x]], indices[x], IdxOffset(x), sig[x].path, A) =
          TreeRoot(TreeLevels(k, forsAddr, leaves, A, IdxOffset(x)), A)
    BY <2>1, <2>2, <2>5, PathLeadsToRoot
  <2>. QED  BY <2>2, <2>6, <2>7
<1>2. found = roots
  <2>1. found = [x \in 0..(K - 1) |-> found[x]] /\ roots = [x \in 0..(K - 1) |-> roots[x]]
    OBVIOUS
  <2>. HIDE DEF found, roots
  <2>. QED  BY <1>1, <2>1
<1>3. ForsPkFromSig(k, sig, d.mhash, a) = ForsPk(k, a, found)
  BY DEF ForsPkFromSig
<1>. QED  BY <1>2, <1>3, Zenon

\* The hash address is written over, whatever was left in it.
LEMMA HashFields ==
  ASSUME NEW l, NEW t, NEW y, NEW f, NEW b, NEW n \in 0..(ByteSize - 1), NEW x \in Nat
  PROVE  SetHash(Addr(l, t, y, f, b, n), x) = Addr(l, t, y, f, b, x)
<1>1. (n - (n % ByteSize)) + x = x
  BY DEF ByteSize
<1>2. Addr(l, t, y, f, b, n).index = n
  BY DEF Addr
<1>. QED  BY <1>1, <1>2 DEF SetHash, Addr

LEMMA ChainFields ==
  ASSUME NEW l, NEW t, NEW y, NEW f, NEW b, NEW n, NEW c
  PROVE  SetChain(Addr(l, t, y, f, b, n), c) = Addr(l, t, y, f, c, n)
  BY DEF SetChain, Addr

\* A chain of the signature goes on to the end that the public key has.
LEMMA ChainOpens ==
  ASSUME NEW k, NEW l, NEW t, NEW f, NEW b, NEW n \in 0..(ByteSize - 1), NEW c,
         NEW length \in 0..(W - 1)
  PROVE  ChainEnd(k, Addr(l, t, "WOTS", f, b, n), c,
                  ChainValue(k, WotsAt(l, t, f), c, length), length) =
         ChainValue(k, WotsAt(l, t, f), c, W - 1)
<1>. DEFINE a == Addr(l, t, "WOTS", f, c, 0)
            e == Addr(l, t, "WOTS", f, c, n)
            x == ChainStart(k, WotsAt(l, t, f), c)
<1>1. 0 \in 0..(ByteSize - 1)
  BY DEF ByteSize
<1>2. \A m : ChainValue(k, WotsAt(l, t, f), c, m) = GenChain(k, a, x, 0, m)
  <2>1. SetType(SetHash(SetChain(WotsAt(l, t, f), c), 0), "WOTS") = a
    <3>1. WotsAt(l, t, f) = Addr(l, t, "WOTS", f, 0, 0)
      BY PlaceFields
    <3>2. SetChain(Addr(l, t, "WOTS", f, 0, 0), c) = Addr(l, t, "WOTS", f, c, 0)
      BY ChainFields
    <3>3. SetHash(Addr(l, t, "WOTS", f, c, 0), 0) = Addr(l, t, "WOTS", f, c, 0)
      BY <1>1, HashFields, 0 \in Nat
    <3>. QED  BY <3>1, <3>2, <3>3, AddrFields
  <2>. HIDE DEF a, x
  <2>. QED  BY <2>1 DEF ChainValue, x
<1>3. \A m \in Nat : SetHash(e, m) = SetHash(a, m)
  BY <1>1, HashFields
<1>4. \A v : ChainEnd(k, Addr(l, t, "WOTS", f, b, n), c, v, length) =
               GenChain(k, e, v, length, W - 1 - length)
  BY ChainFields DEF ChainEnd
<1>. HIDE DEF a, e, x
<1>5. GenChain(k, e, GenChain(k, a, x, 0, length), length, W - 1 - length) =
        GenChain(k, a, x, 0, W - 1)
  BY <1>3, ChainsJoin
<1>. QED  BY <1>2, <1>4, <1>5

\* The leaf that the verifier makes of a one-time signature.
LeafFound(k, a, bytes, wots) ==
  Thash(k, SetType(CopyKeypair(ZeroAddr, a), "WOTSPK"),
        [c \in 1..WotsLen |-> ChainEnd(k, a, c - 1, wots[c - 1], ChainLengths(bytes)[c - 1])])

\* The address of a chain at a leaf is that of the leaf.
LEMMA WotsAddrAt ==
  ASSUME NEW l, NEW t, NEW f, NEW leaf
  PROVE  WotsAddr(WotsAt(l, t, f), leaf) = WotsAt(l, t, leaf)
  BY AddrFields, CopyFields, PlaceFields DEF WotsAddr

\* The verifier comes from a signed root to the leaf that signed it.
LEMMA LeafOpens ==
  ASSUME NEW k, NEW l, NEW t, NEW f, NEW b, NEW n \in 0..(ByteSize - 1),
         BytesOf(SignedAt(k, l, t, f)) \in Message
  PROVE  LeafFound(k, Addr(l, t, "WOTS", f, b, n), BytesOf(SignedAt(k, l, t, f)),
                   LayerSigAt(k, l, t, f).wots) =
         WotsLeaf(k, WotsAt(l, t, f), f)
<1>. DEFINE bytes   == BytesOf(SignedAt(k, l, t, f))
            lengths == ChainLengths(bytes)
            a       == Addr(l, t, "WOTS", f, b, n)
            wots    == LayerSigAt(k, l, t, f).wots
            place   == WotsAt(l, t, f)
<1>1. ASSUME NEW c \in 1..WotsLen
      PROVE  ChainEnd(k, a, c - 1, wots[c - 1], lengths[c - 1]) = ChainValue(k, place, c - 1, W - 1)
  <2>1. c - 1 \in 0..(WotsLen - 1)
    <3>1. WotsLen \in Nat
      BY Len1Type, WotsAssumption DEF WotsLen
    <3>. QED  BY <3>1
  <2>2. wots[c - 1] = ChainValue(k, place, c - 1, lengths[c - 1])
    BY <2>1, WotsAddrAt DEF LayerSigAt, MerkleSign
  <2>3. lengths[c - 1] \in 0..(W - 1)
    BY <2>1, LengthsType
  <2>. HIDE DEF wots, lengths, place
  <2>4. ChainEnd(k, a, c - 1, ChainValue(k, place, c - 1, lengths[c - 1]), lengths[c - 1]) =
          ChainValue(k, place, c - 1, W - 1)
    BY <2>3, ChainOpens DEF place
  <2>. QED  BY <2>2, <2>4
<1>2. SetType(CopyKeypair(ZeroAddr, a), "WOTSPK") = WotsPkAddr(place, f)
  <2>1. CopyKeypair(ZeroAddr, a) = Addr(l, t, "WOTS", f, 0, 0)
    <3>1. CopySubtree(ZeroAddr, a) = Addr(l, t, "WOTS", 0, 0, 0)
      BY AddrFields, CopyFields
    <3>2. a.kp = f
      BY DEF Addr
    <3>. QED  BY <3>1, <3>2, AddrFields DEF CopyKeypair
  <2>. QED  BY <2>1, WotsAddrAt, PlaceFields DEF WotsPkAddr
<1>3. LeafFound(k, a, bytes, wots) =
        Thash(k, SetType(CopyKeypair(ZeroAddr, a), "WOTSPK"),
              [c \in 1..WotsLen |-> ChainEnd(k, a, c - 1, wots[c - 1], lengths[c - 1])])
  BY DEF LeafFound
<1>4. WotsLeaf(k, place, f) =
        Thash(k, WotsPkAddr(place, f), [c \in 1..WotsLen |-> ChainValue(k, place, c - 1, W - 1)])
  BY WotsAddrAt DEF WotsLeaf
<1>. HIDE DEF a, wots, lengths, place, bytes
<1>5. LeafFound(k, a, bytes, wots) = WotsLeaf(k, place, f)
  BY <1>1, <1>2, <1>3, <1>4
<1>. QED  BY <1>5 DEF a, wots, bytes, place

\* From that leaf, with the path, it comes to the root of the leaf's tree.
LEMMA LayerOpens ==
  ASSUME NEW k, NEW l, NEW t, NEW f \in 0..(2 ^ H - 1)
  PROVE  ComputeRoot(k, TreeAddrAt(l, t), WotsLeaf(k, WotsAt(l, t, f), f), f, 0,
                     LayerSigAt(k, l, t, f).path, H) =
         SubtreeRootAt(k, l, t)
<1>. DEFINE a      == TreeAddrAt(l, t)
            leaves == [leaf \in 0..(2 ^ H - 1) |-> WotsLeaf(k, WotsAt(l, t, f), leaf)]
            levels == TreeLevels(k, a, leaves, H, 0)
            path   == LayerSigAt(k, l, t, f).path
<1>1. H \in Nat
  BY SphincsAssumption
<1>2. Subtree(k, WotsAt(l, t, f), a) = levels
  <2>1. SetType(a, "HASHTREE") = a
    BY AddrFields DEF TreeAddrAt
  <2>. QED  BY <2>1 DEF Subtree
<1>3. path = AuthPath(levels, H, f)
  BY <1>2 DEF LayerSigAt, MerkleSign
<1>4. leaves[f] = WotsLeaf(k, WotsAt(l, t, f), f)
  OBVIOUS
<1>5. SubtreeRootAt(k, l, t) = TreeRoot(levels, H)
  BY <1>2, SubtreeOfPlace DEF SubtreeRootAt
<1>. HIDE DEF leaves, a, path
<1>6. \A h \in 0..(H - 1) : path[h] = levels[h][Sibling(f \div 2 ^ h)]
  BY <1>3 DEF AuthPath
<1>7. ComputeRoot(k, a, leaves[f], f, 0, path, H) = TreeRoot(levels, H)
  BY <1>1, <1>6, PathLeadsToRoot
<1>. QED  BY <1>4, <1>5, <1>7 DEF a, path

\* The uppermost tree is the one the public key has the root of.
LEMMA TopIsPublic ==
  ASSUME NEW k
  PROVE  SubtreeRootAt(k, D - 1, 0) = MerkleGenRoot(k)
<1>. DEFINE top    == SetLayer(ZeroAddr, D - 1)
            a      == SetType(top, "HASHTREE")
            b      == TreeAddrAt(D - 1, 0)
            leaves == [leaf \in 0..(2 ^ H - 1) |-> WotsLeaf(k, top, leaf)]
<1>1. H \in Nat
  BY SphincsAssumption
<1>2. top = PlaceAddr(D - 1, 0) /\ a = Addr(D - 1, 0, "HASHTREE", 0, 0, 0)
  BY AddrFields, PlaceFields
<1>3. SetType(b, "HASHTREE") = b
  BY AddrFields DEF TreeAddrAt
<1>4. \A h, i : NodeAddr(b, h, i) = NodeAddr(a, h, i)
  BY <1>2, AddrFields DEF NodeAddr, TreeAddrAt
<1>5. MerkleGenRoot(k) = TreeRoot(TreeLevels(k, a, leaves, H, 0), H)
  BY DEF MerkleGenRoot, Subtree
<1>6. SubtreeRootAt(k, D - 1, 0) = TreeRoot(TreeLevels(k, b, leaves, H, 0), H)
  BY <1>2, <1>3 DEF SubtreeRootAt, Subtree
<1>. HIDE DEF a, b, leaves
<1>7. TreeRoot(TreeLevels(k, b, leaves, H, 0), H) = TreeRoot(TreeLevels(k, a, leaves, H, 0), H)
  BY <1>1, <1>4, SameTree
<1>. QED  BY <1>5, <1>6, <1>7

\* A subtree is made of hashes of its key.
LEMMA SubtreeOfKey ==
  ASSUME NEW k, NEW wots, NEW a, NEW h \in 0..H, NEW i \in 0..(2 ^ (H - h) - 1)
  PROVE  Subtree(k, wots, a)[h][i].seed = k
<1>. DEFINE leaves == [leaf \in 0..(2 ^ H - 1) |-> WotsLeaf(k, wots, leaf)]
<1>1. H \in Nat
  BY SphincsAssumption
<1>2. \A j \in 0..(2 ^ H - 1) : leaves[j].seed = k
  BY DEF WotsLeaf, Thash
<1>3. Subtree(k, wots, a) = TreeLevels(k, SetType(a, "HASHTREE"), leaves, H, 0)
  BY DEF Subtree
<1>. HIDE DEF leaves
<1>4. TreeLevels(k, SetType(a, "HASHTREE"), leaves, H, 0)[h][i].seed = k
  BY <1>1, <1>2, NodesOfSeed
<1>. QED  BY <1>3, <1>4

\* The level below a root has two nodes.
LEMMA TwoBelow == H - 1 \in 0..H /\ 0..(2 ^ (H - (H - 1)) - 1) = 0..1
<1>1. H - (H - 1) = 1 /\ H - 1 \in 0..H
  BY SphincsAssumption
<1>2. 2 ^ 1 - 1 = 1
  OBVIOUS
<1>. QED  BY <1>1, <1>2, Zenon

\* Both children of the root in a public key are hashes of that key.
LEMMA PublicOfKey ==
  ASSUME NEW k, NEW x \in 1..2
  PROVE  MerkleGenRoot(k).in[x].seed = k
<1>. DEFINE top    == SetLayer(ZeroAddr, D - 1)
            levels == Subtree(k, top, top)
<1>1. levels[H - 1][0].seed = k /\ levels[H - 1][1].seed = k
  BY TwoBelow, SubtreeOfKey
<1>2. MerkleGenRoot(k).in = << levels[H - 1][0], levels[H - 1][1] >>
  <2>1. H \in Nat \ {0}
    BY SphincsAssumption
  <2>2. TreeRoot(levels, H).in = << levels[H - 1][0], levels[H - 1][1] >>
    <3>. DEFINE a      == SetType(top, "HASHTREE")
                leaves == [leaf \in 0..(2 ^ H - 1) |-> WotsLeaf(k, top, leaf)]
    <3>1. levels = TreeLevels(k, a, leaves, H, 0)
      BY DEF Subtree
    <3>. HIDE DEF a, leaves, levels
    <3>2. TreeRoot(TreeLevels(k, a, leaves, H, 0), H).in =
            << TreeLevels(k, a, leaves, H, 0)[H - 1][0], TreeLevels(k, a, leaves, H, 0)[H - 1][1] >>
      BY <2>1, RootOfTree
    <3>. QED  BY <3>1, <3>2
  <2>. QED  BY <2>2 DEF MerkleGenRoot
<1>. HIDE DEF levels
<1>. QED  BY <1>1, <1>2

\* The path in a signature ends with a hash of the signer's key.
LEMMA PathOfKey ==
  ASSUME NEW k, NEW l, NEW t, NEW f \in 0..(2 ^ H - 1)
  PROVE  LayerSigAt(k, l, t, f).path[H - 1].seed = k
<1>. DEFINE levels == Subtree(k, WotsAt(l, t, f), TreeAddrAt(l, t))
            j      == f \div 2 ^ (H - 1)
<1>1. H \in Nat /\ H - 1 \in 0..(H - 1)
  BY SphincsAssumption
<1>2. LayerSigAt(k, l, t, f).path[H - 1] = levels[H - 1][Sibling(j)]
  BY <1>1 DEF LayerSigAt, MerkleSign, AuthPath
<1>3. j \in 0..1
  BY <1>1, TwoBelow, Ancestor
<1>4. Sibling(j) \in 0..1
  <2>. HIDE DEF j
  <2>. QED  BY <1>3 DEF Sibling
<1>. HIDE DEF j
<1>5. levels[H - 1][Sibling(j)].seed = k
  BY <1>4, TwoBelow, SubtreeOfKey
<1>. QED  BY <1>2, <1>5

-----------------------------------------------------------------------------
(* The invariant of opening *)

\* The bytes of a root that is signed are N bytes.
BytesOfRoots ==
  \A k \in Keys, l \in Layers, t \in Nat, f \in 0..(2 ^ H - 1) :
    BytesOf(SignedAt(k, l, t, f)) \in Message

LEMMA PartFields ==
  ASSUME NEW k, NEW m, NEW d, NEW fors, NEW n
  PROVE  /\ PartSig(k, m, d, fors, n).signer = k /\ PartSig(k, m, d, fors, n).m = m
         /\ PartSig(k, m, d, fors, n).r = Random(k, m) /\ PartSig(k, m, d, fors, n).fors = fors
         /\ PartSig(k, m, d, fors, n).layers =
              [x \in 1..n |-> LayerSigAt(k, x - 1, TreeOf(d, x - 1), LeafOf(d, x - 1))]
  BY DEF PartSig

\* A message is hashed to the same each time.
LEMMA DigestKept ==
  ASSUME NEW r, NEW k, NEW m, HashMessage(r, k, m)
  PROVE  /\ \E d \in Digests :
              /\ mhash' = d.mhash /\ tree' = MaskedTree(d) /\ idxLeaf' = MaskedLeaf(d)
              /\ << r, k, m >> \in DOMAIN digestOf' /\ digestOf'[<< r, k, m >>] = d
         /\ \A x \in DOMAIN digestOf : x \in DOMAIN digestOf' /\ digestOf'[x] = digestOf[x]
<1>. DEFINE asked == << r, k, m >>
<1>1. PICK d \in Digests : /\ asked \in DOMAIN digestOf => d = digestOf[asked]
                           /\ digestOf' = [x \in DOMAIN digestOf \cup {asked} |->
                                              IF x = asked THEN d ELSE digestOf[x]]
                           /\ mhash' = d.mhash /\ tree' = MaskedTree(d)
                           /\ idxLeaf' = MaskedLeaf(d)
  BY DEF HashMessage
<1>. HIDE DEF asked
<1>2. /\ asked \in DOMAIN digestOf' /\ digestOf'[asked] = d
      /\ \A x \in DOMAIN digestOf : x \in DOMAIN digestOf' /\ digestOf'[x] = digestOf[x]
  BY <1>1
<1>. QED  BY <1>1, <1>2 DEF asked

\* So a whole signature stays one, when it stays.
LEMMA StaysWhole ==
  ASSUME NEW k, NEW m, NEW d, IsWhole(k, m, d), sm' = sm,
         \A x \in DOMAIN digestOf : x \in DOMAIN digestOf' /\ digestOf'[x] = digestOf[x]
  PROVE  IsWhole(k, m, d)'
  BY DEF IsWhole, HashedTo

LEMMA InitOpenInv == Init => OpenInv
<1>. SUFFICES ASSUME Init PROVE OpenInv
  OBVIOUS
<1>1. pc = "idle" /\ outcome = "none" /\ sm = NoSignature /\ \A k \in Keys : pkRoot[k] = Unset
  BY DEF Init
<1>. QED
  BY <1>1 DEF OpenInv, PublicKeys, SignatureInHand, OpenArguments, OpensRight, OpensWrong,
     OutcomeLast, Signing, Opening, OpensUnderItsKey

LEMMA OpenInvKeyPair ==
  ASSUME OpenInv, NEW k \in Keys, KeyPair(k)
  PROVE  OpenInv'
<1>1. /\ pc = "idle" /\ pkRoot' = [pkRoot EXCEPT ![k] = MerkleGenRoot(k)]
      /\ UNCHANGED << pc, key, sm, locals, outcome, history >>
  BY DEF KeyPair
<1>2. PublicKeys'
  BY <1>1 DEF OpenInv, PublicKeys
<1>3. SignatureInHand'
  BY <1>1 DEF OpenInv, SignatureInHand, Signing, IsWhole, HashedTo, history
<1>4. /\ OpenArguments' /\ OpensRight' /\ OpensWrong'
  BY <1>1 DEF OpenArguments, OpensRight, OpensWrong, Opening
<1>5. OutcomeLast' /\ OpensUnderItsKey'
  BY <1>1 DEF OpenInv, OutcomeLast, OpensUnderItsKey
<1>. QED  BY <1>2, <1>3, <1>4, <1>5 DEF OpenInv

LEMMA OpenInvSign ==
  ASSUME OpenInv, NEW k \in Keys, NEW m \in Msgs, Sign(k, m)
  PROVE  OpenInv'
<1>1. /\ pc' = "fors" /\ outcome' = "none" /\ key' = k /\ layer' = 0 /\ UNCHANGED pkRoot
      /\ sm' = [signer |-> k, r |-> Random(k, m), fors |-> << >>, layers |-> << >>, m |-> m]
      /\ HashMessage(Random(k, m), k, m)
  BY DEF Sign, SetUp
<1>2. PublicKeys'
  BY <1>1 DEF OpenInv, PublicKeys
<1>3. SignatureInHand'
  <2>1. PICK d \in Digests :
          /\ mhash' = d.mhash /\ tree' = MaskedTree(d) /\ idxLeaf' = MaskedLeaf(d)
          /\ << Random(k, m), k, m >> \in DOMAIN digestOf'
          /\ digestOf'[<< Random(k, m), k, m >>] = d
    BY <1>1, DigestKept
  <2>2. AtDigest(d)'
    BY <1>1, <2>1, EndsOfDigest DEF AtDigest
  <2>3. HashedTo(k, m, d)'
    BY <2>1 DEF HashedTo
  <2>4. sm' = PartSig(k, m, d, << >>, 0)
    <3>1. << >> = [x \in 1..0 |-> LayerSigAt(k, x - 1, TreeOf(d, x - 1), LeafOf(d, x - 1))]
      OBVIOUS
    <3>. QED  BY <1>1, <3>1 DEF PartSig
  <2>5. 0 \in Layers
    BY SphincsAssumption DEF Layers
  <2>. QED  BY <1>1, <2>2, <2>3, <2>4, <2>5 DEF SignatureInHand, Signing
<1>4. OpenArguments' /\ OpensRight' /\ OpensWrong'
  BY <1>1 DEF OpenArguments, OpensRight, OpensWrong, Opening
<1>5. OutcomeLast' /\ OpensUnderItsKey'
  BY <1>1 DEF OutcomeLast, OpensUnderItsKey
<1>. QED  BY <1>2, <1>3, <1>4, <1>5 DEF OpenInv

LEMMA OpenInvSignFors ==
  ASSUME OpenInv, SignInv, SignFors
  PROVE  OpenInv'
<1>1. /\ pc = "fors" /\ pc' = "layer"
      /\ sm' = [sm EXCEPT !.fors = ForsSign(key, mhash, wotsAddr).sig]
      /\ UNCHANGED << pkRoot, key, mhash, tree, idxLeaf, layer, outcome, digestOf >>
  BY DEF SignFors
<1>2. PublicKeys'
  BY <1>1 DEF OpenInv, PublicKeys
<1>3. SignatureInHand'
  <2>1. PICK m \in Msgs, d \in Digests :
          /\ key \in Keys /\ layer \in Layers /\ AtDigest(d) /\ HashedTo(key, m, d)
          /\ sm = PartSig(key, m, d, << >>, layer)
    BY <1>1 DEF OpenInv, SignatureInHand, Signing
  <2>2. layer = 0 /\ wotsAddr = WotsAt(0, tree, idxLeaf)
    BY <1>1 DEF SignInv, AddressOfPlace
  <2>3. ForsSign(key, mhash, wotsAddr).sig = ForsSigAt(key, d)
    BY <2>1, <2>2 DEF AtDigest, ForsSigAt
  <2>4. sm' = PartSig(key, m, d, ForsSigAt(key, d), layer)
    BY <1>1, <2>1, <2>3 DEF PartSig
  <2>5. AtDigest(d)' /\ HashedTo(key, m, d)'
    BY <1>1, <2>1 DEF AtDigest, HashedTo
  <2>. QED  BY <1>1, <2>1, <2>4, <2>5 DEF SignatureInHand, Signing
<1>4. OpenArguments' /\ OpensRight' /\ OpensWrong'
  BY <1>1 DEF OpenArguments, OpensRight, OpensWrong, Opening
<1>5. OutcomeLast' /\ OpensUnderItsKey'
  BY <1>1 DEF OpenInv, OutcomeLast, OpensUnderItsKey
<1>. QED  BY <1>2, <1>3, <1>4, <1>5 DEF OpenInv

\* The layers that are signed, with one more.
LEMMA OneMoreLayer ==
  ASSUME NEW k, NEW m, NEW d, NEW fors, NEW n \in Nat, NEW e,
         e = LayerSigAt(k, n, TreeOf(d, n), LeafOf(d, n))
  PROVE  [PartSig(k, m, d, fors, n) EXCEPT !.layers = Append(@, e)] =
         PartSig(k, m, d, fors, n + 1)
<1>. DEFINE F(x) == LayerSigAt(k, x - 1, TreeOf(d, x - 1), LeafOf(d, x - 1))
            s    == [x \in 1..n |-> F(x)]
            Sig(layers) == [signer |-> k, r |-> Random(k, m), fors |-> fors,
                            layers |-> layers, m |-> m]
<1>1. e = F(n + 1)
  BY (n + 1) - 1 = n
<1>. HIDE DEF F
<1>2. Append(s, e) = [x \in 1..(n + 1) |-> F(x)]
  <2>1. Len(s) = n /\ DOMAIN Append(s, e) = 1..(n + 1)
    OBVIOUS
  <2>2. ASSUME NEW x \in 1..(n + 1) PROVE Append(s, e)[x] = F(x)
    BY <1>1
  <2>3. Append(s, e) = [x \in 1..(n + 1) |-> Append(s, e)[x]]
    OBVIOUS
  <2>. QED  BY <2>2, <2>3
<1>3. PartSig(k, m, d, fors, n) = Sig(s)
  BY DEF PartSig, F
<1>4. PartSig(k, m, d, fors, n + 1) = Sig(Append(s, e))
  BY <1>2 DEF PartSig, F
<1>. HIDE DEF s
<1>5. [Sig(s) EXCEPT !.layers = Append(@, e)] = Sig(Append(s, e))
  OBVIOUS
<1>. HIDE DEF Sig
<1>. QED  BY <1>3, <1>4, <1>5

\* Where a turn of the signing loop stands.
LEMMA LayerPlace ==
  ASSUME SignInv, pc = "layer"
  PROVE  /\ LayerAddr = TreeAddrAt(layer, tree) /\ KeypairAddr = WotsAt(layer, tree, idxLeaf)
         /\ root = SignedAt(key, layer, tree, idxLeaf)
<1>1. /\ SetTree(SetLayer(treeAddr, layer), tree) = TreeAddrAt(layer, tree)
      /\ \E l, t, f : wotsAddr = WotsAt(l, t, f)
      /\ root = SignedAt(key, layer, tree, idxLeaf)
  BY DEF SignInv, AddressOfPlace, RootOfPlace, Signing
<1>2. LayerAddr = TreeAddrAt(layer, tree)
  BY <1>1 DEF LayerAddr
<1>3. KeypairAddr = WotsAt(layer, tree, idxLeaf)
  <2>1. PICK l, t, f : wotsAddr = WotsAt(l, t, f)
    BY <1>1
  <2>2. CopySubtree(wotsAddr, TreeAddrAt(layer, tree)) = Addr(layer, tree, "WOTS", f, 0, 0)
    BY <2>1, CopyFields, PlaceFields DEF TreeAddrAt
  <2>. QED  BY <1>2, <2>2, AddrFields, PlaceFields DEF KeypairAddr
<1>. QED  BY <1>1, <1>2, <1>3

\* The digest a layer further up.
LEMMA DigestMovesUp ==
  ASSUME NEW d \in Digests, layer \in Layers, AtDigest(d), NextLayer, mhash' = mhash
  PROVE  AtDigest(d)'
<1>1. tree' = TreeOf(d, layer + 1) /\ idxLeaf' = LeafOf(d, layer + 1) /\ layer' = layer + 1
  BY PlacesOfDigest DEF NextLayer, AtDigest
<1>. QED  BY <1>1 DEF AtDigest

LEMMA OpenInvSignLayer ==
  ASSUME OpenInv, SignInv, SignLayer
  PROVE  OpenInv'
<1>. DEFINE s    == MerkleSign(key, root, KeypairAddr, LayerAddr, idxLeaf)
            part == [wots |-> s.sig, path |-> s.path]
<1>1. /\ pc = "layer" /\ layer \in Layers /\ layer' = layer + 1
      /\ sm' = [sm EXCEPT !.layers = Append(@, part)]
      /\ pc' = IF layer' = D THEN "idle" ELSE "layer"
      /\ UNCHANGED << pkRoot, key, mhash, outcome, digestOf >>
      /\ NextLayer
  BY DEF SignLayer, NextLayer
<1>2. PublicKeys'
  BY <1>1 DEF OpenInv, PublicKeys
<1>3. SignatureInHand'
  <2>1. PICK m \in Msgs, d \in Digests :
          /\ key \in Keys /\ AtDigest(d) /\ HashedTo(key, m, d)
          /\ sm = PartSig(key, m, d, ForsSigAt(key, d), layer)
    BY <1>1 DEF OpenInv, SignatureInHand, Signing
  <2>2. part = LayerSigAt(key, layer, TreeOf(d, layer), LeafOf(d, layer))
    BY <1>1, <2>1, LayerPlace DEF LayerSigAt, AtDigest
  <2>3. layer \in Nat
    BY <1>1, SphincsAssumption DEF Layers
  <2>. HIDE DEF part
  <2>4. sm' = PartSig(key, m, d, ForsSigAt(key, d), layer')
    <3>. DEFINE fors == ForsSigAt(key, d)
    <3>1. sm' = [PartSig(key, m, d, fors, layer) EXCEPT !.layers = Append(@, part)]
      BY <1>1, <2>1
    <3>. HIDE DEF fors
    <3>2. [PartSig(key, m, d, fors, layer) EXCEPT !.layers = Append(@, part)] =
            PartSig(key, m, d, fors, layer + 1)
      BY <2>2, <2>3, OneMoreLayer
    <3>. QED  BY <1>1, <3>1, <3>2 DEF fors
  <2>5. AtDigest(d)'
    BY <1>1, <2>1, DigestMovesUp
  <2>6. HashedTo(key, m, d)'
    BY <1>1, <2>1 DEF HashedTo
  <2>7. CASE layer' = D
    <3>1. IsWhole(key, m, d)'
      BY <1>1, <2>4, <2>6, <2>7 DEF IsWhole
    <3>2. ~Signing'
      BY <1>1, <2>7 DEF Signing
    <3>. QED  BY <1>1, <2>1, <3>1, <3>2 DEF SignatureInHand
  <2>8. CASE layer' # D
    <3>1. layer' \in Layers
      BY <1>1, <2>8, SphincsAssumption DEF Layers
    <3>2. pc' = "layer"
      BY <1>1, <2>8
    <3>. QED  BY <1>1, <2>1, <2>4, <2>5, <2>6, <3>1, <3>2 DEF SignatureInHand, Signing
  <2>. QED  BY <2>7, <2>8
<1>4. OpenArguments' /\ OpensRight' /\ OpensWrong'
  BY <1>1 DEF OpenArguments, OpensRight, OpensWrong, Opening
<1>5. OutcomeLast' /\ OpensUnderItsKey'
  BY <1>1 DEF OpenInv, OutcomeLast, OpensUnderItsKey
<1>. QED  BY <1>2, <1>3, <1>4, <1>5 DEF OpenInv

\* What a whole signature holds.
LEMMA WholeFields ==
  ASSUME NEW k, NEW m, NEW d, IsWhole(k, m, d)
  PROVE  /\ sm.signer = k /\ sm.m = m /\ sm.r = Random(k, m) /\ sm.fors = ForsSigAt(k, d)
         /\ sm.layers = [x \in 1..D |-> LayerSigAt(k, x - 1, TreeOf(d, x - 1), LeafOf(d, x - 1))]
<1>. DEFINE fors == ForsSigAt(k, d)
<1>1. sm = PartSig(k, m, d, fors, D)
  BY DEF IsWhole
<1>. HIDE DEF fors
<1>2. /\ sm.signer = k /\ sm.m = m /\ sm.r = Random(k, m) /\ sm.fors = fors
      /\ sm.layers = [x \in 1..D |-> LayerSigAt(k, x - 1, TreeOf(d, x - 1), LeafOf(d, x - 1))]
  BY <1>1, PartFields
<1>. QED  BY <1>2 DEF fors

\* Under the key that signed it, what is opened is hashed as it was.
LEMMA HashedAgain ==
  ASSUME NEW k, NEW m, NEW d, HashMessage(sm.r, k, sm.m), sm' = sm, layer' = 0, IsWhole(k, m, d)'
  PROVE  AtDigest(d)'
<1>1. sm.r = Random(k, m) /\ sm.m = m
  <2>1. sm' = PartSig(k, m, d, ForsSigAt(k, d), D)
    BY DEF IsWhole
  <2>. QED  BY <2>1 DEF PartSig
<1>2. PICK e \in Digests :
        /\ mhash' = e.mhash /\ tree' = MaskedTree(e) /\ idxLeaf' = MaskedLeaf(e)
        /\ digestOf'[<< Random(k, m), k, m >>] = e
  BY <1>1, DigestKept
<1>3. e = d
  BY <1>2 DEF IsWhole, HashedTo
<1>. QED  BY <1>2, <1>3, EndsOfDigest DEF AtDigest

LEMMA OpenInvOpen ==
  ASSUME OpenInv, NEW k \in Keys, Open(k)
  PROVE  OpenInv'
<1>1. /\ pc = "idle" /\ sm # NoSignature /\ pkRoot[k] # Unset /\ pc' = "open-fors"
      /\ outcome' = "none" /\ key' = k /\ layer' = 0 /\ UNCHANGED << pkRoot, sm >>
      /\ HashMessage(sm.r, k, sm.m)
      /\ wotsAddr' = SetKeypair(SetTree(SetType(ZeroAddr, "WOTS"), tree'), idxLeaf')
      /\ treeAddr' = SetType(ZeroAddr, "HASHTREE")
  BY DEF Open, SetUp
<1>2. PublicKeys'
  BY <1>1 DEF OpenInv, PublicKeys
<1>3. SignatureInHand'
  <2>1. PICK e \in Keys, m \in Msgs, d \in Digests : IsWhole(e, m, d)
    BY <1>1 DEF OpenInv, SignatureInHand, Signing
  <2>2. IsWhole(e, m, d)'
    BY <1>1, <2>1, StaysWhole, DigestKept
  <2>. QED  BY <1>1, <2>2 DEF SignatureInHand, Signing
<1>4. OpenArguments'
  <2>1. wotsAddr' = WotsAt(0, tree', idxLeaf')
    BY <1>1, AddrFields, PlaceFields
  <2>2. SetTree(SetLayer(treeAddr', layer'), tree') = TreeAddrAt(layer', tree')
    BY <1>1, AddrFields DEF TreeAddrAt, HeightLeft
  <2>3. WotsAt(0, tree', idxLeaf') = Addr(0, tree', "WOTS", idxLeaf', 0, 0)
    BY PlaceFields
  <2>4. 0 \in 0..(ByteSize - 1) /\ 0 \in Layers /\ 0 \in 0..D
    BY SphincsAssumption DEF ByteSize, Layers
  <2>. QED  BY <1>1, <2>1, <2>2, <2>3, <2>4 DEF OpenArguments
<1>5. OpensRight'
  BY <1>1, HashedAgain DEF OpensRight
<1>6. OpensWrong' /\ OutcomeLast' /\ OpensUnderItsKey'
  BY <1>1 DEF OpensWrong, OutcomeLast, OpensUnderItsKey
<1>. QED  BY <1>2, <1>3, <1>4, <1>5, <1>6 DEF OpenInv

LEMMA OpenInvOpenShort ==
  ASSUME OpenInv, NEW k \in Keys, OpenShort(k)
  PROVE  OpenInv'
<1>1. /\ pc = "idle" /\ pc' = "idle" /\ sm' = NoSignature /\ key' = k
      /\ outcome' = "rejected" /\ UNCHANGED pkRoot
  BY DEF OpenShort
<1>2. PublicKeys' /\ SignatureInHand'
  BY <1>1 DEF OpenInv, PublicKeys, SignatureInHand, Signing
<1>3. OpenArguments' /\ OpensRight' /\ OpensWrong' /\ OutcomeLast'
  BY <1>1 DEF OpenArguments, OpensRight, OpensWrong, OutcomeLast, Opening
<1>4. OpensUnderItsKey'
  BY <1>1, SphincsAssumption DEF OpensUnderItsKey, NoSignature
<1>. QED  BY <1>2, <1>3, <1>4 DEF OpenInv

LEMMA OpenInvOpenFors ==
  ASSUME OpenInv, OpenFors
  PROVE  OpenInv'
<1>1. /\ pc = "open-fors" /\ pc' = "open-layer"
      /\ root' = ForsPkFromSig(key, sm.fors, mhash, wotsAddr)
      /\ UNCHANGED << pkRoot, key, sm, mhash, tree, idxLeaf, layer, wotsAddr, treeAddr,
                      outcome, digestOf >>
  BY DEF OpenFors, history
<1>2. PublicKeys'
  BY <1>1 DEF OpenInv, PublicKeys
<1>3. SignatureInHand'
  BY <1>1 DEF OpenInv, SignatureInHand, Signing, IsWhole, HashedTo
<1>4. OpenArguments'
  BY <1>1 DEF OpenInv, OpenArguments, Opening
<1>5. OpensRight'
  <2>. SUFFICES ASSUME NEW m \in Msgs, NEW d \in Digests, IsWhole(key, m, d)', key \in Keys
                PROVE  AtDigest(d)' /\ root' = SignedAt(key, layer, tree, idxLeaf)
    BY <1>1 DEF OpensRight, Opening
  <2>1. IsWhole(key, m, d)
    BY <1>1 DEF IsWhole, HashedTo
  <2>2. AtDigest(d) /\ layer = 0 /\ wotsAddr = WotsAt(0, tree, idxLeaf)
    BY <1>1, <2>1 DEF OpenInv, OpensRight, OpenArguments, Opening
  <2>3. sm.fors = ForsSign(key, d.mhash, wotsAddr).sig
    <3>1. sm.fors = ForsSigAt(key, d)
      BY <2>1, WholeFields
    <3>. QED  BY <2>2, <3>1 DEF ForsSigAt, AtDigest
  <2>4. root' = ForsRootAt(key, tree, idxLeaf)
    BY <1>1, <2>2, <2>3, ForsOpens DEF ForsRootAt, AtDigest
  <2>5. AtDigest(d)'
    BY <1>1, <2>2 DEF AtDigest
  <2>. QED  BY <2>2, <2>4, <2>5 DEF SignedAt
<1>6. OpensWrong' /\ OutcomeLast' /\ OpensUnderItsKey'
  BY <1>1 DEF OpenInv, OpensWrong, OutcomeLast, OpensUnderItsKey
<1>. QED  BY <1>2, <1>3, <1>4, <1>5, <1>6 DEF OpenInv

\* Where a turn of the verifying loop stands.
LEMMA OpenPlace ==
  ASSUME OpenInv, pc = "open-layer"
  PROVE  /\ LayerAddr = TreeAddrAt(layer, tree)
         /\ \E b : \E n \in 0..(ByteSize - 1) :
              KeypairAddr = Addr(layer, tree, "WOTS", idxLeaf, b, n)
<1>1. /\ SetTree(SetLayer(treeAddr, layer), tree) = TreeAddrAt(layer, tree)
      /\ \E l, t, f, b : \E n \in 0..(ByteSize - 1) : wotsAddr = Addr(l, t, "WOTS", f, b, n)
  BY DEF OpenInv, OpenArguments, Opening
<1>2. LayerAddr = TreeAddrAt(layer, tree)
  BY <1>1 DEF LayerAddr
<1>3. PICK l, t, f, b : \E n \in 0..(ByteSize - 1) : wotsAddr = Addr(l, t, "WOTS", f, b, n)
  BY <1>1
<1>4. PICK n \in 0..(ByteSize - 1) : wotsAddr = Addr(l, t, "WOTS", f, b, n)
  BY <1>3
<1>5. CopySubtree(wotsAddr, TreeAddrAt(layer, tree)) = Addr(layer, tree, "WOTS", f, b, n)
  BY <1>4, CopyFields DEF TreeAddrAt
<1>6. KeypairAddr = Addr(layer, tree, "WOTS", idxLeaf, b, n)
  BY <1>2, <1>5, AddrFields DEF KeypairAddr
<1>. QED  BY <1>2, <1>6

\* The root a turn comes to, from the part of the signature it takes.
RootFound(part) ==
  ComputeRoot(key, LayerAddr, LeafFound(key, KeypairAddr, BytesOf(root), part.wots),
              idxLeaf, 0, part.path, H)

\* Which part that is.
LEMMA PartOfLayer ==
  ASSUME NEW k, NEW m, NEW d, IsWhole(k, m, d), layer \in Layers
  PROVE  sm.layers[layer + 1] = LayerSigAt(k, layer, TreeOf(d, layer), LeafOf(d, layer))
<1>1. layer + 1 \in 1..D /\ (layer + 1) - 1 = layer
  BY SphincsAssumption DEF Layers
<1>. DEFINE F(x) == LayerSigAt(k, x, TreeOf(d, x), LeafOf(d, x))
<1>2. sm.layers = [x \in 1..D |-> F(x - 1)]
  BY WholeFields
<1>. HIDE DEF F
<1>3. sm.layers[layer + 1] = F(layer)
  BY <1>1, <1>2
<1>. QED  BY <1>3 DEF F

\* With the signer's key a turn comes to the root the signer came to.
LEMMA RightRoot ==
  ASSUME OpenInv, BytesOfRoots, pc = "open-layer", layer \in Layers, key \in Keys,
         NEW m \in Msgs, NEW d \in Digests, IsWhole(key, m, d)
  PROVE  AtDigest(d) /\ RootFound(sm.layers[layer + 1]) = SubtreeRootAt(key, layer, tree)
<1>1. AtDigest(d) /\ root = SignedAt(key, layer, tree, idxLeaf)
  BY DEF OpenInv, OpensRight, Opening
<1>2. tree \in Nat /\ idxLeaf \in 0..(2 ^ H - 1)
  BY <1>1, PlacesOfDigest DEF AtDigest
<1>3. sm.layers[layer + 1] = LayerSigAt(key, layer, tree, idxLeaf)
  BY <1>1, PartOfLayer DEF AtDigest
<1>4. PICK b : \E n \in 0..(ByteSize - 1) :
        KeypairAddr = Addr(layer, tree, "WOTS", idxLeaf, b, n)
  BY OpenPlace
<1>5. PICK n \in 0..(ByteSize - 1) : KeypairAddr = Addr(layer, tree, "WOTS", idxLeaf, b, n)
  BY <1>4
<1>. DEFINE part == LayerSigAt(key, layer, tree, idxLeaf)
<1>6. BytesOf(SignedAt(key, layer, tree, idxLeaf)) \in Message
  BY <1>2 DEF BytesOfRoots
<1>7. LeafFound(key, KeypairAddr, BytesOf(root), part.wots) =
        WotsLeaf(key, WotsAt(layer, tree, idxLeaf), idxLeaf)
  BY <1>1, <1>5, <1>6, LeafOpens
<1>8. LayerAddr = TreeAddrAt(layer, tree)
  BY OpenPlace
<1>9. RootFound(part) = SubtreeRootAt(key, layer, tree)
  BY <1>2, <1>7, <1>8, LayerOpens DEF RootFound
<1>. QED  BY <1>1, <1>3, <1>9

\* With another key the last turn ends at a hash of a node of the signer's.
LEMMA WrongRoot ==
  ASSUME OpenInv, pc = "open-layer", layer = D - 1
  PROVE  \E x \in 1..2 : RootFound(sm.layers[layer + 1]).in[x].seed = sm.signer
<1>1. PICK k \in Keys, m \in Msgs, d \in Digests : IsWhole(k, m, d)
  BY DEF OpenInv, OpenArguments, Opening, SignatureInHand, Signing
<1>. DEFINE part == sm.layers[layer + 1]
<1>2. layer \in Layers /\ H \in Nat \ {0}
  BY SphincsAssumption DEF Layers
<1>3. part = LayerSigAt(k, layer, TreeOf(d, layer), LeafOf(d, layer))
  BY <1>1, <1>2, PartOfLayer
<1>4. part.path[H - 1].seed = k
  BY <1>2, <1>3, PathOfKey, PlacesOfDigest
<1>. HIDE DEF part
<1>5. \E x \in 1..2 : RootFound(part).in[x] = part.path[H - 1]
  BY <1>2, RootOfPath DEF RootFound
<1>6. sm.signer = k
  BY <1>1, WholeFields
<1>. QED  BY <1>4, <1>5, <1>6 DEF part

\* What the chains and the tree leave in the addresses.
LEMMA AddressesLeft ==
  ASSUME OpenInv, OpenLayer
  PROVE  /\ SetTree(SetLayer(treeAddr', layer'), tree') = TreeAddrAt(layer', tree')
         /\ \E l, t, f, b : \E n \in 0..(ByteSize - 1) : wotsAddr' = Addr(l, t, "WOTS", f, b, n)
<1>1. /\ pc = "open-layer" /\ layer' = layer + 1 /\ layer \in Layers
      /\ wotsAddr' = SetHash(SetChain(KeypairAddr, WotsLen - 1), W - 2)
      /\ treeAddr' = RootAddr(LayerAddr)
  BY DEF OpenLayer, NextLayer
<1>2. SetTree(SetLayer(treeAddr', layer'), tree') = TreeAddrAt(layer', tree')
  <2>1. treeAddr' = Addr(layer, tree, "HASHTREE", 0, H, 0)
    BY <1>1, OpenPlace, AddrFields DEF TreeAddrAt, RootAddr, NodeAddr
  <2>2. HeightLeft(layer') = H
    BY <1>1, SphincsAssumption DEF HeightLeft, Layers
  <2>. QED  BY <2>1, <2>2, AddrFields DEF TreeAddrAt
<1>3. PICK b : \E n \in 0..(ByteSize - 1) :
        KeypairAddr = Addr(layer, tree, "WOTS", idxLeaf, b, n)
  BY <1>1, OpenPlace
<1>4. PICK n \in 0..(ByteSize - 1) : KeypairAddr = Addr(layer, tree, "WOTS", idxLeaf, b, n)
  BY <1>3
<1>. DEFINE last == W - 2
            c    == WotsLen - 1
<1>5. last \in Nat /\ last \in 0..(ByteSize - 1)
  <2>1. W \in Nat /\ W >= 2 /\ W <= ByteSize
    BY WType, WotsAssumption DEF W
  <2>. QED  BY <2>1 DEF ByteSize
<1>. HIDE DEF last, c
<1>6. wotsAddr' = Addr(layer, tree, "WOTS", idxLeaf, c, last)
  <2>1. SetChain(KeypairAddr, c) = Addr(layer, tree, "WOTS", idxLeaf, c, n)
    BY <1>4, ChainFields
  <2>2. SetHash(Addr(layer, tree, "WOTS", idxLeaf, c, n), last) =
          Addr(layer, tree, "WOTS", idxLeaf, c, last)
    BY <1>5, HashFields
  <2>. QED  BY <1>1, <2>1, <2>2 DEF last, c
<1>. QED  BY <1>2, <1>5, <1>6

LEMMA OpenInvOpenLayer ==
  ASSUME OpenInv, BytesOfRoots, OpenLayer
  PROVE  OpenInv'
<1>1. /\ pc = "open-layer" /\ layer \in Layers /\ layer' = layer + 1
      /\ NextLayer
      /\ pc' = IF layer' = D THEN "compare" ELSE "open-layer"
      /\ UNCHANGED << pkRoot, key, sm, mhash, outcome, digestOf >>
  BY DEF OpenLayer, NextLayer, history
<1>2. root' = RootFound(sm.layers[layer + 1])
  BY DEF OpenLayer, RootFound, LeafFound
<1>3. PublicKeys'
  BY <1>1 DEF OpenInv, PublicKeys
<1>4. SignatureInHand'
  BY <1>1 DEF OpenInv, SignatureInHand, Signing, IsWhole, HashedTo
<1>5. layer' \in 0..D /\ (layer' # D => layer' \in Layers)
  BY <1>1, SphincsAssumption DEF Layers
<1>6. key \in Keys /\ sm # NoSignature /\ pkRoot[key] # Unset
  BY <1>1 DEF OpenInv, OpenArguments, Opening
<1>7. OpenArguments'
  BY <1>1, <1>5, <1>6, AddressesLeft DEF OpenArguments
<1>8. OpensRight'
  <2>. SUFFICES ASSUME NEW m \in Msgs, NEW d \in Digests, IsWhole(key, m, d)'
                PROVE  /\ AtDigest(d)'
                       /\ pc' = "open-layer" => root' = SignedAt(key, layer', tree', idxLeaf')
                       /\ pc' = "compare" => root' = SubtreeRootAt(key, D - 1, 0)
    BY <1>1 DEF OpensRight
  <2>1. IsWhole(key, m, d)
    BY <1>1 DEF IsWhole, HashedTo
  <2>2. AtDigest(d) /\ root' = SubtreeRootAt(key, layer, tree)
    BY <1>1, <1>2, <1>6, <2>1, RightRoot
  <2>3. AtDigest(d)'
    BY <1>1, <2>2, DigestMovesUp
  <2>4. SignedAt(key, layer', tree', idxLeaf') = SubtreeRootAt(key, layer, tree)
    <3>1. tree \in Nat
      BY <1>1, <2>2, PlacesOfDigest DEF AtDigest
    <3>2. tree' * 2 ^ H + idxLeaf' = tree
      BY <1>1, <3>1, Powers, DivMod DEF NextLayer
    <3>3. layer' # 0 /\ layer' - 1 = layer
      BY <1>1, SphincsAssumption DEF Layers
    <3>. QED  BY <3>2, <3>3 DEF SignedAt
  <2>5. CASE layer' = D
    <3>1. layer = D - 1
      BY <1>1, <2>5, SphincsAssumption DEF Layers
    <3>2. tree = 0
      BY <2>2, <3>1, EndsOfDigest DEF AtDigest
    <3>. QED  BY <1>1, <2>2, <2>3, <2>5, <3>1, <3>2
  <2>6. CASE layer' # D
    BY <1>1, <2>2, <2>3, <2>4, <2>6
  <2>. QED  BY <2>5, <2>6
<1>9. OpensWrong'
  <2>. SUFFICES ASSUME pc' = "compare"
                PROVE  \E x \in 1..2 : root'.in[x].seed = sm.signer
    BY <1>1 DEF OpensWrong
  <2>1. layer = D - 1
    BY <1>1, SphincsAssumption DEF Layers
  <2>. QED  BY <1>1, <1>2, <2>1, WrongRoot
<1>10. OutcomeLast' /\ OpensUnderItsKey'
  BY <1>1 DEF OpenInv, OutcomeLast, OpensUnderItsKey
<1>. QED  BY <1>3, <1>4, <1>7, <1>8, <1>9, <1>10 DEF OpenInv

LEMMA OpenInvCompare ==
  ASSUME OpenInv, Compare
  PROVE  OpenInv'
<1>1. /\ pc = "compare" /\ pc' = "idle"
      /\ outcome' = IF root = pkRoot[key] THEN "accepted" ELSE "rejected"
      /\ UNCHANGED << pkRoot, key, sm, locals, history >>
  BY DEF Compare
<1>2. PublicKeys'
  BY <1>1 DEF OpenInv, PublicKeys
<1>3. SignatureInHand'
  BY <1>1 DEF OpenInv, SignatureInHand, Signing, IsWhole, HashedTo, history
<1>4. OpenArguments' /\ OpensRight' /\ OpensWrong' /\ OutcomeLast'
  BY <1>1 DEF OpenArguments, OpensRight, OpensWrong, OutcomeLast, Opening
<1>5. key \in Keys /\ sm # NoSignature /\ pkRoot[key] = MerkleGenRoot(key)
  BY <1>1 DEF OpenInv, OpenArguments, PublicKeys, Opening
<1>6. PICK k \in Keys, m \in Msgs, d \in Digests : IsWhole(k, m, d)
  BY <1>1, <1>5 DEF OpenInv, SignatureInHand, Signing
<1>7. sm.signer = k
  BY <1>6, WholeFields
<1>8. root = pkRoot[key] <=> key = sm.signer
  <2>1. CASE key = k
    <3>1. root = SubtreeRootAt(key, D - 1, 0)
      BY <1>1, <1>6, <2>1 DEF OpenInv, OpensRight, Opening
    <3>. QED  BY <1>5, <1>7, <2>1, <3>1, TopIsPublic
  <2>2. CASE key # k
    <3>1. PICK x \in 1..2 : root.in[x].seed = sm.signer
      BY <1>1, <1>7, <2>2 DEF OpenInv, OpensWrong
    <3>2. pkRoot[key].in[x].seed = key
      BY <1>5, PublicOfKey
    <3>. QED  BY <1>7, <2>2, <3>1, <3>2
  <2>. QED  BY <2>1, <2>2
<1>9. OpensUnderItsKey'
  BY <1>1, <1>8 DEF OpensUnderItsKey
<1>. QED  BY <1>2, <1>3, <1>4, <1>9 DEF OpenInv

LEMMA NextOpenInv ==
  ASSUME BytesOfRoots, OpenInv, SignInv, [Next]_vars
  PROVE  OpenInv'
<1>1. ASSUME NEW k \in Keys, KeyPair(k) PROVE OpenInv'
  BY <1>1, OpenInvKeyPair
<1>2. ASSUME NEW k \in Keys, Open(k) PROVE OpenInv'
  BY <1>2, OpenInvOpen
<1>3. ASSUME NEW k \in Keys, OpenShort(k) PROVE OpenInv'
  BY <1>3, OpenInvOpenShort
<1>4. ASSUME NEW k \in Keys, NEW m \in Msgs, Sign(k, m) PROVE OpenInv'
  BY <1>4, OpenInvSign
<1>5. CASE SignFors
  BY <1>5, OpenInvSignFors
<1>6. CASE SignLayer
  BY <1>6, OpenInvSignLayer
<1>7. CASE OpenFors
  BY <1>7, OpenInvOpenFors
<1>8. CASE OpenLayer
  BY <1>8, OpenInvOpenLayer
<1>9. CASE Compare
  BY <1>9, OpenInvCompare
<1>10. CASE UNCHANGED vars
  <2>1. UNCHANGED << pkRoot, pc, key, sm, mhash, tree, idxLeaf, layer, root, wotsAddr,
                     treeAddr, outcome, digestOf >>
    BY <1>10 DEF vars, locals, history
  <2>2. PublicKeys' /\ SignatureInHand'
    BY <2>1 DEF OpenInv, PublicKeys, SignatureInHand, Signing, AtDigest, IsWhole, HashedTo
  <2>3. OpenArguments' /\ OpensRight' /\ OpensWrong'
    BY <2>1 DEF OpenInv, OpenArguments, OpensRight, OpensWrong, Opening, AtDigest, IsWhole,
                HashedTo
  <2>4. OutcomeLast' /\ OpensUnderItsKey'
    BY <2>1 DEF OpenInv, OutcomeLast, OpensUnderItsKey
  <2>. QED  BY <2>2, <2>3, <2>4 DEF OpenInv
<1>. QED
  BY <1>1, <1>2, <1>3, <1>4, <1>5, <1>6, <1>7, <1>8, <1>9, <1>10 DEF Next

\* What crypto_sign makes, crypto_sign_open accepts under the signer's public
\* key, and under no other, for every number of layers and keys.
THEOREM OpensRightly ==
  ASSUME BytesOfRoots
  PROVE  Spec => []OpensUnderItsKey
<1>1. OpenInv /\ SignInv /\ [Next]_vars => OpenInv'
  BY NextOpenInv
<1>2. OpenInv => OpensUnderItsKey
  BY DEF OpenInv
<1>. QED  BY <1>1, <1>2, InitOpenInv, SignInvariant, PTL DEF Spec

-----------------------------------------------------------------------------
(* No address is hashed with two inputs *)

SubtreeAt(k, l, t) == Subtree(k, PlaceAddr(l, t), TreeAddrAt(l, t))

\* Node n of level h of the few-time trees of a key, numbered on over the trees.
ForsNodeAt(k, t, f, h, n) ==
  ForsTree(k, WotsAt(0, t, f), n \div 2 ^ (A - h))[h][n % 2 ^ (A - h)]

\* What the key hashes under an address: the address tells all of it.
CallOf(k, a) ==
  CASE a.type = "WOTSPRF"  -> ChainStart(k, WotsAt(a.layer, a.tree, a.kp), a.b27)
    [] a.type = "WOTS"     -> ChainValue(k, WotsAt(a.layer, a.tree, a.kp), a.b27, a.index + 1)
    [] a.type = "WOTSPK"   -> WotsLeaf(k, PlaceAddr(a.layer, a.tree), a.kp)
    [] a.type = "HASHTREE" -> SubtreeAt(k, a.layer, a.tree)[a.b27][a.index]
    [] a.type = "FORSPRF"  -> ForsSk(k, WotsAt(0, a.tree, a.kp), a.index)
    [] a.type = "FORSTREE" -> ForsNodeAt(k, a.tree, a.kp, a.b27, a.index)
    [] a.type = "FORSPK"   -> ForsRootAt(k, a.tree, a.kp)

\* Where in a chain or a tree an address may be.
InReach(a) ==
  /\ a.type \in AddrType
  /\ a.type = "WOTS" => a.index \in 0..(W - 2)
  /\ a.type = "HASHTREE" => a.b27 \in 1..H /\ a.index \in 0..(2 ^ (H - a.b27) - 1)
  /\ a.type = "FORSTREE" => a.b27 \in 0..A /\ a.index \in Nat

Made(k, x) == x.seed = k /\ InReach(x.addr) /\ x = CallOf(k, x.addr)

\* A secret seed, which no hash made, or a value that the key's hashes make.
Good(k, x) == x.in = << >> \/ Made(k, x)

\* The fields of an address read back.
LEMMA FieldsOf ==
  ASSUME NEW l, NEW t, NEW y, NEW f, NEW b, NEW i
  PROVE  /\ Addr(l, t, y, f, b, i).layer = l /\ Addr(l, t, y, f, b, i).tree = t
         /\ Addr(l, t, y, f, b, i).type = y /\ Addr(l, t, y, f, b, i).kp = f
         /\ Addr(l, t, y, f, b, i).b27 = b /\ Addr(l, t, y, f, b, i).index = i
  BY DEF Addr

LEMMA ThashFields ==
  ASSUME NEW k, NEW a, NEW in
  PROVE  Thash(k, a, in).seed = k /\ Thash(k, a, in).addr = a /\ Thash(k, a, in).in = in
  BY DEF Thash

\* What a key makes under two equal addresses is the same.
LEMMA MadeOnce ==
  ASSUME NEW k, NEW x, NEW y, Made(k, x), Made(k, y), x.addr = y.addr
  PROVE  x = y
  BY Zenon DEF Made

\* The addresses of the few-time signature.
LEMMA ForsFields ==
  ASSUME NEW t, NEW f, NEW y, NEW h, NEW n
  PROVE  /\ ForsAddr(WotsAt(0, t, f), y) = Addr(0, t, y, f, 0, 0)
         /\ SetTreeIndex(ForsAddr(WotsAt(0, t, f), y), n) = Addr(0, t, y, f, 0, n)
         /\ NodeAddr(ForsAddr(WotsAt(0, t, f), y), h, n) = Addr(0, t, y, f, h, n)
<1>1. CopySubtree(ZeroAddr, WotsAt(0, t, f)) = Addr(0, t, "WOTS", 0, 0, 0)
  BY AddrFields, CopyFields, PlaceFields
<1>2. WotsAt(0, t, f).kp = f
  BY PlaceFields, FieldsOf
<1>3. ForsAddr(WotsAt(0, t, f), y) = Addr(0, t, y, f, 0, 0)
  BY <1>1, <1>2, AddrFields DEF CopyKeypair, ForsAddr
<1>. QED  BY <1>3, AddrFields DEF NodeAddr

\* The start of a chain.
LEMMA StartMade ==
  ASSUME NEW k, NEW l, NEW t, NEW f, NEW c
  PROVE  /\ Made(k, ChainStart(k, WotsAt(l, t, f), c))
         /\ ChainStart(k, WotsAt(l, t, f), c).in = << SkSeed(k) >>
<1>. DEFINE a == Addr(l, t, "WOTSPRF", f, c, 0)
            x == ChainStart(k, WotsAt(l, t, f), c)
<1>1. SetType(SetHash(SetChain(WotsAt(l, t, f), c), 0), "WOTSPRF") = a
  <2>1. SetChain(WotsAt(l, t, f), c) = Addr(l, t, "WOTS", f, c, 0)
    BY PlaceFields, ChainFields
  <2>2. SetHash(Addr(l, t, "WOTS", f, c, 0), 0) = Addr(l, t, "WOTS", f, c, 0)
    BY HashFields, 0 \in 0..(ByteSize - 1), 0 \in Nat DEF ByteSize
  <2>. QED  BY <2>1, <2>2, AddrFields
<1>2. x = Thash(k, a, << SkSeed(k) >>)
  BY <1>1 DEF ChainStart, Prf
<1>3. CallOf(k, a) = x
  BY FieldsOf DEF CallOf
<1>4. InReach(a)
  BY FieldsOf DEF InReach, AddrType
<1>. HIDE DEF a, x
<1>. QED  BY <1>2, <1>3, <1>4, ThashFields DEF Made, x

\* A chain of a place, from its start.
LEMMA ChainAt ==
  ASSUME NEW k, NEW l, NEW t, NEW f, NEW c
  PROVE  \A m : ChainValue(k, WotsAt(l, t, f), c, m) =
                  GenChain(k, Addr(l, t, "WOTS", f, c, 0), ChainStart(k, WotsAt(l, t, f), c), 0, m)
<1>1. SetChain(WotsAt(l, t, f), c) = Addr(l, t, "WOTS", f, c, 0)
  BY PlaceFields, ChainFields
<1>2. SetHash(Addr(l, t, "WOTS", f, c, 0), 0) = Addr(l, t, "WOTS", f, c, 0)
  BY HashFields, 0 \in 0..(ByteSize - 1), 0 \in Nat DEF ByteSize
<1>3. SetType(SetHash(SetChain(WotsAt(l, t, f), c), 0), "WOTS") = Addr(l, t, "WOTS", f, c, 0)
  BY <1>1, <1>2, AddrFields
<1>. QED  BY <1>3 DEF ChainValue

\* The values of a chain.
LEMMA ValueMade ==
  ASSUME NEW k, NEW l, NEW t, NEW f, NEW c, NEW n \in 0..(W - 1)
  PROVE  /\ Made(k, ChainValue(k, WotsAt(l, t, f), c, n))
         /\ n # 0 => ChainValue(k, WotsAt(l, t, f), c, n).in =
                       << ChainValue(k, WotsAt(l, t, f), c, n - 1) >>
<1>. DEFINE a == Addr(l, t, "WOTS", f, c, 0)
            b == Addr(l, t, "WOTS", f, c, n - 1)
            x == ChainStart(k, WotsAt(l, t, f), c)
            Value(m) == ChainValue(k, WotsAt(l, t, f), c, m)
<1>1. \A m : Value(m) = GenChain(k, a, x, 0, m)
  BY ChainAt
<1>2. CASE n = 0
  <2>1. GenChain(k, a, x, 0, 0) = x
    BY ChainFirst
  <2>2. Made(k, x)
    BY StartMade
  <2>. HIDE DEF a, x
  <2>. QED  BY <1>1, <1>2, <2>1, <2>2
<1>3. CASE n # 0
  <2>1. n - 1 \in Nat /\ (n - 1) + 1 <= W /\ (n - 1) + 1 = n /\ n - 1 \in 0..(W - 2)
    BY <1>3, WType
  <2>2. GenChain(k, a, x, 0, (n - 1) + 1) =
          Thash(k, SetHash(a, n - 1), << GenChain(k, a, x, 0, n - 1) >>)
    <3>. HIDE DEF a, x
    <3>. QED  BY <2>1, ChainStep
  <2>3. SetHash(a, n - 1) = b
    BY <2>1, HashFields, 0 \in 0..(ByteSize - 1) DEF ByteSize
  <2>4. Value(n) = Thash(k, b, << Value(n - 1) >>)
    <3>. HIDE DEF a, b, x, Value
    <3>. QED  BY <1>1, <2>1, <2>2, <2>3
  <2>5. CallOf(k, b) = Value(n)
    <3>1. CallOf(k, b) = Value((n - 1) + 1)
      BY FieldsOf DEF CallOf
    <3>. HIDE DEF b, Value
    <3>. QED  BY <2>1, <3>1
  <2>6. InReach(b)
    BY <2>1, FieldsOf DEF InReach, AddrType
  <2>. HIDE DEF b, Value
  <2>7. Made(k, Value(n)) /\ Value(n).in = << Value(n - 1) >>
    BY <2>4, <2>5, <2>6, ThashFields DEF Made
  <2>. QED  BY <2>7 DEF Value
<1>. QED  BY <1>2, <1>3

\* The leaf of a place, which compresses the ends of its chains.
LEMMA LeafMade ==
  ASSUME NEW k, NEW l, NEW t, NEW f
  PROVE  /\ Made(k, WotsLeaf(k, PlaceAddr(l, t), f))
         /\ WotsLeaf(k, PlaceAddr(l, t), f).in =
              [c \in 1..WotsLen |-> ChainValue(k, WotsAt(l, t, f), c - 1, W - 1)]
<1>. DEFINE a  == Addr(l, t, "WOTSPK", f, 0, 0)
            x  == WotsLeaf(k, PlaceAddr(l, t), f)
            in == [c \in 1..WotsLen |-> ChainValue(k, WotsAt(l, t, f), c - 1, W - 1)]
<1>1. WotsAddr(PlaceAddr(l, t), f) = WotsAt(l, t, f)
  BY AddrFields, CopyFields, PlaceFields DEF WotsAddr
<1>2. WotsPkAddr(PlaceAddr(l, t), f) = a
  BY <1>1, AddrFields, PlaceFields DEF WotsPkAddr
<1>3. x = Thash(k, a, in)
  BY <1>1, <1>2 DEF WotsLeaf
<1>4. CallOf(k, a) = x
  BY FieldsOf DEF CallOf
<1>5. InReach(a)
  BY FieldsOf DEF InReach, AddrType
<1>. HIDE DEF a, x, in
<1>6. Made(k, x) /\ x.in = in
  BY <1>3, <1>4, <1>5, ThashFields DEF Made
<1>. QED  BY <1>6 DEF x, in

\* The children of a node are in the level below.
LEMMA Children ==
  ASSUME NEW n \in Nat, NEW h \in 1..n, NEW i \in 0..(2 ^ (n - h) - 1)
  PROVE  /\ 2 * i \in 0..(2 ^ (n - (h - 1)) - 1)
         /\ 2 * i + 1 \in 0..(2 ^ (n - (h - 1)) - 1)
<1>. DEFINE m == n - h
            P == 2 ^ m
            Q == 2 ^ (n - (h - 1))
<1>1. m \in Nat /\ n - (h - 1) = m + 1
  OBVIOUS
<1>2. P \in Nat /\ 2 ^ (m + 1) = 2 * P
  <2>. HIDE DEF m
  <2>. QED  BY <1>1, PowerNat, Doubles
<1>3. Q = 2 * P /\ i \in 0..(P - 1)
  BY <1>1, <1>2
<1>. HIDE DEF m, P, Q
<1>4. 2 * i \in 0..(Q - 1) /\ 2 * i + 1 \in 0..(Q - 1)
  BY <1>2, <1>3
<1>. QED  BY <1>4 DEF Q

\* The nodes of a subtree above its leaves.
LEMMA NodeMade ==
  ASSUME NEW k, NEW l, NEW t, NEW h \in 1..H, NEW i \in 0..(2 ^ (H - h) - 1)
  PROVE  /\ Made(k, SubtreeAt(k, l, t)[h][i])
         /\ SubtreeAt(k, l, t)[h][i].in =
              << SubtreeAt(k, l, t)[h - 1][2 * i], SubtreeAt(k, l, t)[h - 1][2 * i + 1] >>
<1>. DEFINE a      == Addr(l, t, "HASHTREE", 0, h, i)
            b      == SetType(TreeAddrAt(l, t), "HASHTREE")
            leaves == [leaf \in 0..(2 ^ H - 1) |-> WotsLeaf(k, PlaceAddr(l, t), leaf)]
            levels == SubtreeAt(k, l, t)
            in     == << levels[h - 1][2 * i], levels[h - 1][2 * i + 1] >>
            x      == levels[h][i]
<1>1. H \in Nat
  BY SphincsAssumption
<1>2. levels = TreeLevels(k, b, leaves, H, 0)
  BY DEF SubtreeAt, Subtree
<1>3. IsNode(levels, k, b, 0, h, i)
  <2>. HIDE DEF b, leaves, levels
  <2>. QED  BY <1>1, <1>2, TreeNode
<1>4. i + (0 \div 2 ^ h) = i
  <2>1. 2 ^ h \in Nat \ {0}
    BY <1>1, PowerNat
  <2>2. \A P \in Nat \ {0} : 0 \div P = 0
    OBVIOUS
  <2>3. i \in Nat
    OBVIOUS
  <2>4. 0 \div 2 ^ h = 0
    BY <2>1, <2>2
  <2>. QED  BY <2>3, <2>4
<1>5. NodeAddr(b, h, i) = a
  BY AddrFields DEF TreeAddrAt, NodeAddr
<1>6. x = Thash(k, a, in)
  <2>. HIDE DEF b, leaves, levels, a
  <2>. QED  BY <1>3, <1>4, <1>5 DEF IsNode
<1>7. CallOf(k, a) = x
  BY FieldsOf DEF CallOf
<1>8. InReach(a)
  BY FieldsOf DEF InReach, AddrType
<1>. HIDE DEF a, x, in
<1>9. Made(k, x) /\ x.in = in
  BY <1>6, <1>7, <1>8, ThashFields DEF Made
<1>. QED  BY <1>9 DEF x, in

\* The nodes of a subtree, with its leaves.
LEMMA SubtreeMade ==
  ASSUME NEW k, NEW l, NEW t, NEW h \in 0..H, NEW i \in 0..(2 ^ (H - h) - 1)
  PROVE  Made(k, SubtreeAt(k, l, t)[h][i])
<1>1. H \in Nat
  BY SphincsAssumption
<1>2. CASE h = 0
  <2>. DEFINE b      == SetType(TreeAddrAt(l, t), "HASHTREE")
              leaves == [leaf \in 0..(2 ^ H - 1) |-> WotsLeaf(k, PlaceAddr(l, t), leaf)]
  <2>1. SubtreeAt(k, l, t) = TreeLevels(k, b, leaves, H, 0)
    BY DEF SubtreeAt, Subtree
  <2>2. TreeLevels(k, b, leaves, H, 0)[0] = leaves
    <3>. HIDE DEF b, leaves
    <3>. QED  BY <1>1, TreeLeaves
  <2>3. i \in 0..(2 ^ H - 1)
    <3>1. H - h = H
      BY <1>1, <1>2
    <3>. QED  BY <3>1, Zenon
  <2>4. SubtreeAt(k, l, t)[h][i] = WotsLeaf(k, PlaceAddr(l, t), i)
    BY <1>2, <2>1, <2>2, <2>3
  <2>5. Made(k, WotsLeaf(k, PlaceAddr(l, t), i))
    BY LeafMade
  <2>. QED  BY <2>4, <2>5, Zenon
<1>3. CASE h # 0
  <2>1. h \in 1..H
    BY <1>1, <1>3
  <2>. QED  BY <2>1, NodeMade
<1>. QED  BY <1>2, <1>3

\* The few-time secrets.
LEMMA SkMade ==
  ASSUME NEW k, NEW t, NEW f, NEW n
  PROVE  /\ Made(k, ForsSk(k, WotsAt(0, t, f), n))
         /\ ForsSk(k, WotsAt(0, t, f), n).in = << SkSeed(k) >>
<1>. DEFINE a == Addr(0, t, "FORSPRF", f, 0, n)
            x == ForsSk(k, WotsAt(0, t, f), n)
<1>1. x = Thash(k, a, << SkSeed(k) >>)
  BY ForsFields DEF ForsSk, Prf
<1>2. CallOf(k, a) = x
  BY FieldsOf DEF CallOf
<1>3. InReach(a)
  BY FieldsOf DEF InReach, AddrType
<1>. HIDE DEF a, x
<1>4. Made(k, x) /\ x.in = << SkSeed(k) >>
  BY <1>1, <1>2, <1>3, ThashFields DEF Made
<1>. QED  BY <1>4 DEF x

\* Numbering on over the trees: a node's number tells its tree and its place in it.
LEMMA NodeNumber ==
  ASSUME NEW x \in Nat, NEW h \in 0..A, NEW i \in 0..(2 ^ (A - h) - 1)
  PROVE  /\ i + (IdxOffset(x) \div 2 ^ h) \in Nat
         /\ (i + (IdxOffset(x) \div 2 ^ h)) \div 2 ^ (A - h) = x
         /\ (i + (IdxOffset(x) \div 2 ^ h)) % 2 ^ (A - h) = i
<1>. DEFINE P == 2 ^ (A - h)
            Q == 2 ^ h
            R == 2 ^ A
<1>1. A \in Nat /\ h \in Nat /\ A - h \in Nat /\ A = (A - h) + h
  BY ForsAssumption
<1>2. P \in Nat \ {0} /\ Q \in Nat \ {0} /\ R \in Nat \ {0}
  BY <1>1, PowerNat
<1>3. R = P * Q
  <2>1. 2 ^ ((A - h) + h) = 2 ^ (A - h) * 2 ^ h
    BY <1>1, PowerSum
  <2>. QED  BY <1>1, <2>1
<1>. HIDE DEF P, Q, R
<1>4. IdxOffset(x) \div Q = x * P
  <2>1. x * R = (x * P) * Q + 0 /\ x * P \in Nat
    BY <1>2, <1>3
  <2>. DEFINE y == x * P
  <2>. HIDE DEF y
  <2>2. (y * Q + 0) \div Q = y
    BY <1>2, <2>1, DivOfMultiple DEF y
  <2>. QED  BY <2>1, <2>2 DEF IdxOffset, R, y
<1>5. i \in 0..(P - 1) /\ x * P \in Nat
  BY <1>2 DEF P
<1>6. (x * P + i) \div P = x
  BY <1>2, <1>5, DivOfMultiple
<1>7. (x * P + i) % P = i
  <2>1. (x * P + i) % P = i % P
    BY <1>2, <1>5, ModAbove
  <2>. QED  BY <1>2, <1>5, <2>1
<1>8. i + x * P = x * P + i /\ i + x * P \in Nat
  BY <1>5
<1>9. /\ i + (IdxOffset(x) \div Q) \in Nat
      /\ (i + (IdxOffset(x) \div Q)) \div P = x
      /\ (i + (IdxOffset(x) \div Q)) % P = i
  BY <1>4, <1>6, <1>7, <1>8
<1>. QED  BY <1>9 DEF P, Q

\* The nodes of a few-time tree, with its leaves.
LEMMA ForsNodeMade ==
  ASSUME NEW k, NEW t, NEW f, NEW x \in Nat, NEW h \in 0..A, NEW i \in 0..(2 ^ (A - h) - 1)
  PROVE  LET levels == ForsTree(k, WotsAt(0, t, f), x)
         IN  /\ Made(k, levels[h][i])
             /\ h = 0 => levels[h][i].in = << ForsSk(k, WotsAt(0, t, f), i + IdxOffset(x)) >>
             /\ h # 0 => levels[h][i].in = << levels[h - 1][2 * i], levels[h - 1][2 * i + 1] >>
<1>. DEFINE n      == i + (IdxOffset(x) \div 2 ^ h)
            a      == Addr(0, t, "FORSTREE", f, h, n)
            b      == ForsAddr(WotsAt(0, t, f), "FORSTREE")
            leaves == [j \in 0..(2 ^ A - 1) |-> ForsLeaf(k, WotsAt(0, t, f), j + IdxOffset(x))]
            levels == ForsTree(k, WotsAt(0, t, f), x)
            in     == IF h = 0 THEN << ForsSk(k, WotsAt(0, t, f), i + IdxOffset(x)) >>
                      ELSE << levels[h - 1][2 * i], levels[h - 1][2 * i + 1] >>
            node   == levels[h][i]
<1>1. A \in Nat
  BY ForsAssumption
<1>2. levels = TreeLevels(k, b, leaves, A, IdxOffset(x))
  BY DEF ForsTree
<1>3. n \in Nat /\ n \div 2 ^ (A - h) = x /\ n % 2 ^ (A - h) = i
  BY NodeNumber
<1>4. node = Thash(k, a, in)
  <2>1. CASE h = 0
    <3>1. levels[0] = leaves
      <4>. HIDE DEF b, leaves, levels
      <4>. QED  BY <1>1, <1>2, TreeLeaves
    <3>2. i \in 0..(2 ^ A - 1)
      <4>1. A - h = A
        BY <1>1, <2>1
      <4>. QED  BY <4>1, Zenon
    <3>3. n = i + IdxOffset(x)
      <4>1. 2 ^ A \in Nat
        BY <1>1, PowerNat
      <4>2. IdxOffset(x) \in Nat
        <5>1. \A p, q \in Nat : p * q \in Nat
          OBVIOUS
        <5>. QED  BY <4>1, <5>1 DEF IdxOffset
      <4>3. \A y \in Nat : y \div 1 = y
        OBVIOUS
      <4>4. 2 ^ h = 1
        BY <2>1
      <4>. HIDE DEF b, leaves, levels, a, in
      <4>. QED  BY <4>2, <4>3, <4>4
    <3>4. node = ForsLeaf(k, WotsAt(0, t, f), i + IdxOffset(x))
      BY <2>1, <3>1, <3>2
    <3>5. a = Addr(0, t, "FORSTREE", f, 0, i + IdxOffset(x))
      BY <2>1, <3>3
    <3>6. ForsLeaf(k, WotsAt(0, t, f), i + IdxOffset(x)) =
            Thash(k, Addr(0, t, "FORSTREE", f, 0, i + IdxOffset(x)),
                  << ForsSk(k, WotsAt(0, t, f), i + IdxOffset(x)) >>)
      BY ForsFields DEF ForsLeaf, ForsSkToLeaf
    <3>7. in = << ForsSk(k, WotsAt(0, t, f), i + IdxOffset(x)) >>
      BY <2>1
    <3>. HIDE DEF node, a, in
    <3>. QED  BY <3>4, <3>5, <3>6, <3>7
  <2>2. CASE h # 0
    <3>1. h \in 1..A
      BY <1>1, <2>2
    <3>2. IsNode(levels, k, b, IdxOffset(x), h, i)
      <4>. HIDE DEF b, leaves, levels
      <4>. QED  BY <1>1, <1>2, <3>1, TreeNode
    <3>3. NodeAddr(b, h, n) = a
      <4>. HIDE DEF n
      <4>. QED  BY ForsFields
    <3>4. node = Thash(k, NodeAddr(b, h, n), << levels[h - 1][2 * i], levels[h - 1][2 * i + 1] >>)
      BY <3>2 DEF IsNode
    <3>5. in = << levels[h - 1][2 * i], levels[h - 1][2 * i + 1] >>
      BY <2>2
    <3>. HIDE DEF node, a, in, levels, b, n
    <3>. QED  BY <3>3, <3>4, <3>5
  <2>. QED  BY <2>1, <2>2
<1>5. CallOf(k, a) = node
  <2>. HIDE DEF n
  <2>1. CallOf(k, a) = ForsNodeAt(k, t, f, h, n)
    BY FieldsOf DEF CallOf
  <2>. QED  BY <1>3, <2>1 DEF ForsNodeAt
<1>6. InReach(a)
  <2>. HIDE DEF n
  <2>. QED  BY <1>3, FieldsOf DEF InReach, AddrType
<1>. HIDE DEF a, node, in
<1>7. Made(k, node) /\ node.in = in
  BY <1>4, <1>5, <1>6, ThashFields DEF Made
<1>. QED  BY <1>7 DEF node, in

\* The key of the few-time trees.
LEMMA ForsRootMade ==
  ASSUME NEW k, NEW t, NEW f
  PROVE  /\ Made(k, ForsRootAt(k, t, f))
         /\ ForsRootAt(k, t, f).in =
              [x \in 1..K |-> TreeRoot(ForsTree(k, WotsAt(0, t, f), x - 1), A)]
<1>. DEFINE a  == Addr(0, t, "FORSPK", f, 0, 0)
            y  == ForsRootAt(k, t, f)
            in == [x \in 1..K |-> TreeRoot(ForsTree(k, WotsAt(0, t, f), x - 1), A)]
<1>1. \A x \in 1..K : x - 1 \in 0..(K - 1)
  BY ForsAssumption
<1>2. y = Thash(k, a, in)
  BY <1>1, ForsFields DEF ForsRootAt, ForsPk
<1>3. CallOf(k, a) = y
  BY FieldsOf DEF CallOf
<1>4. InReach(a)
  BY FieldsOf DEF InReach, AddrType
<1>. HIDE DEF a, y, in
<1>5. Made(k, y) /\ y.in = in
  BY <1>2, <1>3, <1>4, ThashFields DEF Made
<1>. QED  BY <1>5 DEF y, in

\* The root of a tree is a node of it.
LEMMA ForsTreeRootMade ==
  ASSUME NEW k, NEW t, NEW f, NEW x \in Nat
  PROVE  Made(k, TreeRoot(ForsTree(k, WotsAt(0, t, f), x), A))
<1>1. A \in 0..A /\ A - A = 0
  BY ForsAssumption
<1>2. 0..(2 ^ (A - A) - 1) = 0..0
  <2>1. 2 ^ 0 = 1 /\ 1 - 1 = 0
    OBVIOUS
  <2>. QED  BY <1>1, <2>1, Zenon
<1>3. 0 \in 0..(2 ^ (A - A) - 1)
  BY <1>2
<1>4. ASSUME NEW h \in 0..A, NEW i \in 0..(2 ^ (A - h) - 1)
      PROVE  Made(k, ForsTree(k, WotsAt(0, t, f), x)[h][i])
  BY ForsNodeMade
<1>5. Made(k, ForsTree(k, WotsAt(0, t, f), x)[A][0])
  BY <1>1, <1>3, <1>4, Zenon
<1>. QED  BY <1>5 DEF TreeRoot

LEMMA SubtreeRootMade ==
  ASSUME NEW k, NEW l, NEW t
  PROVE  Made(k, SubtreeRootAt(k, l, t))
<1>1. H \in 0..H /\ H - H = 0
  BY SphincsAssumption
<1>2. 0..(2 ^ (H - H) - 1) = 0..0
  <2>1. 2 ^ 0 = 1 /\ 1 - 1 = 0
    OBVIOUS
  <2>. QED  BY <1>1, <2>1, Zenon
<1>3. 0 \in 0..(2 ^ (H - H) - 1)
  BY <1>2
<1>4. Made(k, SubtreeAt(k, l, t)[H][0])
  BY <1>1, <1>3, SubtreeMade
<1>. QED  BY <1>4 DEF TreeRoot, SubtreeRootAt, SubtreeAt

\* What goes into a hash: finitely many values, each made or a secret.
InputsGood(k, in) == IsFiniteSet(DOMAIN in) /\ \A j \in DOMAIN in : Good(k, in[j])

LEMMA OneInput ==
  ASSUME NEW k, NEW v, Good(k, v)
  PROVE  InputsGood(k, << v >>)
<1>1. DOMAIN << v >> = 1..1 /\ << v >>[1] = v
  OBVIOUS
<1>2. 1..1 = {1}
  OBVIOUS
<1>3. IsFiniteSet(1..1)
  BY 1 \in Nat, Interval, Zenon
<1>. QED  BY <1>1, <1>2, <1>3, Zenon DEF InputsGood

LEMMA TwoInputs ==
  ASSUME NEW k, NEW v, NEW w, Good(k, v), Good(k, w)
  PROVE  InputsGood(k, << v, w >>)
<1>1. DOMAIN << v, w >> = 1..2 /\ << v, w >>[1] = v /\ << v, w >>[2] = w
  OBVIOUS
<1>2. 1..2 = {1, 2}
  OBVIOUS
<1>3. IsFiniteSet(1..2)
  BY 2 \in Nat, Interval, Zenon
<1>. QED  BY <1>1, <1>2, <1>3, Zenon DEF InputsGood

LEMMA SecretInput ==
  ASSUME NEW k
  PROVE  InputsGood(k, << SkSeed(k) >>)
<1>1. Good(k, SkSeed(k))
  BY DEF Good, SkSeed
<1>. QED  BY <1>1, OneInput

\* What goes into a node of a few-time tree.
LEMMA ForsNodeInputs ==
  ASSUME NEW k, NEW t, NEW f, NEW x \in Nat, NEW h \in 0..A, NEW i \in 0..(2 ^ (A - h) - 1)
  PROVE  InputsGood(k, ForsTree(k, WotsAt(0, t, f), x)[h][i].in)
<1>. DEFINE levels == ForsTree(k, WotsAt(0, t, f), x)
            in     == levels[h][i].in
            leaf   == << ForsSk(k, WotsAt(0, t, f), i + IdxOffset(x)) >>
            pair   == << levels[h - 1][2 * i], levels[h - 1][2 * i + 1] >>
<1>1. h = 0 => in = leaf
  BY ForsNodeMade
<1>2. h # 0 => in = pair
  BY ForsNodeMade
<1>3. CASE h = 0
  <2>1. in = leaf
    BY <1>1, <1>3, Zenon
  <2>2. Good(k, ForsSk(k, WotsAt(0, t, f), i + IdxOffset(x)))
    BY SkMade DEF Good
  <2>. QED  BY <2>1, <2>2, OneInput
<1>4. CASE h # 0
  <2>1. A \in Nat /\ h \in 1..A /\ h - 1 \in 0..A
    BY <1>4, ForsAssumption
  <2>2. in = pair
    BY <1>2, <1>4, Zenon
  <2>3. /\ 2 * i \in 0..(2 ^ (A - (h - 1)) - 1)
        /\ 2 * i + 1 \in 0..(2 ^ (A - (h - 1)) - 1)
    BY <2>1, Children
  <2>4. ASSUME NEW g \in 0..A, NEW j \in 0..(2 ^ (A - g) - 1)
        PROVE  Good(k, levels[g][j])
    BY ForsNodeMade DEF Good
  <2>5. Good(k, levels[h - 1][2 * i]) /\ Good(k, levels[h - 1][2 * i + 1])
    <3>. HIDE DEF levels
    <3>. QED  BY <2>1, <2>3, <2>4, Zenon
  <2>. QED  BY <2>2, <2>5, TwoInputs
<1>. QED  BY <1>3, <1>4

LEMMA SubtreeInputs ==
  ASSUME NEW k, NEW l, NEW t, NEW h \in 1..H, NEW i \in 0..(2 ^ (H - h) - 1)
  PROVE  InputsGood(k, SubtreeAt(k, l, t)[h][i].in)
<1>. DEFINE levels == SubtreeAt(k, l, t)
<1>1. H \in Nat /\ h - 1 \in 0..H
  BY SphincsAssumption
<1>2. levels[h][i].in = << levels[h - 1][2 * i], levels[h - 1][2 * i + 1] >>
  BY NodeMade
<1>3. /\ 2 * i \in 0..(2 ^ (H - (h - 1)) - 1)
      /\ 2 * i + 1 \in 0..(2 ^ (H - (h - 1)) - 1)
  BY <1>1, Children
<1>4. ASSUME NEW g \in 0..H, NEW j \in 0..(2 ^ (H - g) - 1)
      PROVE  Good(k, levels[g][j])
  BY SubtreeMade DEF Good
<1>5. Good(k, levels[h - 1][2 * i]) /\ Good(k, levels[h - 1][2 * i + 1])
  <2>. HIDE DEF levels
  <2>. QED  BY <1>1, <1>3, <1>4, Zenon
<1>. QED  BY <1>2, <1>5, TwoInputs

\* Under every address the inputs are made again, or are the secret seed.
LEMMA InputsMade ==
  ASSUME NEW k, NEW y, Made(k, y)
  PROVE  InputsGood(k, y.in)
<1>. DEFINE a == y.addr
<1>1. InReach(a) /\ y = CallOf(k, a)
  BY DEF Made
<1>. HIDE DEF a
<1>2. CASE a.type = "WOTSPRF"
  <2>1. y = ChainStart(k, WotsAt(a.layer, a.tree, a.kp), a.b27)
    BY <1>1, <1>2 DEF CallOf
  <2>. QED  BY <2>1, StartMade, SecretInput
<1>3. CASE a.type = "WOTS"
  <2>. DEFINE Value(n) == ChainValue(k, WotsAt(a.layer, a.tree, a.kp), a.b27, n)
  <2>1. y = Value(a.index + 1)
    BY <1>1, <1>3 DEF CallOf
  <2>2. a.index \in 0..(W - 2) /\ W \in Nat
    BY <1>1, <1>3, WType DEF InReach
  <2>3. /\ a.index + 1 \in 0..(W - 1) /\ a.index + 1 # 0
        /\ a.index \in 0..(W - 1) /\ (a.index + 1) - 1 = a.index
    BY <2>2
  <2>4. Value(a.index + 1).in = << Value((a.index + 1) - 1) >>
    BY <2>3, ValueMade
  <2>5. Good(k, Value(a.index))
    BY <2>3, ValueMade DEF Good
  <2>. HIDE DEF Value
  <2>6. y.in = << Value(a.index) >>
    BY <2>1, <2>3, <2>4
  <2>. QED  BY <2>5, <2>6, OneInput
<1>4. CASE a.type = "WOTSPK"
  <2>1. y = WotsLeaf(k, PlaceAddr(a.layer, a.tree), a.kp)
    BY <1>1, <1>4 DEF CallOf
  <2>2. y.in = [c \in 1..WotsLen |->
                  ChainValue(k, WotsAt(a.layer, a.tree, a.kp), c - 1, W - 1)]
    BY <2>1, LeafMade
  <2>3. W - 1 \in 0..(W - 1)
    BY WType
  <2>4. \A c : Good(k, ChainValue(k, WotsAt(a.layer, a.tree, a.kp), c, W - 1))
    BY <2>3, ValueMade DEF Good
  <2>5. DOMAIN y.in = 1..WotsLen /\ IsFiniteSet(1..WotsLen)
    <3>1. WotsLen \in Nat
      BY Len1Type, WotsAssumption DEF WotsLen
    <3>. QED  BY <2>2, <3>1, Interval
  <2>. QED  BY <2>2, <2>4, <2>5 DEF InputsGood
<1>5. CASE a.type = "HASHTREE"
  <2>1. y = SubtreeAt(k, a.layer, a.tree)[a.b27][a.index]
    BY <1>1, <1>5 DEF CallOf
  <2>2. a.b27 \in 1..H /\ a.index \in 0..(2 ^ (H - a.b27) - 1)
    BY <1>1, <1>5 DEF InReach
  <2>. QED  BY <2>1, <2>2, SubtreeInputs
<1>6. CASE a.type = "FORSPRF"
  <2>1. y = ForsSk(k, WotsAt(0, a.tree, a.kp), a.index)
    BY <1>1, <1>6 DEF CallOf
  <2>. QED  BY <2>1, SkMade, SecretInput
<1>7. CASE a.type = "FORSTREE"
  <2>. DEFINE h == a.b27
              P == 2 ^ (A - h)
              x == a.index \div P
              i == a.index % P
  <2>1. h \in 0..A /\ a.index \in Nat
    BY <1>1, <1>7 DEF InReach
  <2>2. P \in Nat \ {0}
    <3>1. A - h \in Nat
      BY <2>1, ForsAssumption
    <3>. HIDE DEF h
    <3>. QED  BY <3>1, PowerNat
  <2>3. x \in Nat /\ i \in 0..(P - 1)
    <3>. HIDE DEF P
    <3>. QED  BY <2>1, <2>2
  <2>4. y = ForsTree(k, WotsAt(0, a.tree, a.kp), x)[h][i]
    BY <1>1, <1>7 DEF CallOf, ForsNodeAt
  <2>5. i \in 0..(2 ^ (A - h) - 1)
    BY <2>3
  <2>. HIDE DEF h, P, x, i
  <2>. QED  BY <2>1, <2>3, <2>4, <2>5, ForsNodeInputs
<1>8. CASE a.type = "FORSPK"
  <2>1. y = ForsRootAt(k, a.tree, a.kp)
    BY <1>1, <1>8 DEF CallOf
  <2>2. y.in = [x \in 1..K |-> TreeRoot(ForsTree(k, WotsAt(0, a.tree, a.kp), x - 1), A)]
    BY <2>1, ForsRootMade
  <2>3. K \in Nat /\ \A x \in 1..K : x - 1 \in Nat
    BY ForsAssumption
  <2>4. \A x \in 1..K : Good(k, TreeRoot(ForsTree(k, WotsAt(0, a.tree, a.kp), x - 1), A))
    BY <2>3, ForsTreeRootMade DEF Good
  <2>5. DOMAIN y.in = 1..K /\ IsFiniteSet(1..K)
    BY <2>2, <2>3, Interval
  <2>. QED  BY <2>2, <2>4, <2>5 DEF InputsGood
<1>. QED  BY <1>1, <1>2, <1>3, <1>4, <1>5, <1>6, <1>7, <1>8 DEF InReach, AddrType

\* The values of a function of finitely many arguments are finitely many.
LEMMA FiniteRange ==
  ASSUME NEW f, IsFiniteSet(DOMAIN f)
  PROVE  IsFiniteSet({f[j] : j \in DOMAIN f})
<1>. DEFINE S == DOMAIN f
            T == {f[j] : j \in S}
            g == [j \in S |-> f[j]]
<1>1. g \in [S -> T] /\ \A t \in T : \E s \in S : g[s] = t
  OBVIOUS
<1>. HIDE DEF S, T, g
<1>2. g \in Surjection(S, T)
  BY <1>1, Fun_IsSurj
<1>3. IsFiniteSet(T)
  BY <1>2, FS_Surjection, Zenon DEF S
<1>. QED  BY <1>3 DEF T, S

\* A finite set of secret seeds, and of values that their keys make.
AllMade(S) == IsFiniteSet(S) /\ \A x \in S : Good(x.seed, x)

\* What they are made from is such a set.
LEMMA InputsAllMade ==
  ASSUME NEW S, AllMade(S)
  PROVE  AllMade(Inputs(S))
<1>. DEFINE into(c) == {c.in[i] : i \in DOMAIN c.in}
            f == [c \in S |-> into(c)]
<1>1. ASSUME NEW c \in S
      PROVE  /\ IsFiniteSet(DOMAIN c.in)
             /\ \A i \in DOMAIN c.in : Good(c.in[i].seed, c.in[i])
  <2>1. CASE c.in = << >>
    <3>1. DOMAIN c.in = {}
      BY <2>1
    <3>. QED  BY <3>1, FS_EmptySet
  <2>2. CASE Made(c.seed, c)
    <3>1. InputsGood(c.seed, c.in)
      BY <2>2, InputsMade
    <3>2. \A k, x : Good(k, x) => Good(x.seed, x)
      BY DEF Good, Made
    <3>. QED  BY <3>1, <3>2 DEF InputsGood
  <2>. QED  BY <2>1, <2>2 DEF AllMade, Good
<1>2. \A c \in S : IsFiniteSet(into(c))
  BY <1>1, FiniteRange
<1>3. DOMAIN f = S /\ IsFiniteSet(S)
  BY DEF AllMade
<1>4. IsFiniteSet({f[c] : c \in DOMAIN f})
  <2>. HIDE DEF f
  <2>. QED  BY <1>3, FiniteRange
<1>5. {f[c] : c \in DOMAIN f} = {into(c) : c \in S}
  BY <1>3
<1>6. IsFiniteSet(UNION {into(c) : c \in S})
  <2>. DEFINE T == {into(c) : c \in S}
  <2>1. IsFiniteSet(T) /\ \A U \in T : IsFiniteSet(U)
    BY <1>2, <1>4, <1>5
  <2>. HIDE DEF T
  <2>2. IsFiniteSet(UNION T)
    BY <2>1, FS_UNION
  <2>. QED  BY <2>2 DEF T
<1>7. \A x \in Inputs(S) : Good(x.seed, x)
  BY <1>1 DEF Inputs
<1>. QED  BY <1>6, <1>7 DEF AllMade, Inputs

\* f[i] is what is i hashes below S, up to n.
BelowUpTo(f, n, S) == f = [i \in 0..n |-> IF i = 0 THEN S ELSE Inputs(f[i - 1])]

LEMMA BelowExists ==
  ASSUME NEW S, NEW n \in Nat
  PROVE  \E f : BelowUpTo(f, n, S)
<1>. DEFINE T == {m \in Nat : \E f : BelowUpTo(f, m, S)}
<1>1. 0 \in T
  <2>. DEFINE f == [i \in 0..0 |-> S]
  <2>1. f = [i \in 0..0 |-> IF i = 0 THEN S ELSE Inputs(f[i - 1])]
    OBVIOUS
  <2>. QED  BY <2>1 DEF BelowUpTo
<1>2. ASSUME NEW m \in Nat, m \in T PROVE m + 1 \in T
  <2>1. PICK f : BelowUpTo(f, m, S)
    BY <1>2
  <2>. DEFINE g == [i \in 0..(m + 1) |-> IF i = m + 1 THEN Inputs(f[m]) ELSE f[i]]
  <2>2. ASSUME NEW i \in 0..(m + 1)
        PROVE  g[i] = IF i = 0 THEN S ELSE Inputs(g[i - 1])
    <3>1. CASE i = m + 1
      BY <3>1
    <3>2. CASE i # m + 1
      <4>1. i \in 0..m /\ g[i] = f[i]
        BY <3>2
      <4>2. f[i] = IF i = 0 THEN S ELSE Inputs(f[i - 1])
        BY <2>1, <4>1 DEF BelowUpTo
      <4>3. i # 0 => g[i - 1] = f[i - 1]
        BY <3>2
      <4>. QED  BY <4>1, <4>2, <4>3
    <3>. QED  BY <3>1, <3>2
  <2>3. BelowUpTo(g, m + 1, S)
    <3>1. g = [i \in 0..(m + 1) |-> g[i]]
      OBVIOUS
    <3>. HIDE DEF g
    <3>. QED  BY <2>2, <3>1 DEF BelowUpTo
  <2>. QED  BY <2>3
<1>3. Nat \subseteq T
  <2>. HIDE DEF T
  <2>. QED  BY <1>1, <1>2, Induction
<1>. QED  BY <1>3

\* All that is hashed on the way to made values is made.
LEMMA CallsAllMade ==
  ASSUME NEW S, AllMade(S)
  PROVE  AllMade(HashCalls(S)) /\ \A c \in HashCalls(S) : c.in # << >>
<1>. DEFINE m == W + A + H + 3
            below[n \in 0..m] == IF n = 0 THEN S ELSE Inputs(below[n - 1])
<1>1. m \in Nat
  BY WType, ForsAssumption, SphincsAssumption
<1>2. HashCalls(S) = {c \in UNION {below[n] : n \in 0..m} : c.in # << >>}
  BY DEF HashCalls
<1>. HIDE DEF m
<1>3. BelowUpTo(below, m, S)
  <2>1. PICK f : BelowUpTo(f, m, S)
    BY <1>1, BelowExists
  <2>2. f = [i \in 0..m |-> IF i = 0 THEN S ELSE Inputs(f[i - 1])]
    BY <2>1 DEF BelowUpTo
  <2>3. below = [i \in 0..m |-> IF i = 0 THEN S ELSE Inputs(below[i - 1])]
    BY <2>2
  <2>. HIDE DEF below
  <2>. QED  BY <2>3 DEF BelowUpTo
<1>. HIDE DEF below
<1>4. \A n \in 0..m : below[n] = IF n = 0 THEN S ELSE Inputs(below[n - 1])
  BY <1>3 DEF BelowUpTo
<1>5. \A n \in 0..m : AllMade(below[n])
  <2>. DEFINE T == {n \in Nat : n \in 0..m => AllMade(below[n])}
  <2>1. 0 \in T
    BY <1>1, <1>4
  <2>2. ASSUME NEW n \in Nat, n \in T PROVE n + 1 \in T
    <3>. SUFFICES ASSUME n + 1 \in 0..m PROVE AllMade(below[n + 1])
      OBVIOUS
    <3>1. n \in 0..m /\ n + 1 # 0 /\ (n + 1) - 1 = n
      BY <1>1
    <3>2. AllMade(below[n])
      BY <2>2, <3>1
    <3>3. below[n + 1] = Inputs(below[n])
      BY <1>4, <3>1
    <3>. QED  BY <3>2, <3>3, InputsAllMade
  <2>3. Nat \subseteq T
    <3>. HIDE DEF T
    <3>. QED  BY <2>1, <2>2, Induction
  <2>. QED  BY <1>1, <2>3
<1>6. IsFiniteSet(UNION {below[n] : n \in 0..m})
  <2>. DEFINE T == {below[n] : n \in 0..m}
  <2>1. DOMAIN below = 0..m /\ IsFiniteSet(0..m)
    BY <1>1, <1>3, FS_Interval DEF BelowUpTo
  <2>2. IsFiniteSet(T)
    BY <2>1, FiniteRange
  <2>3. \A U \in T : IsFiniteSet(U)
    BY <1>5 DEF AllMade
  <2>. HIDE DEF T
  <2>4. IsFiniteSet(UNION T)
    BY <2>2, <2>3, FS_UNION
  <2>. QED  BY <2>4 DEF T
<1>7. IsFiniteSet(HashCalls(S))
  BY <1>2, <1>6, FS_Subset
<1>8. ASSUME NEW c \in HashCalls(S) PROVE Good(c.seed, c) /\ c.in # << >>
  BY <1>2, <1>5 DEF AllMade
<1>. QED  BY <1>7, <1>8 DEF AllMade

\* What is kept is finite, and a public key is its key's root.
FewKept ==
  /\ IsFiniteSet(certified) /\ IsFiniteSet(revealed)
  /\ DOMAIN pkRoot = Keys /\ IsFiniteSet({pkRoot[k] : k \in Keys})
  /\ PublicKeys

LEMMA InitFewKept == Init => FewKept
<1>. SUFFICES ASSUME Init PROVE FewKept
  OBVIOUS
<1>1. /\ certified = {} /\ revealed = {}
      /\ DOMAIN pkRoot = Keys /\ \A k \in Keys : pkRoot[k] = Unset
  BY DEF Init
<1>2. IsFiniteSet({}) /\ IsFiniteSet({Unset})
  BY FS_EmptySet, FS_Singleton, Zenon
<1>3. {pkRoot[k] : k \in Keys} \in SUBSET {Unset}
  BY <1>1
<1>4. IsFiniteSet({pkRoot[k] : k \in Keys})
  BY <1>2, <1>3, FS_Subset, Zenon
<1>. QED  BY <1>1, <1>2, <1>4 DEF FewKept, PublicKeys

LEMMA NextFewKept == FewKept /\ [Next]_vars => FewKept'
<1>. SUFFICES ASSUME FewKept, [Next]_vars PROVE FewKept'
  OBVIOUS
<1>1. ASSUME UNCHANGED << pkRoot, certified, revealed >> PROVE FewKept'
  BY <1>1 DEF FewKept, PublicKeys
<1>2. ASSUME NEW k \in Keys, KeyPair(k) PROVE FewKept'
  <2>1. /\ pkRoot' = [pkRoot EXCEPT ![k] = MerkleGenRoot(k)]
        /\ certified' = certified /\ revealed' = revealed
    BY <1>2 DEF KeyPair, history
  <2>. DEFINE S == {pkRoot[j] : j \in Keys}
              T == {pkRoot'[j] : j \in Keys}
  <2>2. IsFiniteSet(S \cup {MerkleGenRoot(k)})
    BY FS_AddElement DEF FewKept
  <2>3. /\ DOMAIN pkRoot' = Keys
        /\ \A j \in Keys : pkRoot'[j] = IF j = k THEN MerkleGenRoot(k) ELSE pkRoot[j]
    BY <2>1 DEF FewKept
  <2>4. T \in SUBSET (S \cup {MerkleGenRoot(k)})
    BY <2>3
  <2>5. IsFiniteSet(T)
    <3>. HIDE DEF S, T
    <3>. QED  BY <2>2, <2>4, FS_Subset, Zenon
  <2>6. PublicKeys'
    BY <2>3 DEF FewKept, PublicKeys
  <2>. QED  BY <2>1, <2>3, <2>5, <2>6 DEF FewKept
<1>3. ASSUME SignFors PROVE FewKept'
  <2>. DEFINE sig == ForsSign(key, mhash, wotsAddr).sig
              indices == MessageToIndices(mhash)
              f == [t \in 0..(K - 1) |->
                      [at |-> << key, tree, idxLeaf, t, indices[t] >>, sk |-> sig[t].sk]]
              given == {[at |-> << key, tree, idxLeaf, t, indices[t] >>, sk |-> sig[t].sk] :
                          t \in 0..(K - 1)}
  <2>1. /\ revealed' = revealed \cup given
        /\ pkRoot' = pkRoot /\ certified' = certified
    BY <1>3 DEF SignFors
  <2>2. DOMAIN f = 0..(K - 1) /\ IsFiniteSet(0..(K - 1))
    BY ForsAssumption, FS_Interval
  <2>3. given = {f[t] : t \in DOMAIN f}
    <3>. HIDE DEF sig, indices
    <3>. QED  OBVIOUS
  <2>4. IsFiniteSet({f[t] : t \in DOMAIN f})
    <3>. HIDE DEF f
    <3>. QED  BY <2>2, FiniteRange
  <2>. HIDE DEF given, f, sig, indices
  <2>5. IsFiniteSet(revealed')
    BY <2>1, <2>3, <2>4, FS_Union DEF FewKept
  <2>. QED  BY <2>1, <2>5 DEF FewKept, PublicKeys
<1>4. ASSUME SignLayer PROVE FewKept'
  <2>1. PICK c : certified' = certified \cup {c}
    BY <1>4 DEF SignLayer
  <2>2. pkRoot' = pkRoot /\ revealed' = revealed
    BY <1>4 DEF SignLayer
  <2>3. IsFiniteSet(certified')
    BY <2>1, FS_AddElement DEF FewKept
  <2>. QED  BY <2>2, <2>3 DEF FewKept, PublicKeys
<1>5. ASSUME NEW k \in Keys, Open(k) \/ OpenShort(k) PROVE FewKept'
  BY <1>1, <1>5 DEF Open, OpenShort, history
<1>6. ASSUME NEW k \in Keys, NEW m \in Msgs, Sign(k, m) PROVE FewKept'
  BY <1>1, <1>6 DEF Sign
<1>7. ASSUME OpenFors \/ OpenLayer \/ Compare PROVE FewKept'
  BY <1>1, <1>7 DEF OpenFors, OpenLayer, Compare, history
<1>8. CASE UNCHANGED vars
  BY <1>1, <1>8 DEF vars, history
<1>. QED
  BY <1>2, <1>3, <1>4, <1>5, <1>6, <1>7, <1>8 DEF Next

\* All that was signed, published and revealed, and made by its key.
Kept ==
  {c.root : c \in certified} \cup {pkRoot[k] : k \in Keys} \cup {s.sk : s \in revealed}

LEMMA KeptAllMade ==
  ASSUME SignInv, FewKept
  PROVE  AllMade(Kept)
<1>. DEFINE R == [c \in certified |-> c.root]
            T == [s \in revealed |-> s.sk]
<1>1. \A k, x : Made(k, x) => Good(x.seed, x)
  BY DEF Good, Made
<1>2. ASSUME NEW c \in certified PROVE Good(c.root.seed, c.root)
  <2>1. PICK k, l, t, f : c.root = SignedAt(k, l, t, f)
    BY DEF SignInv, CertifiedByPlace
  <2>2. Made(k, SignedAt(k, l, t, f))
    <3>1. Made(k, ForsRootAt(k, t, f))
      BY ForsRootMade
    <3>2. \A n, j : Made(k, SubtreeRootAt(k, n, j))
      BY SubtreeRootMade
    <3>. QED  BY <3>1, <3>2 DEF SignedAt
  <2>. QED  BY <1>1, <2>1, <2>2
<1>3. ASSUME NEW k \in Keys PROVE Good(pkRoot[k].seed, pkRoot[k])
  <2>1. CASE pkRoot[k] = Unset
    BY <2>1 DEF Unset, SkSeed, Good
  <2>2. CASE pkRoot[k] # Unset
    <3>1. pkRoot[k] = SubtreeRootAt(k, D - 1, 0)
      BY <2>2, TopIsPublic DEF FewKept, PublicKeys
    <3>2. Made(k, SubtreeRootAt(k, D - 1, 0))
      BY SubtreeRootMade
    <3>. QED  BY <1>1, <3>1, <3>2
  <2>. QED  BY <2>1, <2>2
<1>4. ASSUME NEW s \in revealed PROVE Good(s.sk.seed, s.sk)
  <2>1. PICK k, t, f, n : s.sk = ForsSk(k, WotsAt(0, t, f), n)
    BY DEF SignInv, RevealedByPlace
  <2>2. Made(k, ForsSk(k, WotsAt(0, t, f), n))
    BY SkMade
  <2>. QED  BY <1>1, <2>1, <2>2
<1>5. IsFiniteSet({c.root : c \in certified})
  <2>1. DOMAIN R = certified /\ {R[c] : c \in DOMAIN R} = {c.root : c \in certified}
    OBVIOUS
  <2>2. IsFiniteSet({R[c] : c \in DOMAIN R})
    <3>. HIDE DEF R
    <3>. QED  BY <2>1, FiniteRange DEF FewKept
  <2>. QED  BY <2>1, <2>2
<1>6. IsFiniteSet({s.sk : s \in revealed})
  <2>1. DOMAIN T = revealed /\ {T[s] : s \in DOMAIN T} = {s.sk : s \in revealed}
    OBVIOUS
  <2>2. IsFiniteSet({T[s] : s \in DOMAIN T})
    <3>. HIDE DEF T
    <3>. QED  BY <2>1, FiniteRange DEF FewKept
  <2>. QED  BY <2>1, <2>2
<1>7. IsFiniteSet(Kept)
  <2>. DEFINE U == {c.root : c \in certified}
              V == {pkRoot[k] : k \in Keys}
              X == {s.sk : s \in revealed}
  <2>1. IsFiniteSet(U) /\ IsFiniteSet(V) /\ IsFiniteSet(X)
    BY <1>5, <1>6 DEF FewKept
  <2>2. Kept = (U \cup V) \cup X
    BY DEF Kept
  <2>. HIDE DEF U, V, X
  <2>. QED  BY <2>1, <2>2, FS_Union
<1>8. \A x \in Kept : Good(x.seed, x)
  BY <1>2, <1>3, <1>4 DEF Kept
<1>. QED  BY <1>7, <1>8 DEF AllMade

\* Whatever a key hashes for what it signed, published and revealed, it hashes
\* under an address of its own: set_type, set_keypair_addr and the heights and
\* numbers of address.c never let two inputs meet (address.c:30).
THEOREM AddressesApart == Spec => []AddressesUsedOnce
<1>1. SignInv /\ FewKept => AddressesUsedOnce
  <2>. SUFFICES ASSUME SignInv, FewKept, NEW k \in Keys
                PROVE  LET mine == {c \in HashCalls(Kept) : c.seed = k}
                       IN  Cardinality({c.addr : c \in mine}) = Cardinality(mine)
    BY DEF AddressesUsedOnce, Kept
  <2>. DEFINE made == HashCalls(Kept)
              mine == {c \in made : c.seed = k}
              at   == {c.addr : c \in mine}
              f    == [c \in mine |-> c.addr]
  <2>1. AllMade(made) /\ \A c \in made : c.in # << >>
    BY KeptAllMade, CallsAllMade
  <2>2. IsFiniteSet(mine) /\ \A c \in mine : Made(k, c)
    <3>1. mine \in SUBSET made
      OBVIOUS
    <3>2. IsFiniteSet(mine)
      <4>. HIDE DEF mine, made
      <4>. QED  BY <2>1, <3>1, FS_Subset, Zenon DEF AllMade
    <3>. HIDE DEF made
    <3>. QED  BY <2>1, <3>2 DEF AllMade, Good
  <2>3. f \in [mine -> at] /\ \A a \in at : \E c \in mine : f[c] = a
    <3>. HIDE DEF made
    <3>. QED  OBVIOUS
  <2>4. \A c, e \in mine : f[c] = f[e] => c = e
    <3>1. \A c \in mine : f[c] = c.addr
      <4>. HIDE DEF made
      <4>. QED  OBVIOUS
    <3>. HIDE DEF mine, made, f
    <3>. QED  BY <2>2, <3>1, MadeOnce
  <2>. HIDE DEF made, mine, at, f
  <2>5. f \in Bijection(mine, at)
    BY <2>3, <2>4, Fun_IsBij
  <2>6. ExistsBijection(mine, at)
    BY <2>5 DEF ExistsBijection
  <2>7. Cardinality(at) = Cardinality(mine)
    BY <2>2, <2>6, FS_Bijection
  <2>. QED  BY <2>7 DEF at, mine, made
<1>. QED  BY <1>1, InitFewKept, NextFewKept, SignInvariant, PTL DEF Spec
=============================================================================
