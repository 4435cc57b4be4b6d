------------------------------ MODULE Sphincs ------------------------------
(***************************************************************************)
(* The signature scheme: sign.c with merkle.c, over the trees, one-time    *)
(* and few-time signatures of the other modules.  A step of crypto_sign or *)
(* crypto_sign_open is one turn of its loop over the layers of trees.      *)
(*                                                                         *)
(* The hash of a message is whatever it is, but the same each time it is   *)
(* computed: digestOf remembers it.  certified is what each one-time key   *)
(* has signed, revealed the few-time secrets given away: nothing in the    *)
(* code keeps them.                                                        *)
(***************************************************************************)
EXTENDS Fors, Wots, FiniteSets

CONSTANTS
  Keys,         \* seeds given to crypto_sign_seed_keypair
  Msgs,         \* messages, with the random value they are signed with
  D,            \* SPX_D, layers of trees
  H,            \* SPX_TREE_HEIGHT
  Digests,      \* bound: what hash_message may give, before it is masked
  BytesOf(_),   \* the N bytes of a root
  MaxCalls      \* bound: calls of crypto_sign

ASSUME SphincsAssumption ==
  /\ D \in Nat \ {0} /\ H \in Nat \ {0} /\ MaxCalls \in Nat
  /\ \A d \in Digests : /\ d.mhash \in [0..(K * A - 1) -> 0..1]
                        /\ d.tree \in Nat /\ d.leaf \in Nat
  /\ "none" \notin Keys

VARIABLES
  pkRoot,    \* for each key the root in its public key, Unset before keypair
  pc,        \* "idle", or the next step of the call under way
  key,       \* of the call
  sm,        \* the signature being made or opened, and its message
  mhash, tree, idxLeaf, layer, root, wotsAddr, treeAddr,   \* locals
  outcome,   \* of the last crypto_sign_open
  digestOf, certified, revealed, signs

locals == << mhash, tree, idxLeaf, layer, root, wotsAddr, treeAddr >>
history == << digestOf, certified, revealed, signs >>
vars == << pkRoot, pc, key, sm, locals, outcome, history >>

Layers == 0..(D - 1)

\* What sm holds before crypto_sign, or when it is too short.
NoSignature == [signer |-> "none"]

-----------------------------------------------------------------------------
(* merkle.c *)

\* The WOTS public key and the signature at a leaf: wots_gen_leafx1.
WotsAddr(wots, leaf) == SetKeypair(CopySubtree(ZeroAddr, wots), leaf)

\* Mutant of WotsPkAddr: set_type is forgotten.
WotsPkAddrNoType(wots, leaf) == WotsAddr(wots, leaf)

WotsPkAddr(wots, leaf) == SetType(WotsAddr(wots, leaf), "WOTSPK")

WotsLeaf(seed, wots, leaf) ==
  Thash(seed, WotsPkAddr(wots, leaf),
        [c \in 1..WotsLen |-> ChainValue(seed, WotsAddr(wots, leaf), c - 1, W - 1)])

Subtree(seed, wots, treeaddr) ==
  TreeLevels(seed, SetType(treeaddr, "HASHTREE"),
             [leaf \in 0..(2 ^ H - 1) |-> WotsLeaf(seed, wots, leaf)], H, 0)

MerkleSign(seed, msg, wots, treeaddr, leaf) ==
  LET lengths == ChainLengths(BytesOf(msg))
      levels  == Subtree(seed, wots, treeaddr)
  IN  [sig  |-> [c \in 0..(WotsLen - 1) |->
                   ChainValue(seed, WotsAddr(wots, leaf), c, lengths[c])],
       path |-> AuthPath(levels, H, leaf),
       root |-> TreeRoot(levels, H)]

\* No leaf is signed for, no path is made.
MerkleGenRoot(seed) ==
  LET top == SetLayer(ZeroAddr, D - 1)
  IN  TreeRoot(Subtree(seed, top, top), H)

-----------------------------------------------------------------------------
(* sign.c *)

KeyPair(k) ==
  /\ pc = "idle" /\ pkRoot[k] = Unset
  /\ pkRoot' = [pkRoot EXCEPT ![k] = MerkleGenRoot(k)]
  /\ UNCHANGED << pc, key, sm, locals, outcome, history >>

\* hash_message, with the bits of its output beyond the tree and leaf masked.
TreeBits == H * (D - 1)

MaskedLeaf(d) == d.leaf % 2 ^ H
MaskedTree(d) == IF D = 1 THEN 0 ELSE d.tree % 2 ^ TreeBits

HashMessage(r, k, m) ==
  LET asked == << r, k, m >>
  IN  \E d \in Digests :
        /\ asked \in DOMAIN digestOf => d = digestOf[asked]
        /\ digestOf' = [x \in DOMAIN digestOf \cup {asked} |->
                           IF x = asked THEN d ELSE digestOf[x]]
        /\ mhash' = d.mhash /\ tree' = MaskedTree(d) /\ idxLeaf' = MaskedLeaf(d)

\* What crypto_sign_signature and crypto_sign_verify do alike at first.
SetUp(r, k, m) ==
  /\ key' = k /\ layer' = 0 /\ root' = Unset
  /\ HashMessage(r, k, m)
  /\ wotsAddr' = SetKeypair(SetTree(SetType(ZeroAddr, "WOTS"), tree'), idxLeaf')
  /\ treeAddr' = SetType(ZeroAddr, "HASHTREE")

\* gen_message_random: the same for a key, a random value and a message.
Random(k, m) == << "R", k, m >>

Sign(k, m) ==
  /\ pc = "idle" /\ pkRoot[k] # Unset /\ signs < MaxCalls
  /\ SetUp(Random(k, m), k, m)
  /\ sm' = [signer |-> k, r |-> Random(k, m), fors |-> << >>, layers |-> << >>, m |-> m]
  /\ pc' = "fors" /\ signs' = signs + 1 /\ outcome' = "none"
  /\ UNCHANGED << pkRoot, certified, revealed >>

SignFors ==
  /\ pc = "fors"
  /\ LET f == ForsSign(key, mhash, wotsAddr)
         indices == MessageToIndices(mhash)
     IN  /\ sm' = [sm EXCEPT !.fors = f.sig]
         /\ root' = f.pk
         /\ revealed' = revealed \cup
              {[at |-> << key, tree, idxLeaf, t, indices[t] >>, sk |-> f.sig[t].sk] :
                 t \in 0..(K - 1)}
  /\ pc' = "layer"
  /\ UNCHANGED << pkRoot, key, mhash, tree, idxLeaf, layer, wotsAddr, treeAddr,
                  outcome, digestOf, certified, signs >>

\* The addresses of the subtree, and of the keypair, of a turn of the loop.
LayerAddr == SetTree(SetLayer(treeAddr, layer), tree)

KeypairAddr == SetKeypair(CopySubtree(wotsAddr, LayerAddr), idxLeaf)

\* Mutant of NextLayer: the leaf is taken from the tree already shifted.
NextLayerShifted ==
  /\ tree' = tree \div 2 ^ H /\ idxLeaf' = tree' % 2 ^ H
  /\ layer' = layer + 1

\* The end of a turn: the tree is itself a leaf of the next layer.
NextLayer ==
  /\ idxLeaf' = tree % 2 ^ H /\ tree' = tree \div 2 ^ H
  /\ layer' = layer + 1

\* Trees leave the address of their root behind.
RootAddr(a) == NodeAddr(a, H, 0)

SignLayer ==
  /\ pc = "layer" /\ layer \in Layers
  /\ LET s == MerkleSign(key, root, KeypairAddr, LayerAddr, idxLeaf)
     IN  /\ sm' = [sm EXCEPT !.layers = Append(@, [wots |-> s.sig, path |-> s.path])]
         /\ root' = s.root
  /\ wotsAddr' = KeypairAddr /\ treeAddr' = RootAddr(LayerAddr)
  /\ certified' = certified \cup
       {[at |-> << key, layer, tree, idxLeaf >>, root |-> root,
         addr |-> WotsAddr(KeypairAddr, idxLeaf)]}
  /\ NextLayer
  /\ pc' = IF layer' = D THEN "idle" ELSE "layer"
  /\ UNCHANGED << pkRoot, key, mhash, outcome, digestOf, revealed, signs >>

Open(k) ==
  /\ pc = "idle" /\ sm # NoSignature /\ pkRoot[k] # Unset
  /\ SetUp(sm.r, k, sm.m)
  /\ pc' = "open-fors" /\ outcome' = "none"
  /\ UNCHANGED << pkRoot, sm, certified, revealed, signs >>

\* smlen < SPX_BYTES: what is there is no signature.
OpenShort(k) ==
  /\ pc = "idle"
  /\ sm' = NoSignature /\ key' = k /\ outcome' = "rejected"
  /\ UNCHANGED << pkRoot, pc, locals, history >>

OpenFors ==
  /\ pc = "open-fors"
  /\ root' = ForsPkFromSig(key, sm.fors, mhash, wotsAddr)
  /\ pc' = "open-layer"
  /\ UNCHANGED << pkRoot, key, sm, mhash, tree, idxLeaf, layer, wotsAddr, treeAddr,
                  outcome, history >>

OpenLayer ==
  /\ pc = "open-layer" /\ layer \in Layers
  /\ LET part    == sm.layers[layer + 1]
         lengths == ChainLengths(BytesOf(root))
         pk   == [c \in 1..WotsLen |->
                    ChainEnd(key, KeypairAddr, c - 1, part.wots[c - 1], lengths[c - 1])]
         leaf == Thash(key, SetType(CopyKeypair(ZeroAddr, KeypairAddr), "WOTSPK"), pk)
     IN  root' = ComputeRoot(key, LayerAddr, leaf, idxLeaf, 0, part.path, H)
  /\ wotsAddr' = SetHash(SetChain(KeypairAddr, WotsLen - 1), W - 2)
  /\ treeAddr' = RootAddr(LayerAddr)
  /\ NextLayer
  /\ pc' = IF layer' = D THEN "compare" ELSE "open-layer"
  /\ UNCHANGED << pkRoot, key, sm, mhash, outcome, history >>

Compare ==
  /\ pc = "compare"
  /\ outcome' = IF root = pkRoot[key] THEN "accepted" ELSE "rejected"
  /\ pc' = "idle"
  /\ UNCHANGED << pkRoot, key, sm, locals, history >>

Init ==
  /\ pkRoot = [k \in Keys |-> Unset] /\ pc = "idle" /\ key = CHOOSE k \in Keys : TRUE
  /\ sm = NoSignature
  /\ mhash = << >> /\ tree = 0 /\ idxLeaf = 0 /\ layer = 0 /\ root = Unset
  /\ wotsAddr = ZeroAddr /\ treeAddr = ZeroAddr /\ outcome = "none"
  /\ digestOf = << >> /\ certified = {} /\ revealed = {} /\ signs = 0

Next ==
  \/ \E k \in Keys : KeyPair(k) \/ Open(k) \/ OpenShort(k) \/ \E m \in Msgs : Sign(k, m)
  \/ SignFors \/ SignLayer \/ OpenFors \/ OpenLayer \/ Compare

Spec == Init /\ [][Next]_vars

-----------------------------------------------------------------------------
\* A signature made by crypto_sign opens under its key, and under no other,
\* nor does a part of one.
OpensUnderItsKey ==
  pc = "idle" /\ outcome # "none" => (outcome = "accepted" <=> key = sm.signer)

\* Whatever is signed, a one-time key signs one root only, for ever: the
\* hypertree's reason to exist.  Keys are told apart by their address, too.
OneTimeKeysSignOnce ==
  \A c, e \in certified :
    c.at[1] = e.at[1] /\ (c.at = e.at \/ c.addr = e.addr) =>
      c.at = e.at /\ c.root = e.root

\* A secret given away belongs to one leaf of one tree of one few-time key.
SecretsStayApart ==
  \A s, t \in revealed : s.sk = t.sk <=> s.at = t.at

\* "so that unrelated types of hashes don't accidentally get the same address
\* structure" (address.c:30): no address is hashed with two inputs.
Inputs(S) == UNION {{c.in[i] : i \in DOMAIN c.in} : c \in S}

HashCalls(S) ==
  LET below[n \in 0..(W + A + H + 3)] == IF n = 0 THEN S ELSE Inputs(below[n - 1])
  IN  {c \in UNION {below[n] : n \in 0..(W + A + H + 3)} : c.in # << >>}

AddressesUsedOnce ==
  pc = "idle" =>
    LET made == HashCalls({c.root : c \in certified} \cup
                          {pkRoot[k] : k \in Keys} \cup {s.sk : s \in revealed})
    IN  \A k \in Keys :
          LET mine == {c \in made : c.seed = k}
          IN  Cardinality({c.addr : c \in mine}) = Cardinality(mine)
=============================================================================
