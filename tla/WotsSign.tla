----------------------------- MODULE WotsSign -----------------------------
(***************************************************************************)
(* One leaf of a tree generated by wots_gen_leafx1, which signs with it if *)
(* it is the leaf to sign with, and the public key found again from the    *)
(* signature by wots_pk_from_sig.  A step is one chain; the addresses keep *)
(* what the chains before left in them.                                    *)
(***************************************************************************)
EXTENDS Wots

CONSTANT Leaves    \* indices of the leaf and of the one to sign with

ASSUME WotsSignAssumption == Leaves \subseteq Nat

VARIABLES
  msg,        \* the bytes of the root to sign
  ownLeaf, signLeaf,
  phase,      \* "generate", "verify", "done"
  chain,      \* i: the chain under way
  leafAddr,   \* info->leaf_addr
  pkBuffer, sig,
  wotsAddr,   \* the verifier's address
  pk          \* the verifier's public key

wotsVars ==
  << msg, ownLeaf, signLeaf, phase, chain, leafAddr, pkBuffer, sig, wotsAddr, pk >>

Chains == 0..(WotsLen - 1)
Subtree == SetTree(SetLayer(ZeroAddr, 1), 1)

WotsInit ==
  /\ msg \in Message /\ ownLeaf \in Leaves /\ signLeaf \in Leaves
  /\ phase = "generate" /\ chain = 0
  /\ leafAddr = SetKeypair(CopySubtree(ZeroAddr, Subtree), ownLeaf)
  /\ wotsAddr = SetKeypair(Subtree, signLeaf)
  /\ pkBuffer = [c \in Chains |-> Unset] /\ sig = [c \in Chains |-> Unset]
  /\ pk = [c \in Chains |-> Unset]

\* wots_k: the chain length, or ~0, which no step reaches, in the other leaves.
Signs == ownLeaf = signLeaf

Lengths == ChainLengths(msg)

Advance(next) ==
  IF chain = WotsLen - 1 THEN chain' = 0 /\ phase' = next
  ELSE chain' = chain + 1 /\ phase' = phase

GenerateChain ==
  /\ phase = "generate"
  /\ pkBuffer' = [pkBuffer EXCEPT ![chain] = ChainValue("seed", leafAddr, chain, W - 1)]
  /\ sig' = IF Signs
            THEN [sig EXCEPT ![chain] = ChainValue("seed", leafAddr, chain, Lengths[chain])]
            ELSE sig
  /\ leafAddr' = SetType(SetHash(SetChain(leafAddr, chain), W - 2), "WOTS")
  /\ Advance(IF Signs THEN "verify" ELSE "done")
  /\ UNCHANGED << msg, ownLeaf, signLeaf, wotsAddr, pk >>

VerifyChain ==
  /\ phase = "verify"
  /\ pk' = [pk EXCEPT ![chain] = ChainEnd("seed", wotsAddr, chain, sig[chain], Lengths[chain])]
  /\ wotsAddr' = LET a == SetChain(wotsAddr, chain)
                 IN  IF Lengths[chain] < W - 1 THEN SetHash(a, W - 2) ELSE a
  /\ Advance("done")
  /\ UNCHANGED << msg, ownLeaf, signLeaf, leafAddr, pkBuffer, sig >>

WotsNext == GenerateChain \/ VerifyChain

WotsSpec == WotsInit /\ [][WotsNext]_wotsVars

-----------------------------------------------------------------------------
AllLengths == [m \in Message |-> ChainLengths(m)]

\* The verifier finds the signer's public key, for every message; the leaves
\* that do not sign leave the signature alone.
PkFromSigIsPk ==
  phase = "done" =>
    IF Signs THEN pk = pkBuffer ELSE \A c \in Chains : sig[c] = Unset

\* What the checksum is for: no other message has all its chains at or above
\* those of this one, so a signature cannot be moved on to another message.
ChecksumDominates ==
  phase = "generate" /\ chain = 0 /\ Signs =>
    \A m \in Message : m # msg =>
      \E c \in Chains : AllLengths[m][c] < AllLengths[msg][c]
=============================================================================
