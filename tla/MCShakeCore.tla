---------------------------- MODULE MCShakeCore ----------------------------
(* ShakeCore under every input sequence, on a small engine.                *)
EXTENDS ShakeCore

CONSTANT MaxAbsorbed    \* bound: XORs and squeezes since the last start

MCRateWords == [m \in Mode |-> IF m \in XofMode THEN 3 ELSE 2]

MCNext == \E in \in Input : Cycle(in) /\ Len(absorbed') <= MaxAbsorbed

MCSpec == ShakeInit /\ [][MCNext]_shakeVars
=============================================================================
