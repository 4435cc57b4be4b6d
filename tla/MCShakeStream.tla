--------------------------- MODULE MCShakeStream ---------------------------
EXTENDS ShakeStream

\* Two modes with different rates: three and two words.
MCRateWords == [m \in Mode |-> IF m \in XofMode THEN 3 ELSE 2]
=============================================================================
