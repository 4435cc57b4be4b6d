---------------------------- MODULE MCHashDriver ----------------------------
EXTENDS HashDriver

MCByte == Name \X (1..MaxLen)

\* Four registers: one word of SHA-256, two of SHA-512, three of SHAKE256 (its
\* rate does not fill the registers, as 34 of 42 words do not).
MCDigestWords == [a \in Algo |-> CASE a = "sha256" -> 1
                                   [] a = "sha512" -> 2
                                   [] a = "shake256" -> 3]
=============================================================================
