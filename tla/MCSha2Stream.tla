--------------------------- MODULE MCSha2Stream ---------------------------
EXTENDS Sha2Stream

MCMsgByte == Id \X (1..MaxLen)
=============================================================================
