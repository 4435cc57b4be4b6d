---------------------------- MODULE Sha2Stream ----------------------------
(***************************************************************************)
(* A SHA-2 engine with the client that feeds it one byte at a time: the    *)
(* AXI slave's registers drive tvalid, tlast, tid and tdata, and the       *)
(* driver polls tready before it raises tvalid.                            *)
(*                                                                         *)
(* The i-th byte of a message is the pair of its tid and i.                *)
(***************************************************************************)
EXTENDS Sha2Core

CONSTANTS
  MaxLen,         \* bound: bytes of a message
  MaxOutstanding  \* messages a client starts ahead of their results

ASSUME StreamAssumption ==
  /\ MaxLen \in Nat \ {0} /\ MaxLen <= MaxCnt
  /\ Id \X (1..MaxLen) \subseteq MsgByte
  /\ MaxOutstanding \in Nat \ {0}

VARIABLES
  bus,     \* the ports, as the client drives them
  job,     \* the message being sent: its tid and length
  sent,    \* bytes of it presented
  due      \* messages whose result has not come out, oldest first

vars == << sha2Vars, bus, job, sent, due >>

Job == [tid : Id, len : 1..MaxLen]

-----------------------------------------------------------------------------
(* The padded message: FIPS 180-4, 5.1 *)

PaddedBlocks(n) == (n + LenBytes) \div BlockBytes + 1

\* Byte p, counted from 0, of the padding of a message.
PaddedByte(x, p) ==
  LET total == PaddedBlocks(x.len) * BlockBytes
  IN  IF p < x.len THEN Data(<< x.tid, p + 1 >>)
      ELSE IF p = x.len THEN PadByte("80")
      ELSE IF p < total - LenBytes THEN PadByte("00")
      ELSE LenByte(x.len, p - (total - LenBytes))

\* The rounds that compress block b: the words of the block, then expanded
\* ones, each with the constant of its own round.
BlockRounds(x, b) ==
  [r \in 1..rounds |->
     << IF r <= LoadWords
        THEN [j \in 1..WordBytes |->
                PaddedByte(x, (b - 1) * BlockBytes + (r - 1) * WordBytes + j - 1)]
        ELSE Expanded,
        r - 1 >>]

IsHashOf(v, x) ==
  /\ v.rounds = << >>
  /\ Len(v.blocks) = PaddedBlocks(x.len)
  /\ \A b \in 1..Len(v.blocks) :
       /\ v.blocks[b].from = SubSeq(v.blocks, 1, b - 1)
       /\ v.blocks[b].rounds = BlockRounds(x, b)

-----------------------------------------------------------------------------
(* The client *)

\* The result that comes out in this clock is no longer due.
Due == IF ovalid /\ due # << >> THEN Tail(due) ELSE due

Present(x, n) ==
  /\ bus' = [tvalid |-> TRUE, tlast |-> n = x.len, tid |-> x.tid,
             tdata |-> << x.tid, n >>]
  /\ job' = x /\ sent' = n

MayRaise == ~bus.tvalid /\ Tready

ClientFirst ==
  /\ sent = job.len /\ MayRaise /\ Len(Due) < MaxOutstanding
  /\ \E x \in Job : Present(x, 1) /\ due' = Append(Due, x)

ClientNext ==
  /\ sent < job.len /\ MayRaise
  /\ Present(job, sent + 1) /\ due' = Due

ClientLower ==
  /\ bus.tvalid
  /\ bus' = [bus EXCEPT !.tvalid = FALSE, !.tlast = FALSE]
  /\ due' = Due /\ UNCHANGED << job, sent >>

ClientWait ==
  /\ due' = Due /\ UNCHANGED << bus, job, sent >>

-----------------------------------------------------------------------------
Init ==
  /\ Sha2Init
  /\ job = [tid |-> iid, len |-> 1] /\ sent = 1 /\ due = << >>
  /\ bus = [tvalid |-> FALSE, tlast |-> FALSE, tid |-> iid,
            tdata |-> << iid, 1 >>]

First == Cycle(bus) /\ ClientFirst
Byte  == Cycle(bus) /\ ClientNext
Lower == Cycle(bus) /\ ClientLower
Wait  == Cycle(bus) /\ ClientWait

Next == First \/ Byte \/ Lower \/ Wait

Spec == Init /\ [][Next]_vars

\* The clock never stops, also when the client does nothing more.
FairSpec == Spec /\ WF_vars(Wait)

-----------------------------------------------------------------------------
TypeOK ==
  /\ rounds \in RoundCounts
  /\ status \in Status
  /\ cnt \in 0..MaxCnt /\ tcnt \in 0..(BlockBytes - 1)
  /\ icnt \in 0..(BlockBytes - 1) /\ mcnt \in 0..(BlockBytes - 1)
  /\ {tvalid_d, ifirst, ivalid, ilast, minit, men, mlast, winit, wen, wlast,
      wstart, wfinal, wkinit, wken, wklast, wkstart, ovalid} \subseteq BOOLEAN
  /\ {iid, mid, wid, wkid, oid} \subseteq Id
  /\ {ilen, mlen, wlen, wklen, olen} \subseteq 0..MaxCnt
  /\ bus \in Input /\ job \in Job /\ sent \in 1..MaxLen

\* Whatever the pauses between the bytes, and with the next message on its
\* way behind it, a result is the hash of the oldest message without one: no
\* byte is lost, repeated or overwritten before the pipeline has read it, the
\* padding is complete, and oid and olen are that message's.
ResultIsTheHash ==
  ovalid =>
    /\ due # << >>
    /\ IsHashOf(h, Head(due))
    /\ oid = Head(due).tid /\ olen = Head(due).len

\* A byte raised after tready was seen is taken, though by then the engine may
\* have moved on: tready is not looked at when the byte arrives.
NeverDropsAByte ==
  [][Posedge(bus) => ivalid' /\ idata' = Data(bus.tdata)]_vars

\* A message that was sent whole gets its result.
ResultComes == (sent = job.len /\ due # << >>) ~> ovalid
=============================================================================
