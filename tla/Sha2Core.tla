----------------------------- MODULE Sha2Core -----------------------------
(***************************************************************************)
(* The SHA-2 engines, sha256.v and sha512.v.  The two files are the same   *)
(* machine with other sizes: a front end that takes one byte per rising    *)
(* edge of tvalid and appends the padding, a block buffer, and a pipeline  *)
(* of four stages (m: counts the rounds, w: message schedule, wk: adds the *)
(* round constant, h: compresses) that works on a block while the front    *)
(* end is already filling the buffer with the next one.                    *)
(* One step is one rising edge of clk; "in" is what the ports carry.       *)
(*                                                                         *)
(* Data is symbolic.  A byte is a byte of a message, 8'h80, 8'h00 or a     *)
(* byte of the bit length.  w[0] is the tuple of bytes it was loaded with  *)
(* or, from round LoadWords on, Expanded:   w is shifted at every clock,   *)
(* so a schedule word is always computed from the sixteen before it.  h is *)
(* the list of blocks added into it and the rounds of the block under way. *)
(***************************************************************************)
EXTENDS Integers, Sequences

CONSTANTS
  BlockBytes,   \* bytes of a block, a power of two: 64 or 128
  LenBytes,     \* bytes of the length field: 8 or 16
  WordBytes,    \* bytes of a word: 4 or 8
  RoundCounts,  \* rounds of a compression, of each engine: 64 and 80
  Id,           \* values of tid
  MsgByte,      \* values of tdata
  MaxCnt        \* bound on cnt, a 61-bit counter

LoadWords == BlockBytes \div WordBytes

ASSUME Sha2Assumption ==
  /\ BlockBytes \in Nat /\ LenBytes \in Nat \ {0} /\ WordBytes \in Nat \ {0}
  /\ MaxCnt \in Nat
  /\ LenBytes + 2 <= BlockBytes
  /\ BlockBytes % WordBytes = 0 /\ BlockBytes % LenBytes = 0
  /\ RoundCounts \subseteq LoadWords..BlockBytes
  \* The h that is saved in the first round is added in the last.
  /\ \A r \in RoundCounts : r >= 3

VARIABLES
  rounds,                  \* which engine this is: the rounds of its compression
  status, cnt, tcnt,       \* front end: FSM, bytes taken, padding position
  tvalid_d,                \* tvalid one clock ago
  ifirst, ivalid, ilast, ilen, iid, idata,   \* the byte it hands on
  icnt, buff,              \* the block buffer and its write position
  minit, men, mlast, mid, mlen, mcnt,        \* m stage
  winit, wen, wlast, wid, wlen, wstart, wfinal, wadder, w0,   \* w stage
  wkinit, wken, wklast, wkid, wklen, wkstart, wk,             \* wk stage
  h, hsave, hadder,        \* compression
  ovalid, oid, olen        \* output

frontVars == << status, cnt, tcnt, tvalid_d, ifirst, ivalid, ilast, ilen, iid,
                idata, icnt, buff >>
mVars     == << minit, men, mlast, mid, mlen, mcnt >>
wVars     == << winit, wen, wlast, wid, wlen, wstart, wfinal, wadder, w0 >>
wkVars    == << wkinit, wken, wklast, wkid, wklen, wkstart, wk >>
hVars     == << h, hsave, hadder, ovalid, oid, olen >>
sha2Vars  == << rounds, frontVars, mVars, wVars, wkVars, hVars >>

Status == {"IDLE", "RUN", "ADD8", "ADD0", "ADDLEN", "DONE"}

Input == [tvalid : BOOLEAN, tlast : BOOLEAN, tid : Id, tdata : MsgByte]

-----------------------------------------------------------------------------
(* Symbolic data *)

Data(b)       == [data |-> b]
PadByte(x)    == [pad |-> x]
LenByte(n, j) == [length |-> n, byte |-> j]    \* byte j of the length 8 * n

Expanded == << >>      \* a schedule word computed from earlier ones

\* h: blocks already added, rounds of the block under way.
NoHash  == [blocks |-> << [reset |-> 0] >>, rounds |-> << >>]
HashIV  == [blocks |-> << >>, rounds |-> << >>]
NoAdder == [blocks |-> << [zero |-> 0] >>, rounds |-> << >>]

\* One round; in the last one the h of the block's start is added.
Compress(x, adder, word) ==
  IF adder = NoAdder
  THEN [x EXCEPT !.rounds = Append(@, word)]
  ELSE [blocks |-> Append(adder.blocks, [from |-> x.blocks,
                                         rounds |-> Append(x.rounds, word)]),
        rounds |-> adder.rounds]

-----------------------------------------------------------------------------
(* Wires *)

\* Mutant of Tready: still up in the first state of the padding.
TreadyInAdd8 == status \in {"IDLE", "RUN", "ADD8"}

Tready == status \in {"IDLE", "RUN"}

Posedge(in) == in.tvalid /\ ~tvalid_d

Iinit(in) == status = "IDLE" /\ Posedge(in)

\* The byte position of the buffer one before the last one, in a first block.
Minit == ifirst /\ icnt = BlockBytes - 2

-----------------------------------------------------------------------------
(* The front end *)

\* ifirst falls with the last position of the first block.
FirstOver == ifirst' = (ifirst /\ tcnt # BlockBytes - 1)

\* Mutant of TakeByte: tcnt is wider than a position in the block.
TakeByteWide(in) ==
  /\ status' = IF ~Posedge(in) THEN status
               ELSE IF in.tlast THEN "ADD8" ELSE "RUN"
  /\ tcnt' = cnt + 1
  /\ ivalid' = Posedge(in) /\ ilast' = FALSE /\ idata' = Data(in.tdata)

TakeByte(in) ==
  /\ status' = IF ~Posedge(in) THEN status
               ELSE IF in.tlast THEN "ADD8" ELSE "RUN"
  /\ tcnt' = (cnt + 1) % BlockBytes
  /\ ivalid' = Posedge(in) /\ ilast' = FALSE /\ idata' = Data(in.tdata)

FrontIdle(in) ==
  /\ status = "IDLE"
  /\ TakeByte(in)
  /\ cnt' = IF Posedge(in) THEN 1 ELSE cnt
  /\ ifirst' = Posedge(in)
  /\ iid' = in.tid /\ ilen' = cnt

FrontRun(in) ==
  /\ status = "RUN"
  /\ Posedge(in) => cnt < MaxCnt
  /\ TakeByte(in)
  /\ cnt' = IF Posedge(in) THEN cnt + 1 ELSE cnt
  /\ FirstOver
  /\ ilen' = cnt /\ UNCHANGED iid

\* Mutant of FrontAdd8: the length is taken to fit one byte further on.
FrontAdd8Late ==
  /\ status = "ADD8"
  /\ status' = IF cnt % BlockBytes = BlockBytes - LenBytes
               THEN "ADDLEN" ELSE "ADD0"
  /\ tcnt' = (cnt + 1) % BlockBytes
  /\ ivalid' = TRUE /\ ilast' = FALSE /\ idata' = PadByte("80")
  /\ FirstOver
  /\ ilen' = cnt /\ UNCHANGED << cnt, iid >>

FrontAdd8 ==
  /\ status = "ADD8"
  /\ status' = IF cnt % BlockBytes = BlockBytes - LenBytes - 1
               THEN "ADDLEN" ELSE "ADD0"
  /\ tcnt' = (cnt + 1) % BlockBytes
  /\ ivalid' = TRUE /\ ilast' = FALSE /\ idata' = PadByte("80")
  /\ FirstOver
  /\ ilen' = cnt /\ UNCHANGED << cnt, iid >>

FrontAdd0 ==
  /\ status = "ADD0"
  /\ status' = IF tcnt = BlockBytes - LenBytes - 1 THEN "ADDLEN" ELSE "ADD0"
  /\ tcnt' = (tcnt + 1) % BlockBytes
  /\ ivalid' = TRUE /\ ilast' = FALSE /\ idata' = PadByte("00")
  /\ FirstOver
  /\ ilen' = cnt /\ UNCHANGED << cnt, iid >>

\* Mutant of FrontAddLen: the flag of the last byte comes one byte early.
FrontAddLenEarly ==
  /\ status = "ADDLEN"
  /\ status' = IF tcnt = BlockBytes - 1 THEN "DONE" ELSE "ADDLEN"
  /\ tcnt' = (tcnt + 1) % BlockBytes
  /\ ivalid' = TRUE /\ ilast' = (tcnt = BlockBytes - 2)
  /\ idata' = LenByte(cnt, tcnt % LenBytes)
  /\ FirstOver
  /\ ilen' = cnt /\ UNCHANGED << cnt, iid >>

FrontAddLen ==
  /\ status = "ADDLEN"
  /\ status' = IF tcnt = BlockBytes - 1 THEN "DONE" ELSE "ADDLEN"
  /\ tcnt' = (tcnt + 1) % BlockBytes
  /\ ivalid' = TRUE /\ ilast' = (tcnt = BlockBytes - 1)
  /\ idata' = LenByte(cnt, tcnt % LenBytes)
  /\ FirstOver
  /\ ilen' = cnt /\ UNCHANGED << cnt, iid >>

FrontDone ==
  /\ status = "DONE"
  /\ status' = "IDLE" /\ cnt' = 0 /\ tcnt' = 0
  /\ ivalid' = FALSE /\ ifirst' = FALSE /\ ilast' = FALSE
  /\ ilen' = 0 /\ idata' = PadByte("00")
  /\ UNCHANGED iid

StepBuff(in) ==
  IF Iinit(in) THEN icnt' = 0 /\ UNCHANGED buff
  ELSE IF ivalid
  THEN icnt' = (icnt + 1) % BlockBytes /\ buff' = [buff EXCEPT ![icnt] = idata]
  ELSE UNCHANGED << icnt, buff >>

-----------------------------------------------------------------------------
(* The pipeline *)

StepM ==
  /\ minit' = Minit
  /\ IF Minit
     THEN men' = FALSE /\ mlast' = FALSE /\ mcnt' = 0 /\ UNCHANGED << mid, mlen >>
     ELSE IF ivalid /\ icnt = BlockBytes - 1
     THEN men' = TRUE /\ mlast' = ilast /\ mcnt' = 0 /\ mid' = iid /\ mlen' = ilen
     ELSE /\ men' = (men /\ mcnt # rounds - 1)
          /\ mlast' = (mlast /\ mcnt # rounds - 1)
          /\ mcnt' = IF men THEN (mcnt + 1) % BlockBytes ELSE mcnt
          /\ UNCHANGED << mid, mlen >>

StepW ==
  /\ winit' = minit /\ wen' = men /\ wid' = mid /\ wlen' = mlen
  /\ wlast' = (mlast /\ mcnt = rounds - 1)
  /\ wstart' = (men /\ mcnt = 0)
  /\ wfinal' = (men /\ mcnt = rounds - 1)
  /\ wadder' = mcnt
  /\ w0' = IF mcnt < LoadWords
           THEN [j \in 1..WordBytes |-> buff[mcnt * WordBytes + j - 1]]
           ELSE Expanded

StepWk ==
  /\ wkinit' = winit /\ wken' = wen /\ wklast' = wlast
  /\ wkid' = wid /\ wklen' = wlen /\ wkstart' = wstart
  /\ wk' = << w0, wadder >>

StepH ==
  /\ hsave' = IF wkstart THEN h ELSE hsave
  /\ hadder' = IF wfinal THEN hsave ELSE NoAdder
  /\ h' = IF wkinit THEN HashIV
          ELSE IF wken THEN Compress(h, hadder, wk) ELSE h
  /\ ovalid' = wklast /\ oid' = wkid /\ olen' = wklen

Cycle(in) ==
  /\ \/ FrontIdle(in) \/ FrontRun(in) \/ FrontAdd8 \/ FrontAdd0
     \/ FrontAddLen \/ FrontDone
  /\ tvalid_d' = in.tvalid
  /\ StepBuff(in) /\ StepM /\ StepW /\ StepWk /\ StepH
  /\ UNCHANGED rounds

\* Reset (rstn low).
Sha2Init ==
  /\ rounds \in RoundCounts
  /\ status = "IDLE" /\ cnt = 0 /\ tcnt = 0 /\ tvalid_d = FALSE
  /\ ifirst = FALSE /\ ivalid = FALSE /\ ilast = FALSE /\ ilen = 0
  /\ iid \in Id /\ idata = PadByte("00")
  /\ icnt = 0 /\ buff = [i \in 0..(BlockBytes - 1) |-> PadByte("00")]
  /\ minit = FALSE /\ men = FALSE /\ mlast = FALSE /\ mid = iid /\ mlen = 0
  /\ mcnt = 0
  /\ winit = FALSE /\ wen = FALSE /\ wlast = FALSE /\ wid = iid /\ wlen = 0
  /\ wstart = FALSE /\ wfinal = FALSE /\ wadder = 0 /\ w0 = Expanded
  /\ wkinit = FALSE /\ wken = FALSE /\ wklast = FALSE /\ wkid = iid
  /\ wklen = 0 /\ wkstart = FALSE /\ wk = << Expanded, 0 >>
  /\ h = NoHash /\ hsave = NoHash /\ hadder = NoAdder
  /\ ovalid = FALSE /\ oid = iid /\ olen = 0
=============================================================================
