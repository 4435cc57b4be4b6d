---------------------------- MODULE ShakeStream ----------------------------
(***************************************************************************)
(* The sponge engine of ShakeCore with the client that feeds it: the       *)
(* registers of the AXI slave (or the testbench) drive the ports, one word *)
(* of a message at a time, with din_valid raised and lowered around each   *)
(* word.  The engine's din_ready is not a port, so a client cannot wait    *)
(* for it: it can only keep the rising edges MinGap clocks apart.          *)
(*                                                                         *)
(* A message is "full" words of eight bytes followed by one word flagged   *)
(* last that carries "last" bytes; its i-th word is the value i.           *)
(***************************************************************************)
EXTENDS ShakeCore

CONSTANTS
  MaxFull,     \* bound: words before the last one of a message
  MaxOutputs,  \* bound: output blocks a client asks for
  LastBytes,   \* sizes of the last word: the driver sends 1..8
  MinGap       \* clocks between two rising edges of din_valid_i

ASSUME StreamAssumption ==
  /\ MaxFull \in Nat /\ MaxOutputs \in Nat /\ MinGap \in Nat
  /\ LastBytes \union {8} \subseteq ByteCount
  /\ 1..(MaxFull + 1) \subseteq Data

\* The words of a block take longer to come than a permutation lasts, and a
\* block has room for a last word of eight bytes and the delimiter.
ASSUME PaceAssumption ==
  \A m \in Mode : RateWords[m] >= 2 /\ Rounds < RateWords[m] * MinGap

VARIABLES
  bus,    \* the ports, as the registers of the AXI slave drive them
  msg,    \* the message of the last start
  sent,   \* words of it presented on the bus
  gap     \* clocks not held since the last rising edge, up to MinGap

vars == << shakeVars, bus, msg, sent, gap >>

Message == [full : 0..MaxFull, last : LastBytes]

-----------------------------------------------------------------------------
(* The padded message: what FIPS 202 absorbs, in blocks *)

\* Words up to and including the delimiter.
DelimPosition(m) == m.full + (IF m.last = 8 THEN 2 ELSE 1)

PaddedWord(m, p) ==
  IF p <= m.full \/ (p = m.full + 1 /\ m.last = 8) THEN DataWord(p)
  ELSE IF p # DelimPosition(m) THEN ZeroWord
  ELSE IF m.last \in 1..7 THEN PartWord(p, m.last, mode_reg)
  ELSE DelimWord(mode_reg)

\* The least number of blocks that holds them.
PaddedBlocks(m) == (DelimPosition(m) + Rate - 1) \div Rate

PaddedBlock(m, b) ==
  [words |-> [i \in 1..BufWords |-> IF i <= Rate
                                    THEN PaddedWord(m, (b - 1) * Rate + i)
                                    ELSE ZeroWord],
   final |-> b = PaddedBlocks(m)]

-----------------------------------------------------------------------------
(* The client: how the ports change at a clock edge *)

KeepTime == gap' = IF bus.hold \/ gap = MinGap THEN gap ELSE gap + 1

\* A new message; the one before it may be unfinished.
ClientStart ==
  /\ ~bus.start /\ ~bus.valid
  /\ \E m \in Mode, x \in Message :
       /\ bus' = [bus EXCEPT !.start = TRUE, !.mode = m,
                             !.ready = FALSE, !.hold = FALSE]
       /\ msg' = x
  /\ sent' = 0 /\ gap' = MinGap

ClientRelease ==
  /\ bus.start
  /\ bus' = [bus EXCEPT !.start = FALSE]
  /\ KeepTime /\ UNCHANGED << msg, sent >>

ClientRaise ==
  /\ ~bus.start /\ ~bus.valid /\ ~bus.hold /\ sent <= msg.full /\ gap = MinGap
  /\ bus' = [bus EXCEPT !.valid = TRUE, !.din = sent + 1,
                        !.last = (sent = msg.full),
                        !.bytes = IF sent = msg.full THEN msg.last ELSE @]
  /\ sent' = sent + 1 /\ gap' = 1
  /\ UNCHANGED msg

ClientLower ==
  /\ bus.valid
  /\ bus' = [bus EXCEPT !.valid = FALSE, !.last = FALSE]
  /\ KeepTime /\ UNCHANGED << msg, sent >>

Outputs == Len(absorbed) - PaddedBlocks(msg)

\* dout_ready asks for the blocks after the first one.  The driver raises it
\* with the write that lowers din_valid after the last word, and keeps it up
\* until it has what it wants.
ClientAsk ==
  /\ ~bus.start /\ ~bus.valid /\ sent = msg.full + 1 /\ ~bus.ready
  /\ Outputs < 1
  /\ bus' = [bus EXCEPT !.ready = TRUE]
  /\ KeepTime /\ UNCHANGED << msg, sent >>

ClientStopAsking ==
  /\ bus.ready
  /\ Outputs >= MaxOutputs
  /\ bus' = [bus EXCEPT !.ready = FALSE]
  /\ KeepTime /\ UNCHANGED << msg, sent >>

\* The engine is held between the rising edges of two words, never while its
\* output is drained.
ClientPause ==
  /\ ~bus.start /\ ~bus.hold
  /\ sent <= msg.full
  /\ bus' = [bus EXCEPT !.hold = TRUE]
  /\ KeepTime /\ UNCHANGED << msg, sent >>

ClientResume ==
  /\ bus.hold
  /\ bus' = [bus EXCEPT !.hold = FALSE]
  /\ KeepTime /\ UNCHANGED << msg, sent >>

ClientWait ==
  /\ bus.ready => Outputs < MaxOutputs
  /\ KeepTime /\ UNCHANGED << bus, msg, sent >>

-----------------------------------------------------------------------------
Init ==
  /\ ShakeInit
  /\ msg \in Message /\ sent = msg.full + 1 /\ gap = MinGap
  /\ bus \in [start : {FALSE}, mode : {ResetMode}, din : {1}, valid : {FALSE},
              last : {FALSE}, bytes : {8}, ready : {FALSE}, hold : {FALSE}]

Start   == Cycle(bus) /\ ClientStart
Release == Cycle(bus) /\ ClientRelease
Raise   == Cycle(bus) /\ ClientRaise
Lower   == Cycle(bus) /\ ClientLower
Ask     == Cycle(bus) /\ ClientAsk
Stop    == Cycle(bus) /\ ClientStopAsking
Pause   == Cycle(bus) /\ ClientPause
Resume  == Cycle(bus) /\ ClientResume
Wait    == Cycle(bus) /\ ClientWait

Next ==
  \/ Start \/ Release \/ Raise \/ Lower
  \/ Ask \/ Stop \/ Pause \/ Resume \/ Wait

Spec == Init /\ [][Next]_vars

\* The clock never stops, whatever the client does or leaves undone, and a
\* client that holds the engine lets it go.
FairSpec == Spec /\ WF_vars(Wait \/ Stop) /\ WF_vars(Resume)

-----------------------------------------------------------------------------
Hashing == state # "IDLE" /\ ~bus.start

\* What the lanes have absorbed is the padding of the message, block by block
\* and in order; every entry after it is a squeeze.  This is the digest: no
\* word is lost, doubled, shifted, or absorbed before its block is complete.
AbsorbsPaddedMessage ==
  Hashing =>
    \A b \in 1..Len(absorbed) :
      absorbed[b] = IF b <= PaddedBlocks(msg) THEN PaddedBlock(msg, b)
                                              ELSE NoBlock

\* The output pulse never comes before the whole message was absorbed, and
\* the block it shows is a squeeze of it.
PulseAfterWholeMessage ==
  Hashing /\ DoutFullValid(bus) =>
    /\ sent = msg.full + 1
    /\ Len(absorbed) > PaddedBlocks(msg)
    /\ data_buf = OutputBuf(Len(absorbed) - 1)

\* A word's rising edge always finds the engine listening: the permutation of
\* the previous block is over before the next block can be full.
NeverDropsAWord ==
  Hashing /\ bus.valid /\ ~din_valid_d => DinReady(bus) /\ ~bus.hold

\* Once the last word has been presented and nothing was squeezed yet, the
\* output pulse comes, unless the client starts over first.
DigestOwed == Hashing /\ sent = msg.full + 1 /\ Outputs <= 0

DigestComes == DigestOwed ~> (DoutFullValid(bus) \/ bus.start)

-----------------------------------------------------------------------------
(* What the sponge promises its client, and how the engine keeps it *)

\* The value of the lanes after the first n permutations, read as what they
\* are a squeeze of: block "block" of the output of a message, or garbage.
Squeezed(n) ==
  IF /\ n >= PaddedBlocks(msg)
     /\ \A b \in 1..n :
          /\ rounds[b] = Rounds
          /\ absorbed[b] = IF b <= PaddedBlocks(msg) THEN PaddedBlock(msg, b)
                                                    ELSE NoBlock
  THEN [msg |-> msg, mode |-> mode_reg, block |-> n - PaddedBlocks(msg) + 1]
  ELSE [garbage |-> n]

\* dout_full_o as the client reads it, when dout_full_valid_o says so.
Shown ==
  IF bus.start \/ ~DoutFullValid(bus) THEN << >>
  ELSE IF \E n \in 0..Len(absorbed) : data_buf = OutputBuf(n)
  THEN << Squeezed(CHOOSE n \in 0..Len(absorbed) : data_buf = OutputBuf(n)) >>
  ELSE << [garbage |-> 0] >>

Sponge ==
  INSTANCE SpongeSpec WITH
    job       <- [msg |-> msg, mode |-> IF bus.start THEN bus.mode ELSE mode_reg],
    given     <- sent,
    delivered <- IF ~Hashing \/ Len(absorbed) < PaddedBlocks(msg) THEN 0
                 ELSE Len(absorbed) - PaddedBlocks(msg),
    shown     <- Shown

\* Refinement: seen from its ports, the engine hashes one message at a time
\* and shows the blocks of its output once each, in order.
ImplementsSponge == Sponge!Spec
=============================================================================
