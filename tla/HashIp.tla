------------------------------- MODULE HashIp -------------------------------
(***************************************************************************)
(* The accelerator as its registers show it: the user logic of the AXI     *)
(* slave (shakesha2_axi.v), the two wrappers that select an engine and its *)
(* output (shake_sha2_top0.v, sha2_top.v) and the three engines, reduced   *)
(* to what ShakeStream and Sha2Stream show of them: an engine takes a word *)
(* or a byte at a rising edge of its valid input and, some clocks after    *)
(* the last one, shows the digest for one clock.  How many clocks is left  *)
(* open.                                                                   *)
(*                                                                         *)
(* A step is one clock.  The register accesses of the processor enter it   *)
(* as "write", << >> or the one register written at that edge.             *)
(***************************************************************************)
EXTENDS Integers, Sequences

CONSTANTS
  RegCount,     \* result registers: 42
  DigestWords,  \* algorithm -> words of dout that carry its digest: 8, 16, 34
  WordBytes,    \* bytes of din: 8
  Byte,         \* bytes of the messages
  MaxBlocks     \* bound: output blocks of the sponge told apart

Sha2 == {"sha256", "sha512"}
Algo == Sha2 \union {"shake256"}

ASSUME IpAssumption ==
  /\ RegCount \in Nat \ {0} /\ WordBytes \in Nat \ {0} /\ MaxBlocks \in Nat \ {0}
  /\ DigestWords \in [Algo -> 1..RegCount]

VARIABLES
  control,     \* slv_reg0: algorithm and start bit
  din,         \* slv_reg2, slv_reg1: the bytes of a word
  control2,    \* slv_reg3: last_din, bytes, din_valid, dout_ready
  tdata,       \* slv_reg4
  tcontrol,    \* slv_reg6: tvalid, tlast
  status,      \* slv_reg7
  flags,       \* busy_flag, result_ready_flag, first_output_captured
  result_regs,
  sha2_mode,   \* mode_reg of sha2_top: the SHA-2 engine selected
  sponge,      \* the SHAKE engine
  sha2         \* the two SHA-2 engines

ipVars == << control, din, control2, tdata, tcontrol, status, flags,
             result_regs, sha2_mode, sponge, sha2 >>

NoByte == << >>
NoDelimiter == << 0 >>   \* stands for a padding that lost its delimiter
None == << >>            \* no output in this clock

\* The digest of a sequence of bytes, or the n-th output block of the sponge.
Digest(a, bytes, n) == [algo |-> a, bytes |-> bytes, block |-> n]

\* dout, 32 bits per register and the first word of the digest in the
\* highest: SHA-2 digests are padded with zeros on the right.
Layout(d) ==
  [r \in 0..(RegCount - 1) |-> IF RegCount - 1 - r < DigestWords[d.algo]
                               THEN << d, RegCount - 1 - r >> ELSE << >>]

-----------------------------------------------------------------------------
(* Wires *)

Sha2Valid(e) == tcontrol.tvalid /\ sha2_mode = e

Tready == sha2[sha2_mode].phase \in {"idle", "run"}

\* dout while dout_valid, else None.
Dout == IF control.algo = "shake256" THEN sponge.out ELSE sha2[sha2_mode].out

-----------------------------------------------------------------------------
(* The engines.  "emit" is the set of those that move on by themselves.     *)

\* The bytes that the word on the bus adds to the message.
Taken ==
  IF ~control2.last THEN din
  ELSE IF control2.bytes = 0 THEN << NoDelimiter >>
  ELSE SubSeq(din, 1, control2.bytes)

SpongeMayEmit ==
  /\ sponge.phase = "squeeze" /\ sponge.out = None
  /\ sponge.blocks = 0 \/ (control2.ready /\ sponge.blocks < MaxBlocks)

StepSponge(emit) ==
  sponge' =
    IF control.start
    THEN [phase |-> "absorb", bytes |-> << >>, blocks |-> 0, out |-> None,
          valid_d |-> control2.valid]
    ELSE IF sponge.phase = "absorb" /\ control2.valid /\ ~sponge.valid_d
    THEN [sponge EXCEPT !.bytes = @ \o Taken, !.valid_d = TRUE,
                        !.phase = IF control2.last THEN "squeeze" ELSE @]
    ELSE IF "shake256" \in emit /\ SpongeMayEmit
    THEN [sponge EXCEPT
            !.blocks = @ + 1, !.valid_d = control2.valid,
            !.out = Digest("shake256", sponge.bytes, sponge.blocks + 1)]
    ELSE [sponge EXCEPT !.out = None, !.valid_d = control2.valid]

Sha2MayEmit(e) == sha2[e].phase = "pad" \/ sha2[e].due # << >>

\* The padding makes the engine deaf; its hash is shown later, when the engine
\* may already be taking the next message.
StepSha2(e, emit) ==
  LET x       == sha2[e]
      posedge == Sha2Valid(e) /\ ~x.valid_d
      y       == [x EXCEPT !.valid_d = Sha2Valid(e), !.out = None]
  IN  IF posedge /\ x.phase \in {"idle", "run"}
      THEN [y EXCEPT !.bytes = Append(@, tdata),
                     !.phase = IF tcontrol.tlast THEN "pad" ELSE "run"]
      ELSE IF e \in emit /\ x.phase = "pad"
      THEN [y EXCEPT !.phase = "idle", !.bytes = << >>,
                     !.due = Append(@, x.bytes)]
      ELSE IF e \in emit /\ x.due # << >>
      THEN [y EXCEPT !.due = Tail(@), !.out = Digest(e, Head(x.due), 1)]
      ELSE y

-----------------------------------------------------------------------------
(* The user logic of the slave *)

Captures == Dout # None /\ ~flags.captured

\* Mutant of StepFlags: a byte of SHA-2 does not withdraw the old result.
StepFlagsStartOnly ==
  flags' = IF control.start
           THEN [busy |-> TRUE, ready |-> FALSE, captured |-> FALSE]
           ELSE IF Captures
           THEN [busy |-> FALSE, ready |-> TRUE, captured |-> TRUE]
           ELSE flags

StepFlags ==
  flags' = IF control.start \/ tcontrol.tvalid
           THEN [busy |-> TRUE, ready |-> FALSE, captured |-> FALSE]
           ELSE IF Captures
           THEN [busy |-> FALSE, ready |-> TRUE, captured |-> TRUE]
           ELSE flags

\* The status register shows the flags as they were one clock ago.
StepStatus ==
  status' = [busy |-> flags.busy, ready |-> flags.ready, tready |-> Tready]

StepResult ==
  result_regs' = IF Captures THEN Layout(Dout) ELSE result_regs

StepMode ==
  sha2_mode' = IF control.algo = "shake256" THEN "sha512" ELSE control.algo

-----------------------------------------------------------------------------
(* Register writes: the register and its new value *)

StepRegisters(write) ==
  LET Written(name, old) ==
        IF write # << >> /\ write[1].reg = name THEN write[1].value ELSE old
  IN  /\ control'  = Written("control", control)
      /\ control2' = Written("control2", control2)
      /\ tdata'    = Written("tdata", tdata)
      /\ tcontrol' = Written("tcontrol", tcontrol)
      /\ din' = [k \in 1..WordBytes |->
                   IF k <= WordBytes \div 2 THEN Written("din_high", din)[k]
                                            ELSE Written("din_low", din)[k]]

Clock(write, emit) ==
  /\ StepSponge(emit) /\ sha2' = [e \in Sha2 |-> StepSha2(e, emit)]
  /\ StepFlags /\ StepStatus /\ StepResult /\ StepMode
  /\ StepRegisters(write)

MayEmit(e) == IF e = "shake256" THEN SpongeMayEmit ELSE Sha2MayEmit(e)

\* Reset (S_AXI_ARESETN low).
IpInit ==
  /\ control = [algo |-> "sha256", start |-> FALSE]
  /\ din = [k \in 1..WordBytes |-> NoByte]
  /\ control2 = [last |-> FALSE, bytes |-> 0, valid |-> FALSE, ready |-> FALSE]
  /\ tdata = NoByte /\ tcontrol = [tvalid |-> FALSE, tlast |-> FALSE]
  /\ status = [busy |-> FALSE, ready |-> FALSE, tready |-> FALSE]
  /\ flags = [busy |-> FALSE, ready |-> FALSE, captured |-> FALSE]
  /\ result_regs = [r \in 0..(RegCount - 1) |-> << >>]
  /\ sha2_mode = "sha256"
  /\ sponge = [phase |-> "idle", bytes |-> << >>, blocks |-> 0, out |-> None,
               valid_d |-> FALSE]
  /\ sha2 = [e \in Sha2 |-> [phase |-> "idle", bytes |-> << >>, due |-> << >>,
                             out |-> None, valid_d |-> FALSE]]
=============================================================================
