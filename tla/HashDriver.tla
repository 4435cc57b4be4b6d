----------------------------- MODULE HashDriver -----------------------------
(***************************************************************************)
(* The driver of the accelerator (fpga_sha_driver.c) on the registers of   *)
(* HashIp: shake256_hw, sha256_hw and sha512_hw, called one after another  *)
(* with any message.  Each register access is an action; between two of    *)
(* them the clock ticks MinGap times or more.                              *)
(*                                                                         *)
(* The i-th byte of a message is the pair of the message's name and i.     *)
(* Lengths of outputs are in words of 32 bits.                             *)
(***************************************************************************)
EXTENDS HashIp

CONSTANTS
  Name,     \* names of messages
  MaxLen,   \* bound: bytes of a message
  OutLen,   \* words of output asked of shake256_hw
  MinGap,   \* clocks from one access of a register to the next
  Prompt    \* tvalid is lowered before the digest is out: the two writes are
            \* back to back, and the last block takes 64 clocks or more

ASSUME DriverAssumption ==
  /\ MaxLen \in Nat /\ MinGap \in Nat /\ Prompt \in BOOLEAN /\ OutLen \subseteq Nat
  /\ Name \X (1..MaxLen) \subseteq Byte

VARIABLES
  pc,       \* the next access of the driver
  call,     \* function, message and length of the output
  pos,      \* bytes of the message sent, or result registers read
  regs,     \* result_regs, the local array
  out,      \* the caller's buffer
  gap       \* clocks since the last access, up to MinGap

driverVars == << pc, call, pos, regs, out, gap >>
vars == << ipVars, driverVars >>

Call == [fn : Algo, name : Name, len : 0..MaxLen, outlen : Nat]

Untouched == << "untouched" >>     \* a word of out the driver did not write
Poison    == << "EE" >>            \* a word of out after a time-out

Message(c) == [i \in 1..c.len |-> << c.name, i >>]

\* The words that a register of the driver's loop reads.
RegsToRead == IF call.fn = "shake256" THEN RegCount ELSE DigestWords[call.fn]

-----------------------------------------------------------------------------
(* The driver's steps *)

\* One access: "write" is << >> for a read; the next one is at "next".
Access(write, emit, next) ==
  /\ gap >= MinGap
  /\ Clock(write, emit)
  /\ pc' = next /\ gap' = 1
  /\ UNCHANGED << call, out >>

Store(reg, value) == << [reg |-> reg, value |-> value] >>
Load == << >>

Left == call.len - pos
ChunkLen == IF Left >= WordBytes THEN WordBytes ELSE Left

\* The word at pos, padded with zeros.
Chunk == [k \in 1..WordBytes |-> IF k <= ChunkLen
                                 THEN << call.name, pos + k >> ELSE NoByte]

Begin ==
  /\ pc = "idle"
  /\ \E fn \in Algo, name \in Name, len \in 0..MaxLen :
     \E outlen \in IF fn = "shake256" THEN OutLen ELSE {DigestWords[fn]} :
       /\ call' = [fn |-> fn, name |-> name, len |-> len, outlen |-> outlen]
       /\ out' = [k \in 1..outlen |-> Untouched]
  /\ pc' = "mode" /\ UNCHANGED << ipVars, pos, regs, gap >>

\* shake256_hw_internal, steps 1 and 2: the mode, then a pulse of start.
ShakeControl(emit) ==
  /\ call.fn = "shake256" /\ UNCHANGED << pos, regs >>
  /\ \/ pc = "mode"
        /\ Access(Store("control", [algo |-> call.fn, start |-> FALSE]), emit, "start")
     \/ pc = "start"
        /\ Access(Store("control", [algo |-> call.fn, start |-> TRUE]), emit, "stop")
     \/ pc = "stop"
        /\ Access(Store("control", [algo |-> call.fn, start |-> FALSE]), emit, "high")

\* Step 3: a word of the message; the empty message is sent as an empty word.
ShakeWord(emit) ==
  /\ UNCHANGED << pos, regs >>
  /\ \/ pc = "high" /\ Access(Store("din_high", Chunk), emit, "low")
     \/ pc = "low"  /\ Access(Store("din_low", Chunk), emit, "valid")
     \/ pc = "valid"
        /\ Access(Store("control2", [last |-> Left <= WordBytes, bytes |-> ChunkLen,
                                     valid |-> TRUE, ready |-> FALSE]), emit, "lower")

\* din_valid is lowered; after the last word dout_ready is raised with it.
ShakeLower(emit) ==
  /\ pc = "lower" /\ pos' = pos + ChunkLen /\ UNCHANGED regs
  /\ IF Left > WordBytes
     THEN Access(Store("control2", [last |-> FALSE, bytes |-> ChunkLen,
                                    valid |-> FALSE, ready |-> FALSE]), emit, "high")
     ELSE Access(Store("control2", [last |-> FALSE, bytes |-> 0,
                                    valid |-> FALSE, ready |-> TRUE]), emit, "wait")

\* sha2_hw_internal, step 1.
Sha2Control(emit) ==
  /\ call.fn \in Sha2 /\ pc = "mode" /\ UNCHANGED << pos, regs >>
  /\ Access(Store("control", [algo |-> call.fn, start |-> FALSE]), emit,
            IF call.len = 0 THEN "wait" ELSE "tready")

\* Step 2: a byte of the message once tready is seen.  The write of tid,
\* always 0, is left out.
Sha2Tready(emit) ==
  /\ pc = "tready" /\ UNCHANGED << pos, regs >>
  /\ Access(Load, emit, IF status.tready THEN "tdata" ELSE "tready")

\* Mutant of Sha2Byte: tlast is compared with the length, not with its last
\* index, and never comes.
Sha2ByteNoLast(emit) ==
  /\ UNCHANGED << pos, regs >>
  /\ \/ pc = "tdata"
        /\ Access(Store("tdata", << call.name, pos + 1 >>), emit, "tvalid")
     \/ pc = "tvalid"
        /\ Access(Store("tcontrol", [tvalid |-> TRUE, tlast |-> Left = 0]), emit, "tlower")

Sha2Byte(emit) ==
  /\ UNCHANGED << pos, regs >>
  /\ \/ pc = "tdata"
        /\ Access(Store("tdata", << call.name, pos + 1 >>), emit, "tvalid")
     \/ pc = "tvalid"
        /\ Access(Store("tcontrol", [tvalid |-> TRUE, tlast |-> Left = 1]), emit, "tlower")

\* Only tvalid is lowered: tlast stays as it was.
Sha2Lower(emit) ==
  /\ pc = "tlower" /\ pos' = pos + 1 /\ UNCHANGED regs
  /\ Access(Store("tcontrol", [tvalid |-> FALSE, tlast |-> Left = 1]), emit,
            IF Left = 1 THEN "wait" ELSE "tready")

\* Both functions: poll for the result, then read the result registers.
WaitResult(emit) ==
  /\ pc = "wait" /\ UNCHANGED << pos, regs >>
  /\ Access(Load, emit, IF status.ready THEN "read" ELSE "wait")

ReadResult(emit) ==
  /\ pc = "read"
  /\ regs' = Append(regs, result_regs[Len(regs)]) /\ UNCHANGED pos
  /\ Access(Load, emit, IF Len(regs) + 1 = RegsToRead THEN "copy" ELSE "read")

\* Mutant of Copy: the SHAKE registers are taken in ascending order too.
CopyAscending ==
  /\ pc = "copy"
  /\ out' = [k \in 1..call.outlen |-> regs[k]]
  /\ pc' = "returned" /\ UNCHANGED << ipVars, call, pos, regs, gap >>

\* reorder_and_swap_bytes_shake and reorder_and_swap_bytes_sha2.
Copy ==
  /\ pc = "copy"
  /\ out' = IF call.fn = "shake256"
            THEN [k \in 1..call.outlen |-> IF k <= RegCount
                                           THEN regs[RegCount - k + 1] ELSE out[k]]
            ELSE [k \in 1..call.outlen |-> regs[k]]
  /\ pc' = "returned" /\ UNCHANGED << ipVars, call, pos, regs, gap >>

\* A loop of a million polls outlasts every engine, so it gives up only when
\* nothing in the accelerator is about to change.
Quiet ==
  /\ \A e \in Algo : ~MayEmit(e)
  /\ Dout = None
  /\ status.ready = flags.ready /\ status.tready = Tready

\* Mutant of TimeOut: the wait for the result is not bounded.
TimeOutTreadyOnly ==
  /\ Quiet /\ pc = "tready" /\ ~status.tready
  /\ pc' = "timedout" /\ UNCHANGED << ipVars, call, pos, regs, out, gap >>

TimeOut ==
  /\ Quiet /\ pc \in {"tready", "wait"}
  /\ ~(IF pc = "tready" THEN status.tready ELSE status.ready)
  /\ out' = IF call.fn = "shake256" THEN [k \in 1..call.outlen |-> Poison] ELSE out
  /\ pc' = "timedout" /\ UNCHANGED << ipVars, call, pos, regs, gap >>

Return ==
  /\ pc \in {"returned", "timedout"} /\ pc' = "idle"
  /\ pos' = 0 /\ regs' = << >> /\ out' = << >>      \* the call's frame is gone
  /\ UNCHANGED << ipVars, call, gap >>

\* A clock without an access.
Tick(emit) ==
  /\ Clock(Load, emit)
  /\ gap' = IF gap < MinGap THEN gap + 1 ELSE gap
  /\ UNCHANGED << pc, call, pos, regs, out >>

-----------------------------------------------------------------------------
Init ==
  /\ IpInit
  /\ pc = "idle" /\ pos = 0 /\ regs = << >> /\ out = << >> /\ gap = MinGap
  /\ call \in [fn : {"sha256"}, name : Name, len : {0}, outlen : {0}]

TooEarly(e) == Prompt /\ e \in Sha2 /\ sha2[e].phase # "pad" /\ tcontrol.tvalid

Emits == SUBSET {e \in Algo : MayEmit(e) /\ ~TooEarly(e)}

Driver(emit) ==
  \/ ShakeControl(emit) \/ ShakeWord(emit) \/ ShakeLower(emit)
  \/ Sha2Control(emit) \/ Sha2Tready(emit) \/ Sha2Byte(emit) \/ Sha2Lower(emit)
  \/ WaitResult(emit) \/ ReadResult(emit)

Local == Copy \/ TimeOut \/ Return

Next == Begin \/ Local \/ \E emit \in Emits : Driver(emit) \/ Tick(emit)

Spec == Init /\ [][Next]_vars

\* The processor runs, its loops are bounded, the clock ticks, and each engine
\* finishes.
Finish(e) == \E emit \in Emits : e \in emit /\ (Driver(emit) \/ Tick(emit))

FairSpec ==
  /\ Spec
  /\ WF_vars(Local \/ \E emit \in Emits : Driver(emit)) /\ WF_vars(TimeOut)
  /\ WF_vars(\E emit \in Emits : Tick(emit))
  /\ \A e \in Algo : WF_vars(Finish(e))

-----------------------------------------------------------------------------
Asked == Digest(call.fn, Message(call), 1)

\* Whatever was hashed before, with whichever engine, the result registers
\* hold the digest of this call's message, first block, from the moment the
\* driver believes RESULT_READY until it has read the last of them.
RegistersHoldTheDigest ==
  pc \in {"read", "copy"} /\ call.len > 0 => result_regs = Layout(Asked)

\* shake256_hw writes the digest into the caller's buffer.
ShakeReturnsDigest ==
  pc = "returned" /\ call.fn = "shake256" /\ call.len > 0 =>
    \A k \in 1..call.outlen :
      k <= DigestWords["shake256"] => out[k] = << Asked, k - 1 >>

\* A call with something to hash never gives up.
NoTimeOut == pc = "timedout" => call.len = 0

\* Every call returns.
CallReturns == pc = "mode" ~> pc = "idle"

\* "the SHA-2 result is at the very front of dout (the low address)"
\* (fpga_sha_driver.c:38): read in ascending order, it is the digest.
Sha2ReturnsDigest ==
  pc = "returned" /\ call.fn \in Sha2 /\ call.len > 0 =>
    \A k \in 1..call.outlen : out[k] = << Asked, k - 1 >>

\* "run SHA256 on the hardware" (fpga_sha_driver.h:72): of this message, so
\* not of an earlier one.
NoStaleDigest ==
  pc \in {"read", "copy"} /\ call.fn \in Sha2 => result_regs = Layout(Asked)
=============================================================================
