-------------------------- MODULE HashDriverProofs --------------------------
(***************************************************************************)
(* What the driver reads is the digest of its call, whatever was called    *)
(* before: for every size of message, word, digest and register file, and  *)
(* however long the engines take.                                          *)
(***************************************************************************)
EXTENDS HashDriver, SequenceTheorems, TLAPS

-----------------------------------------------------------------------------
\* A clock has passed since the last access.
Settled == gap >= 2

\* There is something to hash.
Worth == call.len > 0

ShakeSteps == {"start", "stop", "high", "low", "valid", "lower"}
Sha2Steps  == {"tready", "tdata", "tvalid", "tlower"}
Ends       == {"copy", "returned", "timedout"}
Steps      == {"idle", "mode", "wait", "read"} \union ShakeSteps \union Sha2Steps \union Ends

CallInv ==
  /\ pc \in Steps /\ call \in Call /\ gap \in Nat /\ gap >= 1
  /\ pos \in 0..call.len
  /\ pc \in {"idle", "mode", "start", "stop"} => pos = 0
  /\ pc \in ShakeSteps => call.fn = "shake256" /\ (Worth => pos < call.len)
  /\ pc \in Sha2Steps => call.fn \in Sha2 /\ pos < call.len
  /\ pc = "wait" => pos = call.len
  /\ pc \notin {"read", "copy", "returned"} => regs = << >>

PortsInv ==
  /\ control \in [algo : Algo, start : BOOLEAN]
  /\ control.start <=> pc = "stop"
  /\ pc \notin {"idle", "mode"} => control.algo = call.fn
  /\ control2 \in [last : BOOLEAN, bytes : Nat, valid : BOOLEAN, ready : BOOLEAN]
  /\ control2.valid <=> pc = "lower"
  /\ pc = "lower" => control2.bytes = ChunkLen /\ (control2.last <=> Left <= WordBytes)
  /\ din \in [1..WordBytes -> (Name \X Nat) \union {NoByte}]
  /\ pc = "low" => \A k \in 1..WordBytes : k <= WordBytes \div 2 => din[k] = Chunk[k]
  /\ pc \in {"valid", "lower"} => din = Chunk
  /\ tcontrol \in [tvalid : BOOLEAN, tlast : BOOLEAN]
  /\ tcontrol.tvalid <=> pc = "tlower"
  /\ pc = "tlower" => (tcontrol.tlast <=> Left = 1)
  /\ pc \in {"tvalid", "tlower"} => tdata = << call.name, pos + 1 >>
  /\ sha2_mode \in Sha2
  /\ pc \in {"tdata", "tvalid", "tlower"} \/ (pc = "wait" /\ call.fn \in Sha2 /\ Worth) =>
       sha2_mode = call.fn

-----------------------------------------------------------------------------
(* The engines *)

EnginesType ==
  /\ sponge = [phase |-> sponge.phase, bytes |-> sponge.bytes, blocks |-> sponge.blocks,
               out |-> sponge.out, valid_d |-> sponge.valid_d]
  /\ sha2 = [e \in Sha2 |-> [phase |-> sha2[e].phase, bytes |-> sha2[e].bytes,
                             due |-> sha2[e].due, out |-> sha2[e].out,
                             valid_d |-> sha2[e].valid_d]]
  /\ flags = [busy |-> flags.busy, ready |-> flags.ready, captured |-> flags.captured]

\* The first n bytes of the message.
Prefix(n) == [i \in 1..n |-> << call.name, i >>]

Clear == ~flags.ready /\ ~flags.captured

Captured == flags.ready /\ flags.captured /\ result_regs = Layout(Asked)

\* An engine that knows nothing of any call.
Clean(e) ==
  /\ sha2[e].phase = "idle" /\ sha2[e].bytes = << >> /\ sha2[e].due = << >>
  /\ sha2[e].out = None

\* It has taken n bytes of the message, and not the last.
Collecting(e, n) ==
  /\ sha2[e].phase = (IF n = 0 THEN "idle" ELSE "run") /\ sha2[e].bytes = Prefix(n)
  /\ sha2[e].due = << >> /\ sha2[e].out = None

\* It has taken all.
Hashes(e) ==
  \/ /\ sha2[e].phase = "pad" /\ sha2[e].bytes = Message(call)
     /\ sha2[e].due = << >> /\ sha2[e].out = None /\ Clear
  \/ /\ sha2[e].phase = "idle" /\ sha2[e].bytes = << >>
     /\ sha2[e].due = << Message(call) >> /\ sha2[e].out = None /\ Clear

Shows(e) ==
  /\ sha2[e].phase = "idle" /\ sha2[e].bytes = << >> /\ sha2[e].due = << >>
  /\ sha2[e].out = Asked /\ Clear

\* Bytes of the message the engine in use has taken.
BytesTaken == IF pc = "tlower" /\ Settled THEN pos + 1 ELSE pos

InSha2 == call.fn \in Sha2 /\ Worth /\ pc \in Sha2Steps \union {"wait"}

Sha2Inv ==
  /\ \A e \in Sha2 : (InSha2 /\ e = call.fn) \/ Clean(e)
  /\ InSha2 =>
       /\ BytesTaken < call.len => Collecting(call.fn, BytesTaken)
       /\ BytesTaken = call.len =>
            \/ Hashes(call.fn)
            \/ pc = "wait" /\ (Shows(call.fn) \/ (Clean(call.fn) /\ Captured))
  /\ pc = "tlower" => (sha2[call.fn].valid_d <=> Settled)

\* The same for the sponge.
Absorbs(n) ==
  /\ sponge.phase = "absorb" /\ sponge.bytes = Prefix(n)
  /\ sponge.blocks = 0 /\ sponge.out = None /\ Clear

Squeezes ==
  /\ sponge.phase = "squeeze" /\ sponge.bytes = Message(call)
  /\ \/ sponge.blocks = 0 /\ sponge.out = None /\ Clear
     \/ sponge.blocks = 1 /\ sponge.out = Asked /\ Clear
     \/ Captured

WordsTaken == IF pc = "lower" /\ Settled THEN pos + ChunkLen ELSE pos

InSponge ==
  /\ call.fn = "shake256" /\ Worth
  /\ pc \in {"high", "low", "valid", "lower", "wait"} \/ (pc = "stop" /\ Settled)

SpongeInv ==
  /\ InSponge => /\ WordsTaken < call.len => Absorbs(WordsTaken)
                 /\ WordsTaken = call.len => Squeezes
  /\ pc = "lower" => (sponge.valid_d <=> Settled)

-----------------------------------------------------------------------------
(* The result *)

ResultInv ==
  Worth =>
    /\ pc = "wait" => (status.ready => flags.ready)
    /\ pc \in {"read", "copy"} => flags.captured /\ result_regs = Layout(Asked)
    /\ pc = "read" => regs = [i \in 1..Len(regs) |-> result_regs[i - 1]]
                      /\ Len(regs) \in 0..(RegsToRead - 1)
    /\ pc = "copy" => regs = [i \in 1..RegsToRead |-> result_regs[i - 1]]
    /\ pc # "timedout"

DriverInv ==
  /\ CallInv /\ PortsInv /\ EnginesType /\ Sha2Inv /\ SpongeInv /\ ResultInv
  /\ ShakeReturnsDigest

-----------------------------------------------------------------------------
(* One clock of the accelerator *)

\* The clock never comes with an access too early, and no engine emits what it
\* has not got.
Turn(emit) ==
  /\ DriverInv /\ Prompt /\ emit \in Emits /\ (\E w : Clock(w, emit)) /\ call' = call

LEMMA AskedIs == Asked # None
BY DEF Asked, Digest, None

LEMMA TurnIs ==
  ASSUME NEW emit, Turn(emit)
  PROVE  /\ CallInv /\ PortsInv /\ EnginesType /\ Sha2Inv /\ SpongeInv /\ ResultInv /\ Prompt
         /\ StepSponge(emit) /\ sha2' = [e \in Sha2 |-> StepSha2(e, emit)]
         /\ StepFlags /\ StepStatus /\ StepResult /\ StepMode
         /\ call' = call /\ Asked' = Asked /\ Message(call)' = Message(call)
         /\ \A n : Prefix(n)' = Prefix(n)
         /\ \A e \in emit : e \in Algo /\ MayEmit(e) /\ ~TooEarly(e)
BY DEF Turn, DriverInv, Clock, Emits, Asked, Prefix, Message

\* What has been read into the registers stays there.
LEMMA CapturedStays ==
  ASSUME NEW emit, Turn(emit), flags.captured, pc \notin {"stop", "tlower"}
  PROVE  flags' = flags /\ result_regs' = result_regs
BY TurnIs DEF PortsInv, StepFlags, StepResult, Captures

LEMMA EnginesTypeStep ==
  ASSUME NEW emit, Turn(emit)
  PROVE  EnginesType'
<1>1. StepSponge(emit) /\ sha2' = [e \in Sha2 |-> StepSha2(e, emit)] /\ StepFlags /\ EnginesType
  BY TurnIs
<1>2. sponge' = [phase |-> sponge'.phase, bytes |-> sponge'.bytes, blocks |-> sponge'.blocks,
                 out |-> sponge'.out, valid_d |-> sponge'.valid_d]
  BY <1>1 DEF StepSponge, EnginesType
<1>3. flags' = [busy |-> flags'.busy, ready |-> flags'.ready, captured |-> flags'.captured]
  BY <1>1 DEF StepFlags, EnginesType
<1>4. ASSUME NEW e \in Sha2
      PROVE  sha2'[e] = [phase |-> sha2'[e].phase, bytes |-> sha2'[e].bytes,
                         due |-> sha2'[e].due, out |-> sha2'[e].out,
                         valid_d |-> sha2'[e].valid_d]
  <2>. DEFINE x == sha2[e]
  <2>1. sha2'[e] = StepSha2(e, emit)
    BY <1>1
  <2>2. x = [phase |-> x.phase, bytes |-> x.bytes, due |-> x.due, out |-> x.out,
             valid_d |-> x.valid_d]
    BY <1>1 DEF EnginesType
  <2>. QED  BY <2>1, <2>2 DEF StepSha2
<1>5. sha2' = [e \in Sha2 |-> sha2'[e]]
  BY <1>1
<1>. QED  BY <1>2, <1>3, <1>4, <1>5 DEF EnginesType

\* An engine that is not addressed and has nothing to show stays as it is.
LEMMA CleanStays ==
  ASSUME NEW emit, Turn(emit), NEW e \in Sha2, Clean(e), ~Sha2Valid(e)
  PROVE  Clean(e)'
<1>1. sha2'[e] = StepSha2(e, emit)
  BY TurnIs
<1>2. e \notin emit
  BY TurnIs DEF MayEmit, Sha2MayEmit, Clean, Sha2
<1>3. sha2'[e] = [sha2[e] EXCEPT !.valid_d = Sha2Valid(e), !.out = None]
  BY <1>1, <1>2 DEF StepSha2
<1>4. sha2[e] = [phase |-> sha2[e].phase, bytes |-> sha2[e].bytes, due |-> sha2[e].due,
                 out |-> sha2[e].out, valid_d |-> sha2[e].valid_d]
  BY TurnIs DEF EnginesType
<1>. QED  BY <1>3, <1>4 DEF Clean

\* The word that follows the first n bytes of the message.
LEMMA NextByte ==
  ASSUME CallInv, NEW n \in Nat
  PROVE  Append(Prefix(n), << call.name, n + 1 >>) = Prefix(n + 1)
BY DEF Prefix

\* What has been taken after this clock.
TakenNext == IF pc = "tlower" THEN pos + 1 ELSE pos

\* The SHA-2 engine in use takes the byte on the bus when tvalid rises; once it
\* has them all it pads, and shows the digest of the whole message, no sooner
\* than tvalid was lowered.
LEMMA Sha2Turn ==
  ASSUME NEW emit, Turn(emit), InSha2, NEW f, f = call.fn, NEW n, n = TakenNext
  PROVE  /\ n < call.len => Collecting(f, n)'
         /\ n = call.len =>
              \/ Hashes(f)'
              \/ pc = "wait" /\ (Shows(f)' \/ (Clean(f)' /\ Captured'))
<1>. DEFINE x == sha2[f]
            y == [x EXCEPT !.valid_d = Sha2Valid(f), !.out = None]
            z == sha2'[f]
<1>1. /\ CallInv /\ PortsInv /\ Sha2Inv /\ Prompt
      /\ StepFlags /\ StepResult /\ call' = call /\ Asked' = Asked
      /\ Message(call)' = Message(call) /\ \A i : Prefix(i)' = Prefix(i)
  BY TurnIs
<1>2. /\ f \in Sha2 /\ f \in Algo /\ Worth /\ pc \in Sha2Steps \union {"wait"} /\ f # "shake256"
  BY DEF InSha2, Sha2, Algo
<1>3. z = StepSha2(f, emit)
  BY <1>2, TurnIs
<1>4. f \in emit => Sha2MayEmit(f) /\ ~TooEarly(f)
  BY <1>2, TurnIs DEF MayEmit
<1>5. x = [phase |-> x.phase, bytes |-> x.bytes, due |-> x.due, out |-> x.out,
           valid_d |-> x.valid_d]
  BY <1>2, TurnIs DEF EnginesType
<1>6. /\ call.len \in Nat /\ pos \in Nat /\ pos \in 0..call.len /\ gap \in Nat
      /\ pc # "wait" => pos < call.len
  BY <1>1, <1>2 DEF CallInv, Call
<1>7. pc # "tlower" => ~Sha2Valid(f)
  BY <1>1 DEF PortsInv, Sha2Valid
<1>8. pc = "tlower" => (Sha2Valid(f) /\ ~x.valid_d <=> ~Settled)
  BY <1>1, <1>2 DEF PortsInv, Sha2Valid, Sha2Inv
<1>9. pc \in {"tlower", "wait"} => Dout = x.out
  BY <1>1, <1>2 DEF PortsInv, Dout
<1>10. ~(Sha2Valid(f) /\ ~x.valid_d) /\ f \notin emit => z = y
  BY <1>3 DEF StepSha2
<1>11. Collecting(f, pos) => x.phase \in {"idle", "run"} /\ (f \notin emit)
  BY <1>4 DEF Collecting, Sha2MayEmit
<1>p. ASSUME Hashes(f), x.phase = "pad", ~(Sha2Valid(f) /\ ~x.valid_d), Clear'
      PROVE  Hashes(f)'
  <2>1. x.bytes = Message(call) /\ x.due = << >> /\ x.out = None
    BY <1>p DEF Hashes
  <2>2. CASE f \in emit
    <3>1. z = [y EXCEPT !.phase = "idle", !.bytes = << >>, !.due = Append(@, x.bytes)]
      BY <2>2, <1>p, <1>3 DEF StepSha2
    <3>2. /\ z.phase = "idle" /\ z.bytes = << >> /\ z.out = None
          /\ z.due = Append(<< >>, Message(call))
      BY <3>1, <2>1, <1>5
    <3>3. Append(<< >>, Message(call)) = << Message(call)' >>
      BY <1>1
    <3>. QED  BY <3>2, <3>3, <1>p DEF Hashes
  <2>3. CASE f \notin emit
    <3>1. z.phase = "pad" /\ z.bytes = Message(call) /\ z.due = << >> /\ z.out = None
      BY <2>1, <2>3, <1>p, <1>5, <1>10
    <3>. QED  BY <3>1, <1>1, <1>p DEF Hashes
  <2>. QED  BY <2>2, <2>3
<1>12. CASE pc \notin {"tlower", "wait"}
  <2>1. BytesTaken = pos /\ n = pos /\ pos < call.len
    BY <1>2, <1>6, <1>12 DEF BytesTaken, TakenNext
  <2>2. Collecting(f, pos) /\ z = y
    BY <2>1, <1>1, <1>7, <1>10, <1>11, <1>12 DEF Sha2Inv
  <2>. QED  BY <1>6, <2>1, <2>2, <1>1, <1>5 DEF Collecting
<1>13. CASE pc = "tlower" /\ ~Settled
  <2>1. BytesTaken = pos /\ n = pos + 1 /\ pos < call.len
    BY <1>6, <1>13 DEF BytesTaken, TakenNext
  <2>2. Collecting(f, pos)
    BY <2>1, <1>1 DEF Sha2Inv
  <2>3. z = [y EXCEPT !.bytes = Append(@, tdata),
                      !.phase = IF tcontrol.tlast THEN "pad" ELSE "run"]
    BY <2>2, <1>3, <1>8, <1>11, <1>13 DEF StepSha2
  <2>4. /\ tdata = << call.name, pos + 1 >> /\ (tcontrol.tlast <=> pos + 1 = call.len)
        /\ tcontrol.tvalid
    BY <1>1, <1>6, <1>13 DEF PortsInv, Left
  <2>5. Append(Prefix(pos), << call.name, pos + 1 >>) = Prefix(pos + 1)
    BY <1>1, <1>6, NextByte
  <2>6. /\ z.bytes = Prefix(pos + 1) /\ z.due = << >> /\ z.out = None
        /\ z.phase = IF tcontrol.tlast THEN "pad" ELSE "run"
    BY <2>2, <2>3, <2>4, <2>5, <1>5 DEF Collecting
  <2>7. Clear'
    BY <2>4, <1>1 DEF StepFlags, Clear
  <2>8. Prefix(call.len) = Message(call)
    BY DEF Prefix, Message
  <2>. QED  BY <2>1, <2>4, <2>6, <2>7, <2>8, <1>1, <1>6 DEF Collecting, Hashes
<1>14. CASE pc = "tlower" /\ Settled
  <2>1. BytesTaken = pos + 1 /\ n = pos + 1 /\ tcontrol.tvalid
    BY <1>1, <1>14 DEF BytesTaken, TakenNext, PortsInv
  <2>2. Clear'
    BY <2>1, <1>1 DEF StepFlags, Clear
  <2>3. ASSUME pos + 1 < call.len  PROVE Collecting(f, n)'
    <3>1. Collecting(f, pos + 1)
      BY <2>1, <2>3, <1>1 DEF Sha2Inv
    <3>2. z = y
      BY <3>1, <1>4, <1>8, <1>10, <1>14, <1>6 DEF Collecting, Sha2MayEmit
    <3>. QED  BY <2>1, <3>1, <3>2, <1>1, <1>5 DEF Collecting
  <2>4. ASSUME pos + 1 = call.len  PROVE Hashes(f)'
    <3>1. Hashes(f)
      BY <2>1, <2>4, <1>1, <1>14 DEF Sha2Inv
    <3>2. ~(Sha2Valid(f) /\ ~x.valid_d)
      BY <1>8, <1>14
    <3>3. CASE x.phase = "pad"
      BY <1>p, <2>2, <3>1, <3>2, <3>3
    <3>4. CASE x.phase # "pad"
      <4>1. f \notin emit
        BY <3>4, <2>1, <1>1, <1>2, <1>4 DEF TooEarly
      <4>. QED  BY <4>1, <3>1, <3>2, <3>4, <2>2, <1>1, <1>5, <1>10 DEF Hashes
    <3>. QED  BY <3>3, <3>4
  <2>. QED  BY <1>6, <2>1, <2>3, <2>4
<1>15. CASE pc = "wait"
  <2>1. BytesTaken = call.len /\ n = call.len /\ ~Sha2Valid(f)
    BY <1>1, <1>7, <1>15 DEF BytesTaken, TakenNext, CallInv
  <2>2. ~control.start /\ ~tcontrol.tvalid /\ Dout = x.out
    BY <1>1, <1>9, <1>15 DEF PortsInv
  <2>3. Hashes(f) \/ Shows(f) \/ (Clean(f) /\ Captured)
    BY <2>1, <1>1 DEF Sha2Inv, InSha2
  <2>4. CASE Hashes(f)
    <3>1. Clear'
      BY <2>2, <2>4, <1>1 DEF Hashes, StepFlags, Captures, Clear
    <3>2. CASE x.phase = "pad"
      <4>1. Hashes(f)'
        BY <1>p, <2>1, <2>4, <3>1, <3>2
      <4>. QED  BY <1>6, <4>1, <2>1, <1>15
    <3>3. CASE x.phase # "pad"
      <4>1. x.phase = "idle" /\ x.bytes = << >> /\ x.due = << Message(call) >> /\ x.out = None
        BY <3>3, <2>4 DEF Hashes
      <4>2. Head(x.due) = Message(call) /\ Tail(x.due) = << >> /\ x.due # << >>
        BY <4>1
      <4>3. CASE f \in emit
        <5>1. z = [y EXCEPT !.due = Tail(@), !.out = Digest(f, Head(x.due), 1)]
          BY <4>1, <4>2, <4>3, <2>1, <1>3 DEF StepSha2
        <5>2. z.phase = "idle" /\ z.bytes = << >> /\ z.due = << >> /\ z.out = Asked
          <6>1. z.phase = x.phase /\ z.bytes = x.bytes
            BY <5>1, <1>5
          <6>2. z.due = Tail(x.due)
            BY <5>1, <1>5
          <6>3. z.out = Digest(f, Head(x.due), 1)
            BY <5>1, <1>5
          <6>. QED  BY <6>1, <6>2, <6>3, <4>1, <4>2 DEF Asked
        <5>3. Shows(f)'
          BY <5>2, <3>1, <1>1 DEF Shows
        <5>. QED  BY <1>6, <5>3, <2>1, <1>15
      <4>4. CASE f \notin emit
        <5>1. /\ z.phase = "idle" /\ z.bytes = << >> /\ z.due = << Message(call)' >>
              /\ z.out = None
          <6>1. z = y
            BY <4>4, <2>1, <1>10
          <6>2. z.phase = x.phase /\ z.bytes = x.bytes /\ z.due = x.due /\ z.out = None
            BY <6>1, <1>5
          <6>. QED  BY <6>2, <4>1, <1>1
        <5>2. Hashes(f)'
          BY <5>1, <3>1 DEF Hashes
        <5>. QED  BY <1>6, <5>2, <2>1, <1>15
      <4>. QED  BY <4>3, <4>4
    <3>. QED  BY <3>2, <3>3
  <2>5. CASE Shows(f)
    <3>1. Captures /\ Dout = Asked
      BY <2>2, <2>5, AskedIs DEF Shows, Captures, Clear
    <3>2. f \notin emit
      BY <2>5, <1>4 DEF Shows, Sha2MayEmit
    <3>3. Clean(f)'
      BY <3>2, <2>1, <2>5, <1>5, <1>10 DEF Shows, Clean
    <3>4. result_regs' = Layout(Asked)
      BY <3>1, <1>1 DEF StepResult
    <3>5. Layout(Asked)' = Layout(Asked)
      BY <1>1 DEF Layout
    <3>6. Captured'
      BY <3>1, <3>4, <3>5, <2>2, <1>1 DEF StepFlags, Captured
    <3>. QED  BY <1>6, <3>3, <3>6, <2>1, <1>15
  <2>6. CASE Clean(f) /\ Captured
    <3>1. Clean(f)'
      BY <2>1, <2>6, <1>2, CleanStays
    <3>2. flags' = flags /\ result_regs' = result_regs
      BY <2>6, <1>15, CapturedStays DEF Captured
    <3>3. Layout(Asked)' = Layout(Asked)
      BY <1>1 DEF Layout
    <3>4. Captured'
      BY <3>2, <3>3, <2>6 DEF Captured
    <3>. QED  BY <1>6, <3>1, <3>4, <2>1, <1>15
  <2>. QED  BY <2>3, <2>4, <2>5, <2>6
<1>. QED  BY <1>12, <1>13, <1>14, <1>15
-----------------------------------------------------------------------------
(* The words of SHAKE256 *)

\* The word at pos is not empty and does not reach over the end of the message.
LEMMA Chunks ==
  ASSUME CallInv, pos < call.len
  PROVE  /\ Left \in Nat /\ ChunkLen \in 1..WordBytes /\ pos + ChunkLen \in 0..call.len
         /\ Left <= WordBytes <=> pos + ChunkLen = call.len
         /\ Left > WordBytes => ChunkLen = WordBytes
BY IpAssumption DEF CallInv, Call, Left, ChunkLen

\* The engine appends to what it has the bytes of the word at pos.
LEMMA TakesTheChunk ==
  ASSUME CallInv, PortsInv, pc = "lower", pos < call.len
  PROVE  Prefix(pos) \o Taken = Prefix(pos + ChunkLen)
<1>1. /\ pos \in Nat /\ ChunkLen \in 1..WordBytes /\ WordBytes \in Nat
      /\ Left \in Nat /\ (Left > WordBytes => ChunkLen = WordBytes)
  BY Chunks, IpAssumption DEF CallInv, Call
<1>2. din = Chunk /\ control2.bytes = ChunkLen /\ (control2.last <=> Left <= WordBytes)
  BY DEF PortsInv
<1>. DEFINE S == ({call.name} \X Nat) \union {NoByte}
<1>3. Chunk \in Seq(S) /\ Len(Chunk) = WordBytes
  BY <1>1 DEF Chunk
<1>4. \A k \in 1..ChunkLen : Chunk[k] = << call.name, pos + k >>
  BY <1>1 DEF Chunk
<1>5. Taken \in Seq(S) /\ Len(Taken) = ChunkLen
      /\ \A k \in 1..ChunkLen : Taken[k] = << call.name, pos + k >>
  <2>1. CASE control2.last
    <3>1. Taken = SubSeq(Chunk, 1, ChunkLen)
      BY <2>1, <1>1, <1>2 DEF Taken
    <3>2. /\ SubSeq(Chunk, 1, ChunkLen) \in Seq(S)
          /\ Len(SubSeq(Chunk, 1, ChunkLen)) = ChunkLen
          /\ \A k \in 1..ChunkLen : SubSeq(Chunk, 1, ChunkLen)[k] = Chunk[k]
      BY <1>1, <1>3
    <3>. QED  BY <3>1, <3>2, <1>4
  <2>2. CASE ~control2.last
    BY <2>2, <1>1, <1>2, <1>3, <1>4 DEF Taken
  <2>. QED  BY <2>1, <2>2
<1>6. Prefix(pos) \in Seq(S) /\ Len(Prefix(pos)) = pos
  BY <1>1 DEF Prefix
<1>7. /\ Len(Prefix(pos) \o Taken) = pos + ChunkLen /\ Prefix(pos) \o Taken \in Seq(S)
      /\ \A k \in 1..(pos + ChunkLen) : (Prefix(pos) \o Taken)[k] = << call.name, k >>
  <2>. DEFINE p == Prefix(pos)
              t == Taken
  <2>p. p \in Seq(S) /\ t \in Seq(S) /\ Len(p) = pos /\ Len(t) = ChunkLen
    BY <1>5, <1>6
  <2>. HIDE DEF S, p, t
  <2>c. /\ p \o t \in Seq(S) /\ Len(p \o t) = Len(p) + Len(t)
        /\ \A k \in 1..(Len(p) + Len(t)) :
             (p \o t)[k] = IF k <= Len(p) THEN p[k] ELSE t[k - Len(p)]
    BY <2>p, ConcatProperties, Zenon
  <2>1. /\ Prefix(pos) \o Taken \in Seq(S) /\ Len(Prefix(pos) \o Taken) = pos + ChunkLen
        /\ \A k \in 1..(pos + ChunkLen) :
             (Prefix(pos) \o Taken)[k] = IF k <= pos THEN Prefix(pos)[k] ELSE Taken[k - pos]
    BY <2>p, <2>c, Zenon DEF p, t
  <2>2. \A k \in 1..pos : Prefix(pos)[k] = << call.name, k >>
    BY DEF Prefix
  <2>3. \A k \in 1..(pos + ChunkLen) : k <= pos \/ (k - pos \in 1..ChunkLen /\ pos + (k - pos) = k)
    BY <1>1
  <2>. QED  BY <2>1, <2>2, <2>3, <1>1, <1>5
<1>8. /\ Prefix(pos + ChunkLen) \in Seq(S) /\ Len(Prefix(pos + ChunkLen)) = pos + ChunkLen
      /\ \A k \in 1..(pos + ChunkLen) : Prefix(pos + ChunkLen)[k] = << call.name, k >>
  BY <1>1 DEF Prefix
<1>. HIDE DEF S
<1>. QED  BY <1>7, <1>8, SeqEqual

\* What has been taken of the message after this clock.
NextWords == IF pc = "lower" THEN pos + ChunkLen ELSE pos

\* Once it has the whole message the sponge shows its digest, and shows it
\* before anything else.
LEMMA SqueezesOn ==
  ASSUME NEW emit, Turn(emit), Squeezes, call.fn = "shake256",
         control.algo = "shake256", ~control.start, ~tcontrol.tvalid
  PROVE  Squeezes'
<1>1. /\ StepSponge(emit) /\ StepFlags /\ StepResult /\ call' = call /\ Asked' = Asked
      /\ Message(call)' = Message(call)
  BY TurnIs
<1>2. sponge = [phase |-> sponge.phase, bytes |-> sponge.bytes, blocks |-> sponge.blocks,
                out |-> sponge.out, valid_d |-> sponge.valid_d]
  BY TurnIs DEF EnginesType
<1>3. Dout = sponge.out
  BY DEF Dout
<1>4. sponge.phase = "squeeze" /\ sponge.bytes = Message(call)
  BY DEF Squeezes
<1>5. sponge' = IF "shake256" \in emit /\ SpongeMayEmit
                THEN [sponge EXCEPT
                        !.blocks = @ + 1, !.valid_d = control2.valid,
                        !.out = Digest("shake256", sponge.bytes, sponge.blocks + 1)]
                ELSE [sponge EXCEPT !.out = None, !.valid_d = control2.valid]
  BY <1>1, <1>4 DEF StepSponge
<1>6. sponge'.phase = "squeeze" /\ sponge'.bytes = Message(call)'
  BY <1>1, <1>2, <1>4, <1>5
<1>7. CASE sponge.blocks = 0 /\ sponge.out = None /\ Clear
  <2>1. Clear'
    BY <1>7, <1>1, <1>3 DEF StepFlags, Captures, Clear
  <2>2. \/ sponge'.blocks = 0 /\ sponge'.out = None
        \/ sponge'.blocks = 1 /\ sponge'.out = Asked
    BY <1>7, <1>2, <1>4, <1>5 DEF Asked
  <2>. QED  BY <2>1, <2>2, <1>1, <1>6 DEF Squeezes
<1>8. CASE sponge.out = Asked /\ Clear
  <2>1. Captures
    BY <1>8, <1>3, AskedIs DEF Captures, Clear
  <2>2. result_regs' = Layout(Asked) /\ Layout(Asked)' = Layout(Asked)
    BY <2>1, <1>1, <1>3, <1>8 DEF StepResult, Layout
  <2>3. Captured'
    BY <2>1, <2>2, <1>1 DEF StepFlags, Captured
  <2>. QED  BY <2>3, <1>6 DEF Squeezes
<1>9. CASE Captured
  <2>1. flags' = flags /\ result_regs' = result_regs
    BY <1>9, <1>1 DEF StepFlags, StepResult, Captures, Captured
  <2>2. Layout(Asked)' = Layout(Asked)
    BY <1>1 DEF Layout
  <2>3. Captured'
    BY <2>1, <2>2, <1>9 DEF Captured
  <2>. QED  BY <2>3, <1>6 DEF Squeezes
<1>. QED  BY <1>7, <1>8, <1>9 DEF Squeezes

\* A word is taken when din_valid rises, once.
LEMMA SpongeTurn ==
  ASSUME NEW emit, Turn(emit), call.fn = "shake256", Worth,
         pc \in {"stop", "high", "low", "valid", "lower", "wait"}, NEW n, n = NextWords
  PROVE  /\ n < call.len => Absorbs(n)'
         /\ n = call.len => Squeezes'
<1>1. /\ CallInv /\ PortsInv /\ SpongeInv
      /\ StepSponge(emit) /\ StepFlags /\ StepResult /\ call' = call
      /\ Message(call)' = Message(call) /\ \A i : Prefix(i)' = Prefix(i)
  BY TurnIs
<1>2. /\ call.len \in Nat /\ pos \in Nat /\ gap \in Nat /\ call.len > 0
      /\ pc = "wait" => pos = call.len
      /\ pc # "wait" => pos < call.len
  BY <1>1 DEF CallInv, Call, Worth, ShakeSteps
<1>3. sponge = [phase |-> sponge.phase, bytes |-> sponge.bytes, blocks |-> sponge.blocks,
                out |-> sponge.out, valid_d |-> sponge.valid_d]
  BY TurnIs DEF EnginesType
<1>4. CASE pc = "stop"
  <2>1. control.start
    BY <1>1, <1>4 DEF PortsInv
  <2>2. n = 0 /\ n < call.len
    BY <1>1, <1>2, <1>4 DEF NextWords, CallInv
  <2>3. Prefix(0) = << >>
    BY DEF Prefix
  <2>4. sponge'.phase = "absorb" /\ sponge'.bytes = << >> /\ sponge'.blocks = 0
        /\ sponge'.out = None
    BY <2>1, <1>1 DEF StepSponge
  <2>5. Clear'
    BY <2>1, <1>1 DEF StepFlags, Clear
  <2>. QED  BY <2>2, <2>3, <2>4, <2>5, <1>1, <1>2 DEF Absorbs
<1>5. CASE pc # "stop"
  <2>1. /\ ~control.start /\ ~tcontrol.tvalid /\ control.algo = "shake256"
        /\ control2.valid <=> pc = "lower"
    BY <1>1, <1>5 DEF PortsInv
  <2>2. Dout = sponge.out
    BY <2>1 DEF Dout
  <2>3. InSponge
    BY <1>5 DEF InSponge
  <2>4. ASSUME sponge.out = None, Clear  PROVE Clear'
    BY <2>1, <2>2, <2>4, <1>1 DEF StepFlags, Captures, Clear
  <2>5. ASSUME Absorbs(n), ~(control2.valid /\ ~sponge.valid_d), n < call.len  PROVE Absorbs(n)'
    <3>1. sponge' = [sponge EXCEPT !.out = None, !.valid_d = control2.valid]
      BY <2>1, <2>5, <1>1 DEF StepSponge, SpongeMayEmit, Absorbs
    <3>2. Clear'
      BY <2>4, <2>5 DEF Absorbs
    <3>. QED  BY <3>1, <3>2, <2>5, <1>1, <1>3 DEF Absorbs
  <2>6. CASE pc \in {"high", "low", "valid"}
    <3>1. n = pos /\ WordsTaken = pos /\ n < call.len
      BY <2>6, <1>2 DEF NextWords, WordsTaken
    <3>2. Absorbs(n)
      BY <3>1, <2>3, <1>1 DEF SpongeInv
    <3>. QED  BY <3>1, <3>2, <2>1, <2>5, <2>6, <1>2
  <2>7. CASE pc = "lower" /\ ~Settled
    <3>1. n = pos + ChunkLen /\ WordsTaken = pos /\ pos < call.len
      BY <2>7, <1>2 DEF NextWords, WordsTaken
    <3>2. Absorbs(pos)
      BY <3>1, <2>3, <1>1 DEF SpongeInv
    <3>3. control2.valid /\ ~sponge.valid_d
      BY <2>1, <2>7, <1>1 DEF SpongeInv
    <3>4. sponge' = [sponge EXCEPT !.bytes = @ \o Taken, !.valid_d = TRUE,
                                   !.phase = IF control2.last THEN "squeeze" ELSE @]
      BY <3>2, <3>3, <2>1, <1>1 DEF StepSponge, Absorbs
    <3>5. Prefix(pos) \o Taken = Prefix(n)
      BY <3>1, <2>7, <1>1, TakesTheChunk
    <3>6. control2.last <=> n = call.len
      BY <3>1, <2>7, <1>1, Chunks DEF PortsInv
    <3>7. /\ sponge'.bytes = Prefix(n) /\ sponge'.blocks = 0 /\ sponge'.out = None
          /\ sponge'.phase = IF n = call.len THEN "squeeze" ELSE "absorb"
      BY <3>2, <3>4, <3>5, <3>6, <1>3 DEF Absorbs
    <3>8. Clear'
      BY <3>2, <2>4 DEF Absorbs
    <3>9. Prefix(call.len) = Message(call)
      BY DEF Prefix, Message
    <3>. QED  BY <3>7, <3>8, <3>9, <1>1, <1>2 DEF Absorbs, Squeezes
  <2>8. CASE pc = "lower" /\ Settled
    <3>1. n = pos + ChunkLen /\ WordsTaken = n
      BY <2>8 DEF NextWords, WordsTaken
    <3>2. sponge.valid_d
      BY <2>8, <1>1 DEF SpongeInv
    <3>3. ASSUME n < call.len  PROVE Absorbs(n)'
      <4>1. Absorbs(n)
        BY <3>1, <3>3, <2>3, <1>1 DEF SpongeInv
      <4>. QED  BY <4>1, <3>2, <3>3, <2>5
    <3>4. ASSUME n = call.len  PROVE Squeezes'
      <4>1. Squeezes
        BY <3>1, <3>4, <2>3, <1>1 DEF SpongeInv
      <4>. QED  BY <4>1, <2>1, SqueezesOn
    <3>. QED  BY <3>3, <3>4
  <2>9. CASE pc = "wait"
    <3>1. n = call.len /\ WordsTaken = call.len
      BY <2>9, <1>2 DEF NextWords, WordsTaken
    <3>2. Squeezes
      BY <3>1, <2>3, <1>1 DEF SpongeInv
    <3>3. Squeezes'
      BY <3>2, <2>1, SqueezesOn
    <3>. QED  BY <3>1, <3>3, <1>2
  <2>. QED  BY <2>6, <2>7, <2>8, <2>9, <1>5
<1>. QED  BY <1>4, <1>5
-----------------------------------------------------------------------------
(* From one clock to the next *)

\* What the steps of the driver must respect for the engines to keep up.
Sha2Link ==
  /\ InSha2 /\ InSha2' => BytesTaken' = TakenNext /\ (pc = "wait" => pc' = "wait")
  /\ InSha2' /\ ~InSha2 => pc = "mode" /\ BytesTaken' = 0
  /\ InSha2 /\ ~InSha2' => pc = "wait" /\ status.ready
  /\ pc' = "tlower" => (Settled' <=> pc = "tlower")

SpongeLink ==
  /\ InSponge' => /\ call.fn = "shake256" /\ Worth /\ WordsTaken' = NextWords
                  /\ pc \in {"stop", "high", "low", "valid", "lower", "wait"}
  /\ pc' = "lower" => (Settled' <=> pc = "lower")

ReadsOn == regs' = Append(regs, result_regs[Len(regs)])

ResultLink ==
  Worth =>
    /\ pc' = "wait" => \/ pc \in {"wait", "lower"}
                       \/ pc = "tlower" /\ Left = 1 /\ Settled
    /\ pc' = "read" => \/ pc = "wait" /\ status.ready /\ regs' = regs
                       \/ pc = "read" /\ regs' = regs
                       \/ pc = "read" /\ ReadsOn /\ Len(regs) + 1 # RegsToRead
    /\ pc' = "copy" => \/ pc = "read" /\ ReadsOn /\ Len(regs) + 1 = RegsToRead
                       \/ pc = "copy" /\ regs' = regs
    /\ pc' # "timedout" \/ pc = "timedout"

LEMMA ValidsFollow ==
  ASSUME NEW emit, Turn(emit)
  PROVE  /\ sponge'.valid_d <=> control2.valid
         /\ \A e \in Sha2 : sha2'[e].valid_d <=> Sha2Valid(e)
<1>1. /\ StepSponge(emit) /\ sha2' = [e \in Sha2 |-> StepSha2(e, emit)]
      /\ EnginesType /\ PortsInv
  BY TurnIs
<1>2. sponge'.valid_d <=> control2.valid
  BY <1>1 DEF StepSponge, EnginesType
<1>3. ASSUME NEW e \in Sha2
      PROVE  sha2'[e].valid_d <=> Sha2Valid(e)
  <2>. DEFINE x == sha2[e]
  <2>1. sha2'[e] = StepSha2(e, emit)
    BY <1>1
  <2>2. x = [phase |-> x.phase, bytes |-> x.bytes, due |-> x.due, out |-> x.out,
             valid_d |-> x.valid_d]
    BY <1>1 DEF EnginesType
  <2>. QED  BY <2>1, <2>2 DEF StepSha2
<1>. QED  BY <1>2, <1>3

\* RESULT_READY is seen only once the digest is in the result registers.
LEMMA ReadyMeansCaptured ==
  ASSUME DriverInv, Worth, pc = "wait", status.ready
  PROVE  Captured /\ (call.fn \in Sha2 => Clean(call.fn))
<1>1. flags.ready /\ ~Clear
  BY DEF DriverInv, ResultInv, Clear
<1>2. pos = call.len /\ call.fn \in Algo
  BY DEF DriverInv, CallInv, Call
<1>3. CASE call.fn \in Sha2
  <2>1. InSha2 /\ BytesTaken = call.len
    BY <1>2, <1>3 DEF InSha2, BytesTaken
  <2>. QED  BY <1>1, <2>1 DEF DriverInv, Sha2Inv, Hashes, Shows
<1>4. CASE call.fn = "shake256"
  <2>1. InSponge /\ WordsTaken = call.len
    BY <1>2, <1>4 DEF InSponge, WordsTaken
  <2>2. Captured
    BY <1>1, <2>1 DEF DriverInv, SpongeInv, Squeezes
  <2>. QED  BY <1>4, <2>2 DEF Sha2
<1>. QED  BY <1>2, <1>3, <1>4 DEF Algo

LEMMA Sha2InvStep ==
  ASSUME NEW emit, Turn(emit), Sha2Link, CallInv'
  PROVE  Sha2Inv'
<1>1. /\ CallInv /\ PortsInv /\ Sha2Inv /\ DriverInv /\ call' = call
  BY TurnIs DEF Turn
<1>2. \A e \in Sha2 : Sha2Valid(e) => InSha2 /\ e = call.fn
  BY <1>1 DEF PortsInv, Sha2Valid, InSha2, CallInv, Call, Worth, Sha2Steps
<1>3. ASSUME NEW e \in Sha2, ~(InSha2 /\ e = call.fn)
      PROVE  Clean(e)'
  BY <1>1, <1>2, <1>3, CleanStays DEF Sha2Inv
<1>4. ASSUME InSha2, ~InSha2'  PROVE Clean(call.fn)'
  <2>1. pc = "wait" /\ status.ready /\ Worth /\ call.fn \in Sha2
    BY <1>4 DEF Sha2Link, InSha2
  <2>2. Clean(call.fn) /\ ~Sha2Valid(call.fn)
    BY <2>1, <1>1, ReadyMeansCaptured DEF PortsInv, Sha2Valid
  <2>3. PICK f : f = call.fn
    OBVIOUS
  <2>4. Clean(f)'
    BY <2>1, <2>2, <2>3, CleanStays
  <2>. QED  BY <2>3, <2>4, <1>1
<1>5. ASSUME NEW e \in Sha2  PROVE (InSha2 /\ e = call.fn)' \/ Clean(e)'
  <2>1. CASE InSha2 /\ e = call.fn
    BY <2>1, <1>1, <1>4
  <2>2. CASE ~(InSha2 /\ e = call.fn)
    BY <2>2, <1>3
  <2>. QED  BY <2>1, <2>2
<1>6. ASSUME InSha2'
      PROVE  /\ (BytesTaken < call.len => Collecting(call.fn, BytesTaken))'
             /\ (BytesTaken = call.len =>
                  \/ Hashes(call.fn)
                  \/ pc = "wait" /\ (Shows(call.fn) \/ (Clean(call.fn) /\ Captured)))'
  <2>0. PICK f, n : f = call.fn /\ n = TakenNext
    OBVIOUS
  <2>1. CASE InSha2
    <3>1. BytesTaken' = n /\ call'.fn = f /\ call'.len = call.len
      BY <2>0, <2>1, <1>1, <1>6 DEF Sha2Link
    <3>2. /\ n < call.len => Collecting(f, n)'
          /\ n = call.len =>
               \/ Hashes(f)'
               \/ pc = "wait" /\ (Shows(f)' \/ (Clean(f)' /\ Captured'))
      BY <2>0, <2>1, Sha2Turn
    <3>3. pc = "wait" => pc' = "wait"
      BY <2>1, <1>6 DEF Sha2Link
    <3>. QED  BY <3>1, <3>2, <3>3
  <2>2. CASE ~InSha2
    <3>1. BytesTaken' = 0 /\ call'.fn = f /\ call'.len = call.len /\ f \in Sha2
          /\ call.len \in Nat /\ call.len > 0
      BY <2>0, <2>2, <1>1, <1>6 DEF Sha2Link, InSha2, CallInv, Call, Worth
    <3>2. Clean(f)'
      BY <3>1, <2>2, <1>3
    <3>3. Prefix(0)' = << >>
      BY DEF Prefix
    <3>4. Collecting(f, 0)'
      BY <3>2, <3>3 DEF Clean, Collecting
    <3>. QED  BY <3>1, <3>4
  <2>. QED  BY <2>1, <2>2
<1>7. (pc = "tlower" => (sha2[call.fn].valid_d <=> Settled))'
  <2>1. ASSUME pc' = "tlower"  PROVE sha2'[call.fn].valid_d <=> Settled'
    <3>1. Settled' <=> pc = "tlower"
      BY <2>1 DEF Sha2Link
    <3>2. call.fn \in Sha2
      BY <2>1, <1>1 DEF CallInv, Sha2Steps
    <3>3. Sha2Valid(call.fn) <=> pc = "tlower"
      BY <1>1 DEF PortsInv, Sha2Valid
    <3>. QED  BY <3>1, <3>2, <3>3, ValidsFollow
  <2>. QED  BY <2>1, <1>1
<1>. QED  BY <1>5, <1>6, <1>7 DEF Sha2Inv

LEMMA SpongeInvStep ==
  ASSUME NEW emit, Turn(emit), SpongeLink
  PROVE  SpongeInv'
<1>1. CallInv /\ PortsInv /\ call' = call
  BY TurnIs
<1>2. ASSUME InSponge'
      PROVE  /\ (WordsTaken < call.len => Absorbs(WordsTaken))'
             /\ (WordsTaken = call.len => Squeezes)'
  <2>0. PICK n : n = NextWords
    OBVIOUS
  <2>1. WordsTaken' = n /\ call'.len = call.len
    BY <2>0, <1>1, <1>2 DEF SpongeLink
  <2>2. (n < call.len => Absorbs(n)') /\ (n = call.len => Squeezes')
    BY <2>0, <1>2, SpongeTurn DEF SpongeLink
  <2>. QED  BY <2>1, <2>2
<1>3. (pc = "lower" => (sponge.valid_d <=> Settled))'
  BY <1>1, ValidsFollow DEF SpongeLink, PortsInv
<1>. QED  BY <1>2, <1>3 DEF SpongeInv

LEMMA ResultInvStep ==
  ASSUME NEW emit, Turn(emit), ResultLink, CallInv'
  PROVE  ResultInv'
<1>1. /\ CallInv /\ PortsInv /\ Sha2Inv /\ ResultInv /\ DriverInv /\ call' = call
      /\ Asked' = Asked /\ StepFlags /\ StepStatus
  BY TurnIs DEF Turn
<1>. SUFFICES ASSUME Worth  PROVE ResultInv'
  BY <1>1 DEF ResultInv, Worth
<1>2. call \in Call /\ Layout(Asked)' = Layout(Asked)
  BY <1>1 DEF CallInv, Layout
<1>3. ASSUME pc' = "wait", status'.ready  PROVE flags'.ready
  <2>1. flags.ready
    BY <1>1, <1>3 DEF StepStatus
  <2>2. CASE pc \in {"wait", "lower"}
    BY <1>1, <2>1, <2>2 DEF PortsInv, StepFlags
  <2>3. CASE pc = "tlower" /\ Left = 1 /\ Settled
    <3>1. BytesTaken = call.len /\ InSha2
      BY <1>1, <1>2, <2>3 DEF BytesTaken, InSha2, CallInv, Call, Left, Sha2Steps
    <3>2. Hashes(call.fn)
      BY <1>1, <2>3, <3>1 DEF Sha2Inv
    <3>. QED  BY <2>1, <3>2 DEF Hashes, Clear
  <2>. QED  BY <1>3, <2>2, <2>3 DEF ResultLink
<1>4. ASSUME pc' \in {"read", "copy"}
      PROVE  /\ flags'.captured /\ result_regs' = Layout(Asked)' /\ result_regs' = result_regs
             /\ pc \in {"wait", "read", "copy"}
  <2>1. (pc = "wait" /\ status.ready) \/ pc \in {"read", "copy"}
    BY <1>4 DEF ResultLink
  <2>2. flags.captured /\ result_regs = Layout(Asked)
    BY <1>1, <2>1, ReadyMeansCaptured DEF ResultInv, Captured
  <2>3. flags' = flags /\ result_regs' = result_regs
    BY <2>1, <2>2, CapturedStays
  <2>. QED  BY <1>2, <2>1, <2>2, <2>3
<1>5. RegsToRead \in Nat /\ RegsToRead >= 1 /\ RegsToRead' = RegsToRead
  <2>1. call.fn \in Algo
    BY <1>2 DEF Call
  <2>2. RegCount \in Nat /\ RegCount >= 1 /\ DigestWords[call.fn] \in 1..RegCount
    BY <2>1, IpAssumption
  <2>. QED  BY <1>1, <2>2 DEF RegsToRead
<1>6. ASSUME pc' \in {"read", "copy"}, pc = "read"
      PROVE  /\ regs = [i \in 1..Len(regs) |-> result_regs'[i - 1]]
             /\ Len(regs) \in 0..(RegsToRead - 1)
             /\ ReadsOn => /\ regs' = [i \in 1..Len(regs') |-> result_regs'[i - 1]]
                           /\ Len(regs') = Len(regs) + 1
  <2>1. /\ regs = [i \in 1..Len(regs) |-> result_regs[i - 1]]
        /\ Len(regs) \in 0..(RegsToRead - 1)
    BY <1>1, <1>6 DEF ResultInv
  <2>2. result_regs' = result_regs
    BY <1>4, <1>6
  <2>n. Len(regs) \in Nat
    <3>. DEFINE l == Len(regs)
    <3>1. l \in 0..(RegsToRead - 1)
      BY <2>1
    <3>. HIDE DEF l
    <3>2. l \in Nat
      BY <3>1, <1>5
    <3>. QED  BY <3>2 DEF l
  <2>3. PICK n \in Nat : n = Len(regs)
    BY <2>n, Zenon
  <2>4. ASSUME ReadsOn
        PROVE  regs' = [i \in 1..(n + 1) |-> result_regs[i - 1]]
    <3>1. regs = [i \in 1..n |-> result_regs[i - 1]]
      BY <2>1, <2>3
    <3>2. regs' = Append([i \in 1..n |-> result_regs[i - 1]], result_regs[(n + 1) - 1])
      BY <2>3, <2>4, <3>1 DEF ReadsOn
    <3>. QED  BY <3>2
  <2>. QED  BY <2>1, <2>2, <2>3, <2>4
<1>7. ASSUME pc' = "read"
      PROVE  (/\ regs = [i \in 1..Len(regs) |-> result_regs[i - 1]]
              /\ Len(regs) \in 0..(RegsToRead - 1))'
  <2>1. CASE pc = "wait" /\ regs' = regs
    <3>1. regs' = << >> /\ Len(regs') = 0
      BY <1>1, <2>1 DEF CallInv
    <3>2. regs' = [i \in 1..Len(regs') |-> result_regs'[i - 1]]
      BY <3>1
    <3>. QED  BY <1>5, <3>1, <3>2
  <2>2. CASE pc = "read" /\ regs' = regs
    BY <1>5, <1>6, <1>7, <2>2
  <2>3. CASE pc = "read" /\ ReadsOn /\ Len(regs) + 1 # RegsToRead
    BY <1>5, <1>6, <1>7, <2>3
  <2>. QED  BY <1>7, <2>1, <2>2, <2>3 DEF ResultLink
<1>8. ASSUME pc' = "copy"
      PROVE  (regs = [i \in 1..RegsToRead |-> result_regs[i - 1]])'
  <2>1. CASE pc = "read" /\ ReadsOn /\ Len(regs) + 1 = RegsToRead
    BY <1>5, <1>6, <1>8, <2>1
  <2>2. CASE pc = "copy" /\ regs' = regs
    BY <1>1, <1>4, <1>5, <1>8, <2>2 DEF ResultInv
  <2>. QED  BY <1>8, <2>1, <2>2 DEF ResultLink
<1>9. pc' # "timedout"
  BY <1>1 DEF ResultLink, ResultInv
<1>. QED  BY <1>3, <1>4, <1>7, <1>8, <1>9 DEF ResultInv

\* A clock of the accelerator keeps the invariant whatever the driver does with it.
LEMMA Advance ==
  ASSUME NEW emit, Turn(emit), CallInv', PortsInv', Sha2Link, SpongeLink, ResultLink,
         out' = out, pc' = "returned" => pc = "returned"
  PROVE  DriverInv'
<1>1. Sha2Inv' /\ SpongeInv' /\ ResultInv' /\ EnginesType'
  BY Sha2InvStep, SpongeInvStep, ResultInvStep, EnginesTypeStep
<1>2. ShakeReturnsDigest'
  BY TurnIs DEF Turn, DriverInv, ShakeReturnsDigest
<1>. QED  BY <1>1, <1>2 DEF DriverInv

-----------------------------------------------------------------------------
(* The driver's accesses *)

Driving == DriverInv /\ Prompt /\ MinGap >= 2

LEMMA AccessIs ==
  ASSUME Driving, NEW emit \in Emits, NEW w, NEW next, Access(w, emit, next)
  PROVE  /\ Turn(emit) /\ StepRegisters(w) /\ Settled /\ ~Settled' /\ pc' = next /\ gap' = 1
         /\ call' = call /\ out' = out /\ CallInv /\ PortsInv /\ ResultInv
<1>1. MinGap \in Nat /\ gap \in Nat
  BY DriverAssumption DEF Driving, DriverInv, CallInv
<1>. QED  BY <1>1 DEF Access, Clock, Turn, Driving, DriverInv, Settled

LEMMA RegistersRead ==
  ASSUME PortsInv, StepRegisters(Load)
  PROVE  /\ control' = control /\ control2' = control2 /\ tdata' = tdata
         /\ tcontrol' = tcontrol /\ din' = din
BY DEF StepRegisters, Load, PortsInv

LEMMA RegisterWritten ==
  ASSUME PortsInv, NEW reg, NEW value, StepRegisters(Store(reg, value))
  PROVE  /\ control'  = IF reg = "control" THEN value ELSE control
         /\ control2' = IF reg = "control2" THEN value ELSE control2
         /\ tdata'    = IF reg = "tdata" THEN value ELSE tdata
         /\ tcontrol' = IF reg = "tcontrol" THEN value ELSE tcontrol
         /\ din' = [k \in 1..WordBytes |->
                      IF k <= WordBytes \div 2
                      THEN IF reg = "din_high" THEN value[k] ELSE din[k]
                      ELSE IF reg = "din_low" THEN value[k] ELSE din[k]]
         /\ reg \notin {"din_high", "din_low"} => din' = din
<1>. DEFINE w == Store(reg, value)
<1>1. w # << >> /\ w[1].reg = reg /\ w[1].value = value
  BY DEF Store
<1>. HIDE DEF w
<1>2. StepRegisters(w)
  BY DEF w
<1>3. din' = [k \in 1..WordBytes |->
                IF k <= WordBytes \div 2
                THEN IF reg = "din_high" THEN value[k] ELSE din[k]
                ELSE IF reg = "din_low" THEN value[k] ELSE din[k]]
  BY <1>1, <1>2 DEF StepRegisters
<1>4. reg \notin {"din_high", "din_low"} => din' = din
  BY <1>3 DEF PortsInv
<1>. QED  BY <1>1, <1>2, <1>3, <1>4 DEF StepRegisters

\* The selected SHA-2 engine is the one of the call one clock after the mode is
\* written.
LEMMA ModeFollows ==
  ASSUME NEW emit, Turn(emit)
  PROVE  /\ sha2_mode' \in Sha2
         /\ pc \notin {"idle", "mode"} /\ call.fn \in Sha2 => sha2_mode' = call.fn
BY TurnIs DEF PortsInv, StepMode, Sha2, Algo

LEMMA SameWord ==
  ASSUME call' = call, pos' = pos
  PROVE  Left' = Left /\ ChunkLen' = ChunkLen /\ Chunk' = Chunk
BY DEF Left, ChunkLen, Chunk

LEMMA ShakeControlStep ==
  ASSUME Driving, NEW emit \in Emits, ShakeControl(emit)
  PROVE  DriverInv'
<1>1. CASE /\ pc = "mode"
           /\ Access(Store("control", [algo |-> call.fn, start |-> FALSE]), emit, "start")
  <2>1. /\ Turn(emit) /\ Settled /\ ~Settled' /\ pc' = "start" /\ gap' = 1
        /\ call' = call /\ out' = out /\ pos' = pos /\ regs' = regs /\ call.fn = "shake256"
        /\ CallInv /\ PortsInv
        /\ StepRegisters(Store("control", [algo |-> call.fn, start |-> FALSE]))
    BY <1>1, AccessIs DEF ShakeControl
  <2>2. /\ control' = [algo |-> call.fn, start |-> FALSE] /\ control2' = control2
        /\ tdata' = tdata /\ tcontrol' = tcontrol /\ din' = din
    BY <2>1, RegisterWritten
  <2>3. CallInv'
    BY <1>1, <2>1 DEF CallInv, Call, Steps, ShakeSteps, Sha2Steps, Ends, Worth
  <2>4. PortsInv'
    BY <1>1, <2>1, <2>2, ModeFollows DEF PortsInv, Algo
  <2>5. Sha2Link /\ SpongeLink /\ ResultLink
    BY <1>1, <2>1 DEF Sha2Link, SpongeLink, ResultLink, InSha2, InSponge, Sha2Steps
  <2>. QED  BY <2>1, <2>3, <2>4, <2>5, Advance
<1>2. CASE /\ pc = "start"
           /\ Access(Store("control", [algo |-> call.fn, start |-> TRUE]), emit, "stop")
  <2>1. /\ Turn(emit) /\ Settled /\ ~Settled' /\ pc' = "stop" /\ gap' = 1
        /\ call' = call /\ out' = out /\ pos' = pos /\ regs' = regs /\ call.fn = "shake256"
        /\ CallInv /\ PortsInv
        /\ StepRegisters(Store("control", [algo |-> call.fn, start |-> TRUE]))
    BY <1>2, AccessIs DEF ShakeControl
  <2>2. /\ control' = [algo |-> call.fn, start |-> TRUE] /\ control2' = control2
        /\ tdata' = tdata /\ tcontrol' = tcontrol /\ din' = din
    BY <2>1, RegisterWritten
  <2>3. CallInv'
    BY <1>2, <2>1 DEF CallInv, Call, Steps, ShakeSteps, Sha2Steps, Ends, Worth
  <2>4. PortsInv'
    BY <1>2, <2>1, <2>2, ModeFollows DEF PortsInv, Algo
  <2>5. Sha2Link /\ SpongeLink /\ ResultLink
    BY <1>2, <2>1 DEF Sha2Link, SpongeLink, ResultLink, InSha2, InSponge, Sha2Steps
  <2>. QED  BY <2>1, <2>3, <2>4, <2>5, Advance
<1>3. CASE /\ pc = "stop"
           /\ Access(Store("control", [algo |-> call.fn, start |-> FALSE]), emit, "high")
  <2>1. /\ Turn(emit) /\ Settled /\ ~Settled' /\ pc' = "high" /\ gap' = 1
        /\ call' = call /\ out' = out /\ pos' = pos /\ regs' = regs /\ call.fn = "shake256"
        /\ CallInv /\ PortsInv
        /\ StepRegisters(Store("control", [algo |-> call.fn, start |-> FALSE]))
    BY <1>3, AccessIs DEF ShakeControl
  <2>2. /\ control' = [algo |-> call.fn, start |-> FALSE] /\ control2' = control2
        /\ tdata' = tdata /\ tcontrol' = tcontrol /\ din' = din
    BY <2>1, RegisterWritten
  <2>3. CallInv'
    BY <1>3, <2>1 DEF CallInv, Call, Steps, ShakeSteps, Sha2Steps, Ends, Worth
  <2>4. PortsInv'
    BY <1>3, <2>1, <2>2, ModeFollows DEF PortsInv, Algo
  <2>5. Sha2Link /\ SpongeLink /\ ResultLink
    BY <1>3, <2>1 DEF Sha2Link, SpongeLink, ResultLink, InSha2, InSponge, Sha2Steps,
                      WordsTaken, NextWords, Worth
  <2>. QED  BY <2>1, <2>3, <2>4, <2>5, Advance
<1>. QED  BY <1>1, <1>2, <1>3 DEF ShakeControl

LEMMA ShakeWordStep ==
  ASSUME Driving, NEW emit \in Emits, ShakeWord(emit)
  PROVE  DriverInv'
<1>1. CASE pc = "high" /\ Access(Store("din_high", Chunk), emit, "low")
  <2>1. /\ Turn(emit) /\ Settled /\ ~Settled' /\ pc' = "low" /\ gap' = 1
        /\ call' = call /\ out' = out /\ pos' = pos /\ regs' = regs
        /\ CallInv /\ PortsInv /\ StepRegisters(Store("din_high", Chunk))
    BY <1>1, AccessIs DEF ShakeWord
  <2>2. /\ control' = control /\ control2' = control2 /\ tdata' = tdata /\ tcontrol' = tcontrol
        /\ din' = [k \in 1..WordBytes |-> IF k <= WordBytes \div 2 THEN Chunk[k] ELSE din[k]]
    BY <2>1, RegisterWritten
  <2>3. CallInv'
    BY <1>1, <2>1 DEF CallInv, Call, Steps, ShakeSteps, Sha2Steps, Ends, Worth
  <2>4. call.fn = "shake256" /\ Chunk' = Chunk
    BY <1>1, <2>1, SameWord DEF CallInv, ShakeSteps
  <2>5. \A k \in 1..WordBytes : Chunk[k] \in (Name \X Nat) \union {NoByte}
    BY <2>1, IpAssumption DEF Chunk, CallInv, Call
  <2>6. /\ din' \in [1..WordBytes -> (Name \X Nat) \union {NoByte}]
        /\ \A k \in 1..WordBytes : k <= WordBytes \div 2 => din'[k] = Chunk[k]
    BY <2>1, <2>2, <2>5 DEF PortsInv
  <2>7. PortsInv'
    BY <1>1, <2>1, <2>2, <2>4, <2>6, ModeFollows DEF PortsInv
  <2>8. Sha2Link /\ SpongeLink /\ ResultLink
    BY <1>1, <2>1, <2>4 DEF Sha2Link, SpongeLink, ResultLink, InSha2, InSponge, Sha2Steps,
                            WordsTaken, NextWords, Worth
  <2>. QED  BY <2>1, <2>3, <2>7, <2>8, Advance
<1>2. CASE pc = "low" /\ Access(Store("din_low", Chunk), emit, "valid")
  <2>1. /\ Turn(emit) /\ Settled /\ ~Settled' /\ pc' = "valid" /\ gap' = 1
        /\ call' = call /\ out' = out /\ pos' = pos /\ regs' = regs
        /\ CallInv /\ PortsInv /\ StepRegisters(Store("din_low", Chunk))
    BY <1>2, AccessIs DEF ShakeWord
  <2>2. /\ control' = control /\ control2' = control2 /\ tdata' = tdata /\ tcontrol' = tcontrol
        /\ din' = [k \in 1..WordBytes |-> IF k <= WordBytes \div 2 THEN din[k] ELSE Chunk[k]]
    BY <2>1, RegisterWritten
  <2>3. CallInv'
    BY <1>2, <2>1 DEF CallInv, Call, Steps, ShakeSteps, Sha2Steps, Ends, Worth
  <2>4. call.fn = "shake256" /\ Chunk' = Chunk
    BY <1>2, <2>1, SameWord DEF CallInv, ShakeSteps
  <2>5. \A k \in 1..WordBytes : Chunk[k] \in (Name \X Nat) \union {NoByte}
    BY <2>1, IpAssumption DEF Chunk, CallInv, Call
  <2>6. \A k \in 1..WordBytes : k <= WordBytes \div 2 => din[k] = Chunk[k]
    BY <1>2, <2>1 DEF PortsInv
  <2>7. din' = Chunk
    BY <2>2, <2>6 DEF Chunk
  <2>8. din' \in [1..WordBytes -> (Name \X Nat) \union {NoByte}]
    BY <2>5, <2>7 DEF Chunk
  <2>9. PortsInv'
    BY <1>2, <2>1, <2>2, <2>4, <2>7, <2>8, ModeFollows DEF PortsInv
  <2>10. Sha2Link /\ SpongeLink /\ ResultLink
    BY <1>2, <2>1, <2>4 DEF Sha2Link, SpongeLink, ResultLink, InSha2, InSponge, Sha2Steps,
                            WordsTaken, NextWords, Worth
  <2>. QED  BY <2>1, <2>3, <2>9, <2>10, Advance
<1>3. CASE /\ pc = "valid"
           /\ Access(Store("control2", [last |-> Left <= WordBytes, bytes |-> ChunkLen,
                                        valid |-> TRUE, ready |-> FALSE]), emit, "lower")
  <2>. DEFINE v == [last |-> Left <= WordBytes, bytes |-> ChunkLen, valid |-> TRUE,
                    ready |-> FALSE]
  <2>1. /\ Turn(emit) /\ Settled /\ ~Settled' /\ pc' = "lower" /\ gap' = 1
        /\ call' = call /\ out' = out /\ pos' = pos /\ regs' = regs
        /\ CallInv /\ PortsInv /\ StepRegisters(Store("control2", v))
    BY <1>3, AccessIs DEF ShakeWord
  <2>2. /\ control' = control /\ control2' = v /\ tdata' = tdata /\ tcontrol' = tcontrol
        /\ din' = din
    BY <2>1, RegisterWritten
  <2>3. CallInv'
    BY <1>3, <2>1 DEF CallInv, Call, Steps, ShakeSteps, Sha2Steps, Ends, Worth
  <2>4. /\ call.fn = "shake256" /\ Chunk' = Chunk /\ Left' = Left /\ ChunkLen' = ChunkLen
        /\ ChunkLen \in Nat /\ Left \in Nat /\ WordBytes \in Nat
    BY <1>3, <2>1, SameWord, IpAssumption DEF CallInv, Call, ShakeSteps, ChunkLen, Left
  <2>5. /\ control2' \in [last : BOOLEAN, bytes : Nat, valid : BOOLEAN, ready : BOOLEAN]
        /\ control2'.valid /\ control2'.bytes = ChunkLen'
        /\ control2'.last <=> Left' <= WordBytes
    <3>1. (Left <= WordBytes) \in BOOLEAN
      OBVIOUS
    <3>2. v \in [last : BOOLEAN, bytes : Nat, valid : BOOLEAN, ready : BOOLEAN]
      BY <3>1, <2>4
    <3>3. v.valid /\ v.bytes = ChunkLen /\ (v.last <=> Left <= WordBytes)
      OBVIOUS
    <3>. QED  BY <3>2, <3>3, <2>2, <2>4
  <2>6. PortsInv'
    BY <1>3, <2>1, <2>2, <2>4, <2>5, ModeFollows DEF PortsInv
  <2>7. Sha2Link /\ SpongeLink /\ ResultLink
    BY <1>3, <2>1, <2>4 DEF Sha2Link, SpongeLink, ResultLink, InSha2, InSponge, Sha2Steps,
                            WordsTaken, NextWords, Worth
  <2>. QED  BY <2>1, <2>3, <2>6, <2>7, Advance
<1>. QED  BY <1>1, <1>2, <1>3 DEF ShakeWord

LEMMA ShakeLowerStep ==
  ASSUME Driving, NEW emit \in Emits, ShakeLower(emit)
  PROVE  DriverInv'
<1>. DEFINE v == IF Left > WordBytes
                 THEN [last |-> FALSE, bytes |-> ChunkLen, valid |-> FALSE, ready |-> FALSE]
                 ELSE [last |-> FALSE, bytes |-> 0, valid |-> FALSE, ready |-> TRUE]
            next == IF Left > WordBytes THEN "high" ELSE "wait"
<1>1. /\ Turn(emit) /\ Settled /\ ~Settled' /\ pc = "lower" /\ pc' = next /\ gap' = 1
      /\ call' = call /\ out' = out /\ pos' = pos + ChunkLen /\ regs' = regs
      /\ CallInv /\ PortsInv /\ StepRegisters(Store("control2", v))
  <2>1. Access(Store("control2", v), emit, next)
    BY DEF ShakeLower
  <2>. QED  BY <2>1, AccessIs DEF ShakeLower
<1>2. /\ control' = control /\ control2' = v /\ tdata' = tdata /\ tcontrol' = tcontrol
      /\ din' = din
  BY <1>1, RegisterWritten
<1>3. /\ call.fn = "shake256" /\ pos \in 0..call.len /\ call.len \in Nat
      /\ pos < call.len \/ (pos = 0 /\ call.len = 0)
      /\ WordBytes \in Nat /\ WordBytes >= 1
  BY <1>1, IpAssumption DEF CallInv, Call, ShakeSteps, Worth
<1>4. /\ ChunkLen \in Nat /\ pos + ChunkLen \in 0..call.len
      /\ Left > WordBytes => pos + ChunkLen < call.len
      /\ ~(Left > WordBytes) => pos + ChunkLen = call.len
  BY <1>3 DEF ChunkLen, Left
<1>5. CallInv'
  BY <1>1, <1>3, <1>4 DEF CallInv, Steps, ShakeSteps, Sha2Steps, Ends, Worth
<1>6. control2' \in [last : BOOLEAN, bytes : Nat, valid : BOOLEAN, ready : BOOLEAN]
      /\ ~control2'.valid
  BY <1>2, <1>4
<1>7. PortsInv'
  BY <1>1, <1>2, <1>3, <1>6, ModeFollows DEF PortsInv, Sha2
<1>8. Sha2Link /\ SpongeLink /\ ResultLink
  BY <1>1, <1>3 DEF Sha2Link, SpongeLink, ResultLink, InSha2, InSponge, Sha2, Sha2Steps,
                    WordsTaken, NextWords, Worth
<1>. QED  BY <1>1, <1>5, <1>7, <1>8, Advance

LEMMA Sha2ControlStep ==
  ASSUME Driving, NEW emit \in Emits, Sha2Control(emit)
  PROVE  DriverInv'
<1>. DEFINE v == [algo |-> call.fn, start |-> FALSE]
            next == IF call.len = 0 THEN "wait" ELSE "tready"
<1>1. /\ Turn(emit) /\ Settled /\ ~Settled' /\ pc = "mode" /\ pc' = next /\ gap' = 1
      /\ call' = call /\ out' = out /\ pos' = pos /\ regs' = regs /\ call.fn \in Sha2
      /\ CallInv /\ PortsInv /\ StepRegisters(Store("control", v))
  BY AccessIs DEF Sha2Control
<1>2. /\ control' = v /\ control2' = control2 /\ tdata' = tdata /\ tcontrol' = tcontrol
      /\ din' = din
  BY <1>1, RegisterWritten
<1>3. pos = 0 /\ call.len \in Nat /\ call.fn # "shake256" /\ call.fn \in Algo
  BY <1>1 DEF CallInv, Call, Sha2, Algo
<1>4. CallInv'
  BY <1>1, <1>3 DEF CallInv, Steps, ShakeSteps, Sha2Steps, Ends, Worth
<1>5. PortsInv'
  BY <1>1, <1>2, <1>3, ModeFollows DEF PortsInv, Worth
<1>6. Sha2Link /\ SpongeLink /\ ResultLink
  BY <1>1, <1>3 DEF Sha2Link, SpongeLink, ResultLink, InSha2, InSponge, Sha2Steps,
                    BytesTaken, Worth
<1>. QED  BY <1>1, <1>4, <1>5, <1>6, Advance

LEMMA Sha2TreadyStep ==
  ASSUME Driving, NEW emit \in Emits, Sha2Tready(emit)
  PROVE  DriverInv'
<1>. DEFINE next == IF status.tready THEN "tdata" ELSE "tready"
<1>1. /\ Turn(emit) /\ Settled /\ ~Settled' /\ pc = "tready" /\ pc' = next /\ gap' = 1
      /\ call' = call /\ out' = out /\ pos' = pos /\ regs' = regs
      /\ CallInv /\ PortsInv /\ StepRegisters(Load)
  BY AccessIs DEF Sha2Tready
<1>2. /\ control' = control /\ control2' = control2 /\ tdata' = tdata /\ tcontrol' = tcontrol
      /\ din' = din
  BY <1>1, RegistersRead
<1>3. pos \in Nat /\ pos < call.len /\ call.fn # "shake256" /\ call.fn \in Sha2 /\ Worth
  BY <1>1 DEF CallInv, Call, Sha2, Sha2Steps, Worth
<1>4. CallInv'
  BY <1>1, <1>3 DEF CallInv, Steps, ShakeSteps, Sha2Steps, Ends, Worth
<1>5. PortsInv'
  BY <1>1, <1>2, <1>3, ModeFollows DEF PortsInv, Worth
<1>6. Sha2Link /\ SpongeLink /\ ResultLink
  BY <1>1, <1>3 DEF Sha2Link, SpongeLink, ResultLink, InSha2, InSponge, Sha2Steps,
                    BytesTaken, TakenNext, Worth
<1>. QED  BY <1>1, <1>4, <1>5, <1>6, Advance

LEMMA Sha2ByteStep ==
  ASSUME Driving, NEW emit \in Emits, Sha2Byte(emit)
  PROVE  DriverInv'
<1>1. CASE pc = "tdata" /\ Access(Store("tdata", << call.name, pos + 1 >>), emit, "tvalid")
  <2>1. /\ Turn(emit) /\ Settled /\ ~Settled' /\ pc' = "tvalid" /\ gap' = 1
        /\ call' = call /\ out' = out /\ pos' = pos /\ regs' = regs
        /\ CallInv /\ PortsInv /\ StepRegisters(Store("tdata", << call.name, pos + 1 >>))
    BY <1>1, AccessIs DEF Sha2Byte
  <2>2. /\ control' = control /\ control2' = control2 /\ tdata' = << call.name, pos + 1 >>
        /\ tcontrol' = tcontrol /\ din' = din
    BY <2>1, RegisterWritten
  <2>3. pos \in Nat /\ pos < call.len /\ call.fn # "shake256" /\ call.fn \in Sha2 /\ Worth
    BY <1>1, <2>1 DEF CallInv, Call, Sha2, Sha2Steps, Worth
  <2>4. CallInv'
    BY <1>1, <2>1, <2>3 DEF CallInv, Steps, ShakeSteps, Sha2Steps, Ends, Worth
  <2>5. PortsInv'
    BY <1>1, <2>1, <2>2, <2>3, ModeFollows DEF PortsInv, Worth
  <2>6. Sha2Link /\ SpongeLink /\ ResultLink
    BY <1>1, <2>1, <2>3 DEF Sha2Link, SpongeLink, ResultLink, InSha2, InSponge, Sha2Steps,
                            BytesTaken, TakenNext, Worth
  <2>. QED  BY <2>1, <2>4, <2>5, <2>6, Advance
<1>2. CASE /\ pc = "tvalid"
           /\ Access(Store("tcontrol", [tvalid |-> TRUE, tlast |-> Left = 1]), emit, "tlower")
  <2>. DEFINE v == [tvalid |-> TRUE, tlast |-> Left = 1]
  <2>1. /\ Turn(emit) /\ Settled /\ ~Settled' /\ pc' = "tlower" /\ gap' = 1
        /\ call' = call /\ out' = out /\ pos' = pos /\ regs' = regs
        /\ CallInv /\ PortsInv /\ StepRegisters(Store("tcontrol", v))
    BY <1>2, AccessIs DEF Sha2Byte
  <2>2. /\ control' = control /\ control2' = control2 /\ tdata' = tdata
        /\ tcontrol' = v /\ din' = din
    BY <2>1, RegisterWritten
  <2>3. pos \in Nat /\ pos < call.len /\ call.fn # "shake256" /\ call.fn \in Sha2 /\ Worth
    BY <1>2, <2>1 DEF CallInv, Call, Sha2, Sha2Steps, Worth
  <2>4. CallInv'
    BY <1>2, <2>1, <2>3 DEF CallInv, Steps, ShakeSteps, Sha2Steps, Ends, Worth
  <2>5. Left' = Left
    BY <2>1, SameWord
  <2>6. tcontrol' \in [tvalid : BOOLEAN, tlast : BOOLEAN] /\ tcontrol'.tvalid
        /\ (tcontrol'.tlast <=> Left' = 1)
    BY <2>2, <2>5
  <2>7. PortsInv'
    BY <1>2, <2>1, <2>2, <2>3, <2>6, ModeFollows DEF PortsInv, Worth
  <2>8. Sha2Link /\ SpongeLink /\ ResultLink
    BY <1>2, <2>1, <2>3 DEF Sha2Link, SpongeLink, ResultLink, InSha2, InSponge, Sha2Steps,
                            BytesTaken, TakenNext, Worth
  <2>. QED  BY <2>1, <2>4, <2>7, <2>8, Advance
<1>. QED  BY <1>1, <1>2 DEF Sha2Byte

LEMMA Sha2LowerStep ==
  ASSUME Driving, NEW emit \in Emits, Sha2Lower(emit)
  PROVE  DriverInv'
<1>. DEFINE v == [tvalid |-> FALSE, tlast |-> Left = 1]
            next == IF Left = 1 THEN "wait" ELSE "tready"
<1>1. /\ Turn(emit) /\ Settled /\ ~Settled' /\ pc = "tlower" /\ pc' = next /\ gap' = 1
      /\ call' = call /\ out' = out /\ pos' = pos + 1 /\ regs' = regs
      /\ CallInv /\ PortsInv /\ StepRegisters(Store("tcontrol", v))
  BY AccessIs DEF Sha2Lower
<1>2. /\ control' = control /\ control2' = control2 /\ tdata' = tdata
      /\ tcontrol' = v /\ din' = din
  BY <1>1, RegisterWritten
<1>3. /\ pos \in Nat /\ pos < call.len /\ call.len \in Nat /\ (Left = 1 <=> pos + 1 = call.len)
      /\ call.fn # "shake256" /\ call.fn \in Sha2 /\ Worth
  BY <1>1 DEF CallInv, Call, Sha2, Sha2Steps, Worth, Left
<1>4. CallInv'
  BY <1>1, <1>3 DEF CallInv, Steps, ShakeSteps, Sha2Steps, Ends, Worth
<1>5. tcontrol' \in [tvalid : BOOLEAN, tlast : BOOLEAN] /\ ~tcontrol'.tvalid
  BY <1>2
<1>6. PortsInv'
  BY <1>1, <1>2, <1>3, <1>5, ModeFollows DEF PortsInv, Worth
<1>7. Sha2Link /\ SpongeLink /\ ResultLink
  BY <1>1, <1>3 DEF Sha2Link, SpongeLink, ResultLink, InSha2, InSponge, Sha2Steps,
                    BytesTaken, TakenNext, Worth
<1>. QED  BY <1>1, <1>4, <1>6, <1>7, Advance

LEMMA WaitResultStep ==
  ASSUME Driving, NEW emit \in Emits, WaitResult(emit)
  PROVE  DriverInv'
<1>. DEFINE next == IF status.ready THEN "read" ELSE "wait"
<1>1. /\ Turn(emit) /\ Settled /\ ~Settled' /\ pc = "wait" /\ pc' = next /\ gap' = 1
      /\ call' = call /\ out' = out /\ pos' = pos /\ regs' = regs
      /\ CallInv /\ PortsInv /\ StepRegisters(Load)
  BY AccessIs DEF WaitResult
<1>2. /\ control' = control /\ control2' = control2 /\ tdata' = tdata /\ tcontrol' = tcontrol
      /\ din' = din
  BY <1>1, RegistersRead
<1>3. CallInv'
  BY <1>1 DEF CallInv, Steps, ShakeSteps, Sha2Steps, Ends
<1>4. PortsInv'
  BY <1>1, <1>2, <1>3, ModeFollows DEF PortsInv, Worth
<1>5. Sha2Link /\ SpongeLink /\ ResultLink
  BY <1>1 DEF Sha2Link, SpongeLink, ResultLink, InSha2, InSponge, Sha2Steps,
              BytesTaken, TakenNext, WordsTaken, NextWords, Worth
<1>. QED  BY <1>1, <1>3, <1>4, <1>5, Advance

LEMMA ReadResultStep ==
  ASSUME Driving, NEW emit \in Emits, ReadResult(emit)
  PROVE  DriverInv'
<1>. DEFINE next == IF Len(regs) + 1 = RegsToRead THEN "copy" ELSE "read"
<1>1. /\ Turn(emit) /\ Settled /\ ~Settled' /\ pc = "read" /\ pc' = next /\ gap' = 1
      /\ call' = call /\ out' = out /\ pos' = pos /\ ReadsOn
      /\ CallInv /\ PortsInv /\ StepRegisters(Load)
  BY AccessIs DEF ReadResult, ReadsOn
<1>2. /\ control' = control /\ control2' = control2 /\ tdata' = tdata /\ tcontrol' = tcontrol
      /\ din' = din
  BY <1>1, RegistersRead
<1>3. CallInv'
  BY <1>1 DEF CallInv, Steps, ShakeSteps, Sha2Steps, Ends
<1>4. PortsInv'
  BY <1>1, <1>2, ModeFollows DEF PortsInv
<1>5. Sha2Link /\ SpongeLink /\ ResultLink
  BY <1>1 DEF Sha2Link, SpongeLink, ResultLink, InSha2, InSponge, Sha2Steps
<1>. QED  BY <1>1, <1>3, <1>4, <1>5, Advance

\* A clock without an access settles what the last access wrote.
LEMMA TickStep ==
  ASSUME Driving, NEW emit \in Emits, Tick(emit)
  PROVE  DriverInv'
<1>1. MinGap \in Nat /\ gap \in Nat /\ gap >= 1 /\ MinGap >= 2
  BY DriverAssumption DEF Driving, DriverInv, CallInv
<1>2. /\ Turn(emit) /\ pc' = pc /\ call' = call /\ out' = out /\ pos' = pos /\ regs' = regs
      /\ CallInv /\ PortsInv /\ StepRegisters(Load) /\ StepMode
  BY DEF Tick, Clock, Turn, Driving, DriverInv
<1>3. gap' \in Nat /\ gap' >= 2 /\ Settled'
  BY <1>1 DEF Tick, Settled
<1>4. /\ control' = control /\ control2' = control2 /\ tdata' = tdata /\ tcontrol' = tcontrol
      /\ din' = din
  BY <1>2, RegistersRead
<1>5. CallInv'
  BY <1>2, <1>3 DEF CallInv, Worth
<1>6. Left' = Left /\ ChunkLen' = ChunkLen /\ Chunk' = Chunk
  BY <1>2, SameWord
<1>7. PortsInv'
  <2>1. sha2_mode' \in Sha2
        /\ (pc \notin {"idle", "mode"} /\ call.fn \in Sha2 => sha2_mode' = call.fn)
    BY <1>2, ModeFollows
  <2>2. pc \in {"tdata", "tvalid", "tlower"} => call.fn \in Sha2
    BY <1>2 DEF CallInv, Sha2Steps
  <2>. QED  BY <1>2, <1>4, <1>6, <2>1, <2>2 DEF PortsInv, Worth
<1>8. Sha2Link /\ SpongeLink /\ ResultLink
  <2>1. pc = "stop" => pos = 0
    BY <1>2 DEF CallInv
  <2>2. Worth' = Worth /\ InSha2' = InSha2 /\ BytesTaken' = TakenNext
    BY <1>2, <1>3 DEF Worth, InSha2, BytesTaken, TakenNext
  <2>3. Sha2Link
    BY <1>2, <1>3, <2>2 DEF Sha2Link
  <2>4. SpongeLink
    BY <1>2, <1>3, <1>6 DEF SpongeLink, InSponge, WordsTaken, NextWords, Worth
  <2>5. ResultLink
    BY <1>2 DEF ResultLink
  <2>. QED  BY <2>3, <2>4, <2>5
<1>. QED  BY <1>2, <1>5, <1>7, <1>8, Advance

LEMMA DriverStep ==
  ASSUME Driving, NEW emit \in Emits, Driver(emit) \/ Tick(emit)
  PROVE  DriverInv'
BY ShakeControlStep, ShakeWordStep, ShakeLowerStep, Sha2ControlStep, Sha2TreadyStep,
   Sha2ByteStep, Sha2LowerStep, WaitResultStep, ReadResultStep, TickStep DEF Driver

-----------------------------------------------------------------------------
(* The driver's own steps *)

\* The accelerator and the call stand still.
LEMMA Rests ==
  ASSUME UNCHANGED << ipVars, call >>
  PROVE  /\ EnginesType => EnginesType'
         /\ \A e : (Clean(e) => Clean(e)') /\ Asked' = Asked /\ Layout(Asked)' = Layout(Asked)
         /\ Worth' = Worth
BY DEF ipVars, EnginesType, Clean, Asked, Message, Worth, Layout

LEMMA BeginStep ==
  ASSUME DriverInv, Begin
  PROVE  DriverInv'
<1>1. PICK fn \in Algo, name \in Name, len \in 0..MaxLen :
        \E outlen \in IF fn = "shake256" THEN OutLen ELSE {DigestWords[fn]} :
          call' = [fn |-> fn, name |-> name, len |-> len, outlen |-> outlen]
  BY DEF Begin
<1>2. PICK outlen \in IF fn = "shake256" THEN OutLen ELSE {DigestWords[fn]} :
        call' = [fn |-> fn, name |-> name, len |-> len, outlen |-> outlen]
  BY <1>1
<1>3. /\ pc = "idle" /\ pc' = "mode" /\ UNCHANGED << ipVars, pos, regs, gap >>
      /\ CallInv /\ PortsInv /\ EnginesType /\ Sha2Inv
  BY DEF Begin, DriverInv
<1>4. call' \in Call
  <2>1. outlen \in Nat
    <3>1. CASE fn = "shake256"
      BY <3>1, DriverAssumption
    <3>2. CASE fn # "shake256"
      BY <3>2, IpAssumption
    <3>. QED  BY <3>1, <3>2
  <2>. QED  BY <1>2, <2>1 DEF Call
<1>5. CallInv'
  <2>1. pos = 0 /\ regs = << >> /\ gap \in Nat /\ gap >= 1
    BY <1>3 DEF CallInv
  <2>2. call'.len \in Nat
    BY <1>4, DriverAssumption DEF Call
  <2>3. pos' \in 0..call'.len /\ pos' = 0
    BY <1>3, <2>1, <2>2
  <2>. QED  BY <1>3, <1>4, <2>1, <2>3 DEF CallInv, Steps, ShakeSteps, Sha2Steps
<1>6. PortsInv'
  BY <1>3 DEF PortsInv, ipVars
<1>7. EnginesType'
  BY <1>3 DEF EnginesType, ipVars
<1>8. Sha2Inv'
  BY <1>3 DEF Sha2Inv, InSha2, Sha2Steps, Clean, ipVars
<1>9. SpongeInv' /\ ResultInv' /\ ShakeReturnsDigest'
  BY <1>3 DEF SpongeInv, InSponge, ResultInv, ShakeReturnsDigest
<1>. QED  BY <1>5, <1>6, <1>7, <1>8, <1>9 DEF DriverInv

\* The copy turns the registers round: the highest of them holds the first word.
LEMMA CopyStep ==
  ASSUME DriverInv, Copy
  PROVE  DriverInv'
<1>1. /\ pc = "copy" /\ pc' = "returned" /\ UNCHANGED << ipVars, call, pos, regs, gap >>
      /\ CallInv /\ PortsInv /\ EnginesType /\ Sha2Inv /\ ResultInv /\ call \in Call
  BY DEF Copy, DriverInv, CallInv
<1>2. CallInv'
  BY <1>1 DEF CallInv, Steps, ShakeSteps, Sha2Steps, Ends
<1>3. PortsInv'
  BY <1>1 DEF PortsInv, ipVars
<1>4. EnginesType' /\ Asked' = Asked
  BY <1>1, Rests
<1>5. Sha2Inv'
  BY <1>1 DEF Sha2Inv, InSha2, Sha2Steps, Clean, ipVars
<1>6. SpongeInv' /\ ResultInv'
  BY <1>1 DEF SpongeInv, InSponge, ResultInv
<1>7. ASSUME call.fn = "shake256", Worth, NEW k \in 1..call.outlen, k <= DigestWords["shake256"]
      PROVE  out'[k] = << Asked, k - 1 >>
  <2>1. /\ DigestWords["shake256"] \in 1..RegCount /\ RegCount \in Nat /\ k \in Nat /\ k >= 1
        /\ k <= RegCount /\ call.outlen \in Nat
    BY <1>1, <1>7, IpAssumption DEF Algo, Call
  <2>2. result_regs = Layout(Asked) /\ regs = [i \in 1..RegCount |-> result_regs[i - 1]]
    BY <1>1, <1>7 DEF ResultInv, RegsToRead
  <2>3. out'[k] = regs[RegCount - k + 1]
    BY <1>7, <2>1 DEF Copy
  <2>4. regs[RegCount - k + 1] = result_regs[RegCount - k]
    BY <2>1, <2>2
  <2>5. RegCount - k \in 0..(RegCount - 1) /\ RegCount - 1 - (RegCount - k) = k - 1
        /\ k - 1 < DigestWords["shake256"]
    BY <1>7, <2>1
  <2>6. Asked.algo = "shake256"
    BY <1>7 DEF Asked, Digest
  <2>7. Layout(Asked)[RegCount - k] = << Asked, k - 1 >>
    BY <2>5, <2>6 DEF Layout
  <2>. QED  BY <2>2, <2>3, <2>4, <2>7
<1>8. ShakeReturnsDigest'
  BY <1>1, <1>4, <1>7 DEF ShakeReturnsDigest, Worth
<1>. QED  BY <1>2, <1>3, <1>4, <1>5, <1>6, <1>8 DEF DriverInv

\* When nothing in the accelerator is about to change, the digest has been shown.
LEMMA NotQuiet ==
  ASSUME DriverInv, Worth, TimeOut
  PROVE  FALSE
<1>1. /\ CallInv /\ PortsInv /\ Sha2Inv /\ SpongeInv /\ ResultInv /\ call.fn \in Algo
  BY DEF DriverInv, CallInv, Call
<1>2. /\ \A e \in Algo : ~MayEmit(e)
      /\ Dout = None /\ status.ready = flags.ready /\ status.tready = Tready
      /\ pc \in {"tready", "wait"}
  BY DEF TimeOut, Quiet
<1>3. CASE pc = "tready"
  <2>1. ~Tready
    BY <1>2, <1>3 DEF TimeOut
  <2>2. call.fn \in Sha2 /\ pos \in Nat /\ call.len \in Nat /\ pos < call.len /\ InSha2
        /\ BytesTaken = pos
    BY <1>1, <1>3 DEF CallInv, Call, Sha2Steps, InSha2, BytesTaken
  <2>3. Collecting(call.fn, pos)
    BY <1>1, <2>2 DEF Sha2Inv
  <2>4. \A e \in Sha2 : sha2[e].phase \in {"idle", "run"}
    BY <1>1, <2>3 DEF Sha2Inv, Clean, Collecting
  <2>. QED  BY <1>1, <2>1, <2>4 DEF PortsInv, Tready
<1>4. CASE pc = "wait"
  <2>1. ~flags.ready
    BY <1>2, <1>4 DEF TimeOut
  <2>2. pos = call.len /\ control.algo = call.fn
    BY <1>1, <1>4 DEF CallInv, PortsInv
  <2>3. CASE call.fn \in Sha2
    <3>1. InSha2 /\ BytesTaken = call.len /\ sha2_mode = call.fn
      BY <1>1, <1>4, <2>2, <2>3 DEF InSha2, BytesTaken, PortsInv
    <3>2. Hashes(call.fn) \/ Shows(call.fn)
      BY <1>1, <2>1, <3>1 DEF Sha2Inv, Captured
    <3>3. ~Sha2MayEmit(call.fn)
      BY <1>1, <1>2, <2>3 DEF MayEmit, Sha2
    <3>4. Shows(call.fn)
      BY <3>2, <3>3 DEF Hashes, Sha2MayEmit
    <3>5. Dout = Asked
      BY <2>2, <2>3, <3>1, <3>4 DEF Dout, Shows, Sha2
    <3>. QED  BY <1>2, <3>5, AskedIs
  <2>4. CASE call.fn = "shake256"
    <3>1. InSponge /\ WordsTaken = call.len
      BY <1>4, <2>2, <2>4 DEF InSponge, WordsTaken
    <3>2. Squeezes /\ Dout = sponge.out /\ ~SpongeMayEmit
      BY <1>1, <1>2, <2>2, <2>4, <3>1 DEF SpongeInv, Dout, MayEmit
    <3>. QED  BY <1>2, <2>1, <3>2, AskedIs DEF Squeezes, SpongeMayEmit, Captured
  <2>. QED  BY <1>1, <2>3, <2>4 DEF Algo
<1>. QED  BY <1>2, <1>3, <1>4

LEMMA TimeOutStep ==
  ASSUME DriverInv, TimeOut
  PROVE  DriverInv'
<1>1. /\ pc \in {"tready", "wait"} /\ pc' = "timedout"
      /\ UNCHANGED << ipVars, call, pos, regs, gap >>
      /\ CallInv /\ PortsInv /\ EnginesType /\ Sha2Inv /\ ~Worth
  BY NotQuiet DEF TimeOut, DriverInv
<1>2. CallInv'
  BY <1>1 DEF CallInv, Steps, ShakeSteps, Sha2Steps, Ends
<1>3. PortsInv'
  BY <1>1 DEF PortsInv, ipVars
<1>4. EnginesType' /\ ~Worth'
  BY <1>1, Rests
<1>5. Sha2Inv'
  BY <1>1 DEF Sha2Inv, InSha2, Sha2Steps, Clean, ipVars
<1>6. SpongeInv' /\ ResultInv' /\ ShakeReturnsDigest'
  BY <1>1, <1>4 DEF SpongeInv, InSponge, ResultInv, ShakeReturnsDigest
<1>. QED  BY <1>2, <1>3, <1>4, <1>5, <1>6 DEF DriverInv

LEMMA ReturnStep ==
  ASSUME DriverInv, Return
  PROVE  DriverInv'
<1>1. /\ pc \in {"returned", "timedout"} /\ pc' = "idle" /\ pos' = 0 /\ regs' = << >>
      /\ UNCHANGED << ipVars, call, gap >>
      /\ CallInv /\ PortsInv /\ EnginesType /\ Sha2Inv
  BY DEF Return, DriverInv
<1>2. CallInv'
  <2>1. call'.len \in Nat
    BY <1>1 DEF CallInv, Call
  <2>. QED  BY <1>1, <2>1 DEF CallInv, Steps, ShakeSteps, Sha2Steps
<1>3. PortsInv'
  BY <1>1 DEF PortsInv, ipVars
<1>4. EnginesType'
  BY <1>1, Rests
<1>5. Sha2Inv'
  BY <1>1 DEF Sha2Inv, InSha2, Sha2Steps, Clean, ipVars
<1>6. SpongeInv' /\ ResultInv' /\ ShakeReturnsDigest'
  BY <1>1 DEF SpongeInv, InSponge, ResultInv, ShakeReturnsDigest
<1>. QED  BY <1>2, <1>3, <1>4, <1>5, <1>6 DEF DriverInv

LEMMA InitDriverInv ==
  ASSUME Init, MinGap >= 2
  PROVE  DriverInv
<1>1. /\ control = [algo |-> "sha256", start |-> FALSE]
      /\ din = [k \in 1..WordBytes |-> NoByte]
      /\ control2 = [last |-> FALSE, bytes |-> 0, valid |-> FALSE, ready |-> FALSE]
      /\ tcontrol = [tvalid |-> FALSE, tlast |-> FALSE]
      /\ flags = [busy |-> FALSE, ready |-> FALSE, captured |-> FALSE]
      /\ sha2_mode = "sha256"
      /\ sponge = [phase |-> "idle", bytes |-> << >>, blocks |-> 0, out |-> None,
                   valid_d |-> FALSE]
      /\ sha2 = [e \in Sha2 |-> [phase |-> "idle", bytes |-> << >>, due |-> << >>,
                                 out |-> None, valid_d |-> FALSE]]
      /\ pc = "idle" /\ pos = 0 /\ regs = << >> /\ gap = MinGap
      /\ call \in [fn : {"sha256"}, name : Name, len : {0}, outlen : {0}]
  BY DEF Init, IpInit
<1>2. CallInv
  <2>1. call \in Call
    BY <1>1, DriverAssumption DEF Call, Algo, Sha2
  <2>. QED  BY <1>1, <2>1, DriverAssumption DEF CallInv, Call, Steps, ShakeSteps, Sha2Steps
<1>3. PortsInv
  BY <1>1 DEF PortsInv, Algo, Sha2
<1>4. EnginesType
  BY <1>1 DEF EnginesType
<1>5. Sha2Inv
  BY <1>1 DEF Sha2Inv, InSha2, Sha2Steps, Clean
<1>6. SpongeInv /\ ResultInv /\ ShakeReturnsDigest
  BY <1>1 DEF SpongeInv, InSponge, ResultInv, ShakeReturnsDigest
<1>. QED  BY <1>2, <1>3, <1>4, <1>5, <1>6 DEF DriverInv

LEMMA DriverInvStays ==
  ASSUME DriverInv, [Next]_vars, Prompt, MinGap >= 2
  PROVE  DriverInv'
<1>1. CASE UNCHANGED vars
  <2>1. UNCHANGED << control, din, control2, tdata, tcontrol, status, flags, result_regs,
                     sha2_mode, sponge, sha2, pc, call, pos, regs, out, gap >>
    BY <1>1 DEF vars, ipVars, driverVars
  <2>2. CallInv'
    BY <2>1 DEF DriverInv, CallInv, Worth
  <2>3. PortsInv'
    BY <2>1 DEF DriverInv, PortsInv, Worth, Left, ChunkLen, Chunk
  <2>4. EnginesType'
    BY <2>1 DEF DriverInv, EnginesType
  <2>5. Asked' = Asked /\ Message(call)' = Message(call) /\ \A n : Prefix(n)' = Prefix(n)
    BY <2>1 DEF Asked, Message, Prefix
  <2>6. Captured' = Captured /\ Clear' = Clear
    BY <2>1, <2>5 DEF Captured, Clear, Layout
  <2>7. Sha2Inv'
    BY <2>1, <2>5, <2>6 DEF DriverInv, Sha2Inv, InSha2, BytesTaken, Settled, Worth,
                            Collecting, Hashes, Shows, Clean
  <2>8. SpongeInv'
    BY <2>1, <2>5, <2>6 DEF DriverInv, SpongeInv, InSponge, WordsTaken, Settled, Worth,
                            Absorbs, Squeezes, ChunkLen, Left
  <2>9. ResultInv' /\ ShakeReturnsDigest'
    BY <2>1, <2>5 DEF DriverInv, ResultInv, ShakeReturnsDigest, RegsToRead, Worth, Layout
  <2>. QED  BY <2>2, <2>3, <2>4, <2>7, <2>8, <2>9 DEF DriverInv
<1>2. CASE Begin
  BY <1>2, BeginStep
<1>3. CASE Local
  BY <1>3, CopyStep, TimeOutStep, ReturnStep DEF Local
<1>4. CASE \E emit \in Emits : Driver(emit) \/ Tick(emit)
  BY <1>4, DriverStep DEF Driving
<1>. QED  BY <1>1, <1>2, <1>3, <1>4 DEF Next

LEMMA DriverInvHolds ==
  ASSUME Prompt, MinGap >= 2
  PROVE  Spec => []DriverInv
<1>1. Init => DriverInv
  BY InitDriverInv
<1>2. DriverInv /\ [Next]_vars => DriverInv'
  BY DriverInvStays
<1>. QED  BY <1>1, <1>2, PTL DEF Spec

-----------------------------------------------------------------------------
(* The theorems *)

\* From the moment shake256_hw, sha256_hw or sha512_hw believes RESULT_READY
\* until it has read the last register (fpga_sha_driver.c), the result registers
\* of the slave hold the digest of this call's message, and not that of an
\* earlier call or of part of it.
THEOREM HoldsTheDigest ==
  ASSUME Prompt, MinGap >= 2
  PROVE  Spec => []RegistersHoldTheDigest
<1>1. DriverInv => RegistersHoldTheDigest
  BY DEF DriverInv, ResultInv, RegistersHoldTheDigest, Worth
<1>. QED  BY <1>1, DriverInvHolds, PTL

\* shake256_hw returns the digest of its message in the caller's buffer, word for
\* word, as far as the first output block goes.
THEOREM ReturnsTheDigest ==
  ASSUME Prompt, MinGap >= 2
  PROVE  Spec => []ShakeReturnsDigest
<1>1. DriverInv => ShakeReturnsDigest
  BY DEF DriverInv
<1>. QED  BY <1>1, DriverInvHolds, PTL

\* A call with something to hash does not give up: neither of the driver's two
\* bounded waits, for TREADY and for RESULT_READY, can be in vain.
THEOREM NeverGivesUp ==
  ASSUME Prompt, MinGap >= 2
  PROVE  Spec => []NoTimeOut
<1>1. DriverInv => NoTimeOut
  BY DEF DriverInv, CallInv, Call, ResultInv, NoTimeOut, Worth
<1>. QED  BY <1>1, DriverInvHolds, PTL
=============================================================================
