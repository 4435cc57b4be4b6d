---------------------------- MODULE ShakeProofs ----------------------------
(***************************************************************************)
(* The sponge engine, under every sequence of inputs, and then fed by its  *)
(* client: whatever the rates, the number of rounds and the messages, the  *)
(* lanes absorb the padding of the message, no word is lost, and the pulse *)
(* shows a squeeze of the whole message; seen from its ports the engine    *)
(* implements SpongeSpec.                                                  *)
(***************************************************************************)
EXTENDS ShakeStream, TLAPS

-----------------------------------------------------------------------------
(* The engine alone (ShakeCore) *)

\* Ready and the round counter of keccak_top agree, and a permutation in
\* progress permutes something; output words are only held while squeezing.
Handshake ==
  /\ keccak_ready => counter_nr_rounds = 0
  /\ ~keccak_ready => rounds # << >>
  /\ dout_buf_available => state = "SQUEEZE"

\* The inductive invariant.
CoreInv ==
  /\ TypeOK /\ Handshake
  /\ CounterBelowRate /\ RoundsComplete /\ PulseShowsWholeBlock

-----------------------------------------------------------------------------
LEMMA WordTypes ==
  /\ ZeroWord \in Word
  /\ \A d \in Data : DataWord(d) \in Word
  /\ \A d \in Data, n \in 1..7, m \in Mode : PartWord(d, n, m) \in Word
  /\ \A m \in Mode : DelimWord(m) \in Word
  /\ \A n, i \in Nat : OutWord(n, i) \in Word
BY DEF Word, ZeroWord, DataWord, PartWord, DelimWord, OutWord, Delimiter

LEMMA RateType == ASSUME TypeOK PROVE Rate \in 1..BufWords
BY SizeAssumption DEF TypeOK, Rate

LEMMA BlockType == ASSUME TypeOK PROVE Block \in BlockSet
<1>1. [i \in 1..BufWords |-> IF i <= Rate THEN data_buf[BufWords - Rate + i]
                                        ELSE ZeroWord]
        \in [1..BufWords -> Word]
  BY RateType, WordTypes, SizeAssumption DEF TypeOK
<1>. QED
  BY <1>1 DEF Block, BlockSet

LEMMA NoBlockType == NoBlock \in BlockSet
BY WordTypes DEF NoBlock, BlockSet

LEMMA OutputBufType ==
  ASSUME TypeOK, NEW n \in Nat PROVE OutputBuf(n) \in [1..BufWords -> Word]
BY WordTypes, SizeAssumption DEF OutputBuf

LEMMA SampledType ==
  ASSUME TypeOK, NEW in \in Input PROVE SampledDin(in) \in Word
<1>1. in.din \in Data /\ in.bytes \in 0..8
  BY ByteCountAssumption DEF Input
<1>2. LastSampledDin(in) \in Word
  BY <1>1, WordTypes DEF LastSampledDin, TypeOK
<1>. QED
  BY <1>1, <1>2, WordTypes DEF SampledDin, TypeOK

LEMMA UpdateType ==
  ASSUME NEW S, NEW s \in Seq(S), NEW i \in 1..Len(s), NEW e \in S
  PROVE  [s EXCEPT ![i] = e] \in Seq(S) /\ Len([s EXCEPT ![i] = e]) = Len(s)
OBVIOUS

LEMMA CountStep ==
  ASSUME TypeOK, CounterBelowRate, NEW in \in Input, StepCount(in)
  PROVE  /\ word_cnt' \in Nat
         /\ word_cnt' = 0 \/ (word_cnt' < Rate /\ ~in.start)
<1>. USE RateType, SizeAssumption DEF TypeOK, CounterBelowRate, StepCount
<1>1. WordCntNext(in) \in Nat /\ WordCntNext(in) <= Rate
  BY DEF WordCntNext
<1>2. BufEn(in) /\ WordCntNext(in) = Rate => word_cnt' = 0
  BY DEF BufOverflow
<1>. QED
  BY <1>1, <1>2

-----------------------------------------------------------------------------
\* Every register keeps its type.
LEMMA TypeStep ==
  ASSUME CoreInv, NEW in \in Input, Cycle(in)
  PROVE  TypeOK'
<1>. USE DEF CoreInv
<1>1. state' \in FsmState /\ mode_reg' \in Mode
  BY DEF Cycle, StepFsm, FsmNext, LastFillsBlock, PaddingOwed, TypeOK, FsmState, Input
<1>2. word_cnt' \in Nat
  BY CountStep DEF Cycle
<1>3. data_buf' \in [1..BufWords -> Word]
  <2>1. Permutations(in) \in Nat
    BY DEF Permutations, TypeOK
  <2>2. CASE data_buf' = data_buf
    BY <2>2 DEF TypeOK
  <2>3. CASE data_buf' = OutputBuf(Permutations(in))
    BY <2>1, <2>3, OutputBufType
  <2>4. CASE data_buf' =
               [i \in 1..BufWords |-> IF i < BufWords THEN data_buf[i + 1]
                                                     ELSE SampledDin(in)]
    BY <2>4, SampledType, SizeAssumption DEF TypeOK
  <2>. QED
    BY <2>2, <2>3, <2>4 DEF Cycle, StepBuffer
<1>4. /\ last_data' \in BOOLEAN /\ first_append' \in BOOLEAN
      /\ last_din_byte' \in 0..8
  <2>1. in.bytes \in 0..8
    BY ByteCountAssumption DEF Input
  <2>2. 0 \in 0..8
    OBVIOUS
  <2>. QED
    BY <2>1, <2>2, Zenon DEF Cycle, StepLast, TypeOK
<1>5. /\ din_valid_d' \in BOOLEAN /\ dout_buf_available' \in BOOLEAN
      /\ dout_valid_o_reg' \in BOOLEAN
  BY DEF Cycle, StepOutput, TypeOK, Input, KeccakSqueeze
<1>6. keccak_ready' \in BOOLEAN /\ counter_nr_rounds' \in 0..(Rounds - 1)
  <2>1. keccak_ready' \in BOOLEAN
    BY Zenon DEF Cycle, StepRounds, LastRound, TypeOK
  <2>2. \/ counter_nr_rounds' = 0
        \/ counter_nr_rounds' = counter_nr_rounds
        \/ /\ counter_nr_rounds # Rounds - 1
           /\ counter_nr_rounds' = counter_nr_rounds + 1
    BY Zenon DEF Cycle, StepRounds, LastRound
  <2>. QED
    BY <2>1, <2>2, SizeAssumption DEF TypeOK
<1>7. /\ absorbed' \in Seq(BlockSet) /\ rounds' \in Seq(0..Rounds)
      /\ Len(absorbed') = Len(rounds')
  <2>. USE DEF Cycle, StepLanes, TypeOK
  <2>1. CASE in.start
    BY <2>1
  <2>2. CASE ~in.start /\ (KeccakStart(in) \/ KeccakSqueeze(in))
    <3>1. PICK b \in BlockSet : absorbed' = Append(absorbed, b)
      BY <2>2, BlockType, NoBlockType
    <3>2. rounds' = Append(rounds, 0) /\ 0 \in 0..Rounds
      BY <2>2, SizeAssumption
    <3>. QED
      BY <3>1, <3>2
  <2>3. CASE ~in.start /\ ~KeccakStart(in) /\ ~KeccakSqueeze(in)
    <3>1. CASE ~keccak_ready /\ ~in.hold
      <4>1. /\ Len(rounds) \in 1..Len(rounds)
            /\ rounds[Len(rounds)] = counter_nr_rounds
        BY <3>1 DEF Handshake, RoundsComplete
      <4>2. counter_nr_rounds + 1 \in 0..Rounds
        BY SizeAssumption
      <4>3. /\ rounds' = [rounds EXCEPT ![Len(rounds)] = counter_nr_rounds + 1]
            /\ absorbed' = absorbed
        BY <2>3, <3>1, <4>1
      <4>4. rounds' \in Seq(0..Rounds) /\ Len(rounds') = Len(rounds)
        BY <4>1, <4>2, <4>3, UpdateType
      <4>. QED
        BY <4>3, <4>4
    <3>2. CASE keccak_ready \/ in.hold
      BY <2>3, <3>2
    <3>. QED
      BY <3>1, <3>2
  <2>. QED
    BY <2>1, <2>2, <2>3
<1>. QED
  BY <1>1, <1>2, <1>3, <1>4, <1>5, <1>6, <1>7 DEF TypeOK

LEMMA HandshakeStep ==
  ASSUME CoreInv, NEW in \in Input, Cycle(in)
  PROVE  Handshake'
<1>. USE DEF CoreInv, Cycle
<1>1. (keccak_ready => counter_nr_rounds = 0)'
  BY DEF StepRounds, LastRound, Handshake, TypeOK
<1>2. (~keccak_ready => rounds # << >>)'
  <2>1. CASE in.start
    BY <2>1 DEF StepRounds, LastRound
  <2>2. CASE ~in.start /\ (KeccakStart(in) \/ KeccakSqueeze(in))
    BY <2>2 DEF StepLanes, TypeOK
  <2>3. CASE ~in.start /\ ~KeccakStart(in) /\ ~KeccakSqueeze(in)
    <3>1. ~keccak_ready' => ~keccak_ready
      BY <2>3 DEF StepRounds, LastRound, TypeOK
    <3>2. rounds # << >> => rounds' # << >>
      BY <2>3 DEF StepLanes, TypeOK
    <3>. QED
      BY <3>1, <3>2 DEF Handshake
  <2>. QED
    BY <2>1, <2>2, <2>3
<1>3. (dout_buf_available => state = "SQUEEZE")'
  <2>1. state = "SQUEEZE" /\ ~in.start => state' = "SQUEEZE"
    BY DEF StepFsm, FsmNext
  <2>. QED
    BY <2>1 DEF StepOutput, Handshake, KeccakSqueeze
<1>. QED
  BY <1>1, <1>2, <1>3 DEF Handshake

LEMMA RoundsStep ==
  ASSUME CoreInv, NEW in \in Input, Cycle(in)
  PROVE  RoundsComplete'
<1>. USE SizeAssumption DEF CoreInv, Cycle, TypeOK
<1>1. CASE in.start
  BY <1>1 DEF StepLanes, RoundsComplete
<1>2. CASE ~in.start /\ (KeccakStart(in) \/ KeccakSqueeze(in))
  <2>1. keccak_ready
    BY <1>2 DEF KeccakStart, KeccakSqueeze, KeccakReady
  <2>2. rounds' = Append(rounds, 0) /\ ~keccak_ready' /\ counter_nr_rounds' = 0
    BY <1>2, <2>1 DEF StepLanes, StepRounds, LastRound
  <2>3. \A i \in 1..Len(rounds) : rounds[i] = Rounds
    BY <2>1 DEF RoundsComplete
  <2>. QED
    BY <2>2, <2>3 DEF RoundsComplete
<1>3. CASE ~in.start /\ ~KeccakStart(in) /\ ~KeccakSqueeze(in)
  <2>1. CASE keccak_ready
    <3>1. UNCHANGED rounds /\ keccak_ready'
      BY <1>3, <2>1 DEF StepLanes, StepRounds, LastRound
    <3>. QED
      BY <2>1, <3>1 DEF RoundsComplete
  <2>2. CASE ~keccak_ready /\ in.hold
    <3>1. UNCHANGED << rounds, keccak_ready, counter_nr_rounds >>
      BY <1>3, <2>2 DEF StepLanes, StepRounds, LastRound
    <3>. QED
      BY <3>1 DEF RoundsComplete
  <2>3. CASE ~keccak_ready /\ ~in.hold
    <3>1. rounds' = [rounds EXCEPT ![Len(rounds)] = rounds[Len(rounds)] + 1]
      BY <1>3, <2>3 DEF StepLanes
    <3>2. Len(rounds) \in 1..Len(rounds) /\ Len(rounds') = Len(rounds)
      BY <2>3, <3>1 DEF Handshake
    <3>3. rounds'[Len(rounds)] = counter_nr_rounds + 1
      BY <2>3, <3>1, <3>2 DEF RoundsComplete
    <3>4. \A i \in 1..Len(rounds) : i # Len(rounds) => rounds'[i] = Rounds
      BY <3>1, <3>2 DEF RoundsComplete
    <3>5. CASE counter_nr_rounds = Rounds - 1
      <4>1. keccak_ready'
        BY <1>3, <2>3, <3>5 DEF StepRounds, LastRound
      <4>. QED
        BY <3>2, <3>3, <3>4, <3>5, <4>1 DEF RoundsComplete
    <3>6. CASE counter_nr_rounds # Rounds - 1
      <4>1. ~keccak_ready' /\ counter_nr_rounds' = counter_nr_rounds + 1
        BY <1>3, <2>3, <3>6 DEF StepRounds, LastRound
      <4>. QED
        BY <3>2, <3>3, <3>4, <4>1 DEF RoundsComplete
    <3>. QED
      BY <3>5, <3>6
  <2>. QED
    BY <2>1, <2>2, <2>3
<1>. QED
  BY <1>1, <1>2, <1>3

\* A pulse can only follow a squeeze: dout_valid_o_reg is low one clock after
\* dout_buf_available was.
LEMMA PulseStep ==
  ASSUME CoreInv, NEW in \in Input, Cycle(in)
  PROVE  PulseShowsWholeBlock'
<1>. SUFFICES ASSUME dout_buf_available', ~dout_valid_o_reg'
              PROVE  /\ state' = "SQUEEZE"
                     /\ rounds' # << >>
                     /\ data_buf' = OutputBuf(Len(rounds) - 1)'
  BY DEF PulseShowsWholeBlock
<1>. USE DEF CoreInv, Cycle
<1>1. ~dout_buf_available /\ ~in.start /\ ~in.hold /\ KeccakSqueeze(in)
  BY DEF StepOutput
<1>2. state' = "SQUEEZE" /\ mode_reg' = mode_reg
  BY <1>1 DEF StepFsm, FsmNext, KeccakSqueeze
<1>3. rounds' = Append(rounds, 0)
  BY <1>1 DEF StepLanes, KeccakSqueeze, KeccakStart
<1>4. Len(rounds') = Len(rounds) + 1 /\ rounds' # << >>
  BY <1>3 DEF TypeOK
<1>5. data_buf' = OutputBuf(Len(rounds))
  BY <1>1 DEF StepBuffer, Permutations, TypeOK
<1>6. OutputBuf(Len(rounds) - 1)' = OutputBuf(Len(rounds))
  BY <1>2, <1>4 DEF OutputBuf, Rate, TypeOK
<1>. QED
  BY <1>2, <1>4, <1>5, <1>6

-----------------------------------------------------------------------------
LEMMA InitCoreInv == ShakeInit => CoreInv
<1>. SUFFICES ASSUME ShakeInit PROVE CoreInv
  OBVIOUS
<1>. USE DEF ShakeInit
<1>1. TypeOK
  <2>1. /\ data_buf \in [1..BufWords -> Word] /\ mode_reg \in Mode
        /\ 0 \in 0..(Rounds - 1)
    <3>1. data_buf \in [1..BufWords -> Word]
      BY WordTypes
    <3>2. mode_reg \in Mode
      BY ModeAssumption
    <3>3. 0 \in 0..(Rounds - 1)
      BY SizeAssumption
    <3>. QED
      BY <3>1, <3>2, <3>3
  <2>2. /\ absorbed \in Seq(BlockSet) /\ rounds \in Seq(0..Rounds)
        /\ Len(absorbed) = Len(rounds)
    OBVIOUS
  <2>3. word_cnt \in Nat /\ last_din_byte \in 0..8
    OBVIOUS
  <2>4. counter_nr_rounds \in 0..(Rounds - 1)
    BY <2>1
  <2>5. /\ state \in FsmState /\ din_valid_d \in BOOLEAN
        /\ last_data \in BOOLEAN /\ first_append \in BOOLEAN
        /\ dout_buf_available \in BOOLEAN /\ dout_valid_o_reg \in BOOLEAN
        /\ keccak_ready \in BOOLEAN
    BY DEF FsmState
  <2>. QED
    BY <2>1, <2>2, <2>3, <2>4, <2>5, Zenon DEF TypeOK
<1>2. CounterBelowRate
  BY <1>1, RateType, SizeAssumption DEF CounterBelowRate
<1>. QED
  BY <1>1, <1>2 DEF CoreInv, Handshake, RoundsComplete, PulseShowsWholeBlock

LEMMA CycleCoreInv ==
  ASSUME CoreInv, NEW in \in Input, Cycle(in)
  PROVE  CoreInv'
<1>1. TypeOK'
  BY TypeStep
<1>2. CounterBelowRate'
  <2>1. TypeOK /\ CounterBelowRate /\ StepCount(in) /\ StepFsm(in)
    BY DEF CoreInv, Cycle
  <2>2. word_cnt' = 0 \/ (word_cnt' < Rate /\ ~in.start)
    BY <2>1, CountStep
  <2>3. Rate' \in 1..BufWords
    BY <1>1, SizeAssumption DEF TypeOK, Rate
  <2>4. ~in.start => Rate' = Rate
    BY <2>1 DEF StepFsm, Rate
  <2>. QED
    BY <2>2, <2>3, <2>4, SizeAssumption DEF CounterBelowRate
<1>. QED
  BY <1>1, <1>2, HandshakeStep, RoundsStep, PulseStep DEF CoreInv

LEMMA CoreInvariant == ShakeSpec => []CoreInv
<1>1. CoreInv /\ [ShakeNext]_shakeVars => CoreInv'
  <2>. SUFFICES ASSUME CoreInv, [ShakeNext]_shakeVars PROVE CoreInv'
    OBVIOUS
  <2>1. CASE ShakeNext
    BY <2>1, CycleCoreInv DEF ShakeNext
  <2>2. CASE UNCHANGED shakeVars
    BY <2>2 DEF shakeVars, CoreInv, TypeOK, Handshake, CounterBelowRate,
                RoundsComplete, PulseShowsWholeBlock, Rate, OutputBuf
  <2>. QED
    BY <2>1, <2>2
<1>. QED
  BY <1>1, InitCoreInv, PTL DEF ShakeSpec

\* Every register of shake_top.v and keccak_top.v stays within its type.
THEOREM TypeCorrect == ShakeSpec => []TypeOK
BY CoreInvariant, PTL DEF CoreInv

\* byte_cnt stays below the rate of the mode in use (shake_top.v:250-264).
THEOREM CounterSafe == ShakeSpec => []CounterBelowRate
BY CoreInvariant, PTL DEF CoreInv

\* Start, hold and squeeze requests in any order never cut a permutation short
\* nor let it run past its rounds (keccak_top.v:87-111).
THEOREM PermutationSafe == ShakeSpec => []RoundsComplete
BY CoreInvariant, PTL DEF CoreInv

\* The output pulse shows a whole squeezed block (shake_top.v:267-287, 442-449).
THEOREM PulseSafe == ShakeSpec => []PulseShowsWholeBlock
BY CoreInvariant, PTL DEF CoreInv

-----------------------------------------------------------------------------
(* The engine and its client (ShakeStream) *)

\* The word on the bus is seen for the first time.
Rising == bus.valid /\ ~din_valid_d

\* Words the engine has taken.
Taken == IF Rising THEN sent - 1 ELSE sent

ClientType ==
  /\ bus \in Input /\ msg \in Message /\ sent \in 0..(msg.full + 1) /\ gap \in 0..MinGap

ClientInv ==
  /\ bus.start => ~bus.valid /\ ~bus.hold /\ ~bus.ready /\ sent = 0 /\ ~din_valid_d
  /\ bus.hold => sent <= msg.full
  /\ bus.valid => /\ sent >= 1 /\ bus.din = sent /\ (bus.last <=> sent = msg.full + 1)
                  /\ bus.last => bus.bytes = msg.last
  /\ ~bus.valid => ~bus.last
  /\ Rising => ~bus.hold /\ gap = 1

\* The newest n words of a buffer are the first of the block after l others.
HoldsIn(buf, n, l) ==
  \A i \in 1..n : buf[BufWords - n + i] = PaddedWord(msg, Rate * l + i)

Holds(n) == HoldsIn(data_buf, n, Len(absorbed))

\* The delimiter is in the block under way.
Ends ==
  /\ Rate * Len(absorbed) < DelimPosition(msg)
  /\ DelimPosition(msg) <= Rate * (Len(absorbed) + 1)

AllTaken == last_data /\ sent = msg.full + 1 /\ ~Rising /\ last_din_byte = msg.last

\* Where the padded message stands, for each state of the FSM.
Absorbing ==
  state = "ABSORB" =>
    /\ ~last_data /\ Taken <= msg.full /\ Taken = Rate * Len(absorbed) + word_cnt
    /\ Holds(word_cnt)

BlockFull ==
  state = "FULL" =>
    /\ word_cnt = 0 /\ Holds(Rate)
    /\ ~last_data => Taken <= msg.full /\ Taken = Rate * (Len(absorbed) + 1)
    /\ last_data => /\ AllTaken /\ msg.last = 8 /\ first_append
                    /\ msg.full + 1 = Rate * (Len(absorbed) + 1)

Appending ==
  state = "APPEND" =>
    /\ AllTaken /\ Ends /\ Holds(word_cnt)
    /\ Rate * Len(absorbed) + word_cnt >= msg.full + 1
    /\ first_append <=> Rate * Len(absorbed) + word_cnt = msg.full + 1

LastBlockFull ==
  state = "LAST_FULL" => AllTaken /\ Ends /\ word_cnt = 0 /\ Holds(Rate)

Squeezing ==
  state = "SQUEEZE" =>
    /\ AllTaken /\ Len(absorbed) >= PaddedBlocks(msg)
    /\ dout_buf_available => Len(absorbed) > PaddedBlocks(msg)

\* Words of the block under way that were presented.
Presented == (IF state = "FULL" THEN Rate ELSE word_cnt) + (IF Rising THEN 1 ELSE 0)

\* The permutation keeps ahead of the words.
KeepsAhead ==
  state \in {"ABSORB", "FULL"} /\ ~keccak_ready =>
    counter_nr_rounds + 2 >= (Presented - 1) * MinGap + gap

Progress ==
  /\ AbsorbsPaddedMessage
  /\ Absorbing /\ BlockFull /\ Appending /\ LastBlockFull /\ Squeezing

\* A block is drained in fewer clocks than the next permutation takes.
DrainsInTime ==
  state = "SQUEEZE" =>
    /\ ~dout_buf_available => word_cnt = 0
    /\ dout_buf_available /\ bus.ready => ~keccak_ready /\ counter_nr_rounds = word_cnt

StreamInv ==
  /\ ClientType /\ ClientInv
  /\ Hashing => Progress /\ KeepsAhead /\ DrainsInTime

-----------------------------------------------------------------------------
(* The client *)

ClientStep ==
  \/ ClientStart \/ ClientRelease \/ ClientRaise \/ ClientLower \/ ClientAsk
  \/ ClientStopAsking \/ ClientPause \/ ClientResume \/ ClientWait

LEMMA ClientTypeStep ==
  ASSUME ClientType, ClientStep
  PROVE  ClientType'
<1>. USE DEF ClientType
<1>1. MinGap \in Nat /\ \A m \in Message : m.full \in 0..MaxFull /\ m.last \in ByteCount
  BY StreamAssumption DEF Message
<1>2. MinGap # 0
  <2>1. PICK m \in Mode : TRUE
    BY DEF Input
  <2>2. RateWords[m] \in Nat /\ Rounds \in Nat /\ Rounds < RateWords[m] * MinGap
    <3>1. RateWords[m] \in Nat /\ Rounds \in Nat
      BY SizeAssumption
    <3>2. Rounds < RateWords[m] * MinGap
      BY PaceAssumption, Zenon
    <3>. QED  BY <3>1, <3>2
  <2>3. \A x \in Nat : x * 0 = 0
    OBVIOUS
  <2>. DEFINE r == RateWords[m]
  <2>. HIDE DEF r
  <2>4. r \in Nat /\ Rounds \in Nat /\ Rounds < r * MinGap
    BY <2>2 DEF r
  <2>. QED  BY <2>3, <2>4
<1>3. gap' \in 0..MinGap
  <2>1. gap' = MinGap \/ gap' = 1 \/ KeepTime
    BY DEF ClientStep, ClientStart, ClientRelease, ClientRaise, ClientLower, ClientAsk,
       ClientStopAsking, ClientPause, ClientResume, ClientWait
  <2>. QED  BY <1>1, <1>2, <2>1 DEF KeepTime
<1>4. msg' \in Message /\ sent' \in 0..(msg'.full + 1)
  <2>1. msg.full \in Nat
    BY <1>1, StreamAssumption
  <2>2. CASE ClientStart
    <3>1. msg' \in Message /\ sent' = 0
      BY <2>2 DEF ClientStart
    <3>2. msg'.full \in Nat
      BY <1>1, <3>1, StreamAssumption
    <3>. QED  BY <3>1, <3>2
  <2>3. CASE ~ClientStart
    <3>1. msg' = msg /\ (sent' = sent \/ (sent' = sent + 1 /\ sent <= msg.full))
      BY <2>3 DEF ClientStep, ClientRelease, ClientRaise, ClientLower, ClientAsk,
         ClientStopAsking, ClientPause, ClientResume, ClientWait
    <3>. QED  BY <2>1, <3>1
  <2>. QED  BY <2>2, <2>3
<1>5. bus' \in Input
  <2>1. CASE ClientRaise
    <3>1. sent + 1 \in Data /\ msg.last \in ByteCount
      BY <2>1, <1>1, StreamAssumption DEF ClientRaise
    <3>2. bus.bytes \in ByteCount
      BY DEF Input
    <3>3. (sent = msg.full) \in BOOLEAN
      OBVIOUS
    <3>. QED  BY <2>1, <3>1, <3>2, <3>3 DEF ClientRaise, Input
  <2>2. CASE ClientStart
    BY <2>2 DEF ClientStart, Input
  <2>3. CASE ~ClientRaise /\ ~ClientStart
    BY <2>3 DEF ClientStep, ClientRelease, ClientLower, ClientAsk,
       ClientStopAsking, ClientPause, ClientResume, ClientWait, Input
  <2>. QED  BY <2>1, <2>2, <2>3
<1>. QED  BY <1>3, <1>4, <1>5

LEMMA ClientInvStep ==
  ASSUME ClientType, ClientInv, ClientStep, din_valid_d' = bus.valid
  PROVE  ClientInv'
<1>. USE DEF ClientType, ClientInv, Rising, Input
<1>0. sent \in Nat /\ msg.full \in Nat
  BY StreamAssumption DEF Message
<1>1. CASE ClientStart
  BY <1>1 DEF ClientStart
<1>2. CASE ClientRelease
  BY <1>2 DEF ClientRelease
<1>3. CASE ClientRaise
  <2>1. /\ bus'.valid /\ (bus'.last <=> sent = msg.full) /\ bus'.din = sent + 1
        /\ sent = msg.full => bus'.bytes = msg.last
        /\ bus'.start = bus.start /\ bus'.hold = bus.hold
        /\ ~bus.start /\ ~bus.hold /\ sent' = sent + 1 /\ gap' = 1 /\ msg' = msg
    BY <1>3 DEF ClientRaise
  <2>2. sent + 1 = msg.full + 1 <=> sent = msg.full
    BY <1>0
  <2>. QED  BY <1>0, <2>1, <2>2
<1>4. CASE ClientLower
  BY <1>4 DEF ClientLower
<1>5. CASE ClientAsk \/ ClientStopAsking
  BY <1>5 DEF ClientAsk, ClientStopAsking
<1>6. CASE ClientPause \/ ClientResume
  BY <1>6 DEF ClientPause, ClientResume
<1>7. CASE ClientWait
  BY <1>7 DEF ClientWait
<1>. QED  BY <1>1, <1>2, <1>3, <1>4, <1>5, <1>6, <1>7 DEF ClientStep

\* What a client that neither starts nor is starting may do in one clock.
LEMMA ClientMoves ==
  ASSUME ClientType, ClientInv, ClientStep, din_valid_d' = bus.valid,
         ~bus.start, ~bus'.start
  PROVE  /\ msg' = msg /\ Taken' = sent
         /\ sent' = sent + 1 \/ sent' = sent
         /\ sent' = msg.full + 1 => ~Rising' \/ sent = msg.full
         /\ Rising' => gap = MinGap /\ gap' = 1 /\ ~bus.hold /\ ~bus.valid /\ sent' = sent + 1
                       /\ sent <= msg.full
         /\ ~Rising' => sent' = sent
         /\ ~Rising' => gap' = gap \/ (gap' = gap + 1 /\ ~bus.hold)
<1>. USE DEF ClientType, ClientInv, Rising, Taken, Input
<1>0. sent \in Nat /\ msg.full \in Nat
  BY StreamAssumption DEF Message
<1>1. CASE ClientStart
  BY <1>1 DEF ClientStart
<1>2. CASE ClientRelease
  BY <1>2 DEF ClientRelease
<1>3. CASE ClientRaise
  BY <1>0, <1>3 DEF ClientRaise
<1>4. CASE ClientLower
  BY <1>4 DEF ClientLower, KeepTime
<1>5. CASE ClientAsk \/ ClientStopAsking
  BY <1>5 DEF ClientAsk, ClientStopAsking, KeepTime
<1>6. CASE ClientPause \/ ClientResume
  BY <1>6 DEF ClientPause, ClientResume, KeepTime
<1>7. CASE ClientWait
  BY <1>7 DEF ClientWait, KeepTime
<1>. QED  BY <1>1, <1>2, <1>3, <1>4, <1>5, <1>6, <1>7 DEF ClientStep

-----------------------------------------------------------------------------
(* Blocks and their number *)

LEMMA TimesMono ==
  ASSUME NEW a \in Nat, NEW b \in Nat, NEW c \in Nat, a <= b
  PROVE  c * a \in Nat /\ c * a <= c * b
<1>1. PICK e \in Nat : b = a + e
  BY b - a \in Nat
<1>2. c * (a + e) = c * a + c * e /\ c * a \in Nat /\ c * e \in Nat
  OBVIOUS
<1>. QED  BY <1>1, <1>2

LEMMA Quotient ==
  ASSUME NEW a \in Nat, NEW r \in Nat \ {0}
  PROVE  a \div r \in Nat /\ r * (a \div r) <= a /\ a < r * (a \div r) + r
<1>1. a \div r \in Nat /\ a % r \in 0..(r - 1) /\ r * (a \div r) + (a % r) = a
  OBVIOUS
<1>. QED  BY <1>1

\* How many blocks of r words hold x.
LEMMA Ceiling ==
  ASSUME NEW x \in Nat, NEW r \in Nat \ {0}, NEW n \in Nat
  PROVE  /\ (x + r - 1) \div r \in Nat
         /\ n < (x + r - 1) \div r <=> r * n < x
<1>. DEFINE a == x + r - 1
            q == a \div r
<1>1. a \in Nat
  OBVIOUS
<1>2. q \in Nat /\ r * q <= a /\ a < r * q + r
  BY <1>1, Quotient
<1>3. ASSUME n < q PROVE r * n < x
  <2>1. r * (n + 1) <= r * q /\ r * (n + 1) = r * n + r /\ r * n \in Nat /\ r * q \in Nat
    BY <1>2, <1>3, TimesMono
  <2>. HIDE DEF q
  <2>2. r * n + r <= a
    BY <1>2, <2>1
  <2>. QED  BY <2>1, <2>2
<1>4. ASSUME q <= n PROVE x <= r * n
  <2>1. r * q <= r * n /\ r * n \in Nat /\ r * q \in Nat
    BY <1>2, <1>4, TimesMono
  <2>. HIDE DEF q
  <2>2. a < r * n + r
    BY <1>2, <2>1
  <2>. QED  BY <2>1, <2>2
<1>5. r * n \in Nat
  OBVIOUS
<1>. HIDE DEF a, q
<1>6. r * n < x <=> n < q
  BY <1>2, <1>3, <1>4, <1>5
<1>. QED  BY <1>2, <1>6 DEF a, q

LEMMA MessageType ==
  ASSUME ClientType
  PROVE  /\ msg.full \in Nat /\ msg.last \in 0..8 /\ msg.last \in LastBytes
         /\ sent \in Nat /\ sent <= msg.full + 1 /\ gap \in Nat /\ gap <= MinGap /\ MinGap \in Nat
         /\ DelimPosition(msg) \in {msg.full + 1, msg.full + 2}
         /\ msg.last = 8 <=> DelimPosition(msg) = msg.full + 2
<1>1. msg.full \in 0..MaxFull /\ msg.last \in LastBytes /\ sent \in 0..(msg.full + 1)
      /\ gap \in 0..MinGap
  BY DEF ClientType, Message
<1>2. msg.last \in 0..8 /\ msg.full \in Nat /\ MinGap \in Nat
  <2>1. MaxFull \in Nat /\ MinGap \in Nat /\ LastBytes \subseteq 0..8
    BY StreamAssumption, ByteCountAssumption
  <2>2. msg.last \in 0..8
    BY <1>1, <2>1
  <2>3. msg.full \in Nat
    <3>1. 0..MaxFull \subseteq Nat
      BY <2>1
    <3>. QED  BY <1>1, <3>1
  <2>. QED  BY <2>1, <2>2, <2>3
<1>. QED  BY <1>1, <1>2 DEF DelimPosition

LEMMA RateIs ==
  ASSUME TypeOK
  PROVE  Rate \in Nat \ {0} /\ Rate >= 2 /\ Rate <= BufWords /\ BufWords \in Nat
<1>1. Rate \in 1..BufWords /\ BufWords \in Nat
  BY RateType, SizeAssumption
<1>2. Rate >= 2
  BY PaceAssumption, Zenon DEF TypeOK, Rate
<1>. QED  BY <1>1, <1>2

\* Blocks are counted by the delimiter.
LEMMA BlocksByDelimiter ==
  ASSUME TypeOK, ClientType, NEW n \in Nat
  PROVE  /\ PaddedBlocks(msg) \in Nat
         /\ n < PaddedBlocks(msg) <=> Rate * n < DelimPosition(msg)
<1>1. DelimPosition(msg) \in Nat
  BY MessageType
<1>2. Rate \in Nat \ {0}
  BY RateIs
<1>. QED  BY <1>1, <1>2, Ceiling DEF PaddedBlocks

\* The message and its padding stay while the engine hashes.
LEMMA PaddingStays ==
  ASSUME mode_reg' = mode_reg, msg' = msg
  PROVE  /\ Rate' = Rate /\ DelimPosition(msg)' = DelimPosition(msg)
         /\ PaddedBlocks(msg)' = PaddedBlocks(msg)
         /\ \A p : PaddedWord(msg, p)' = PaddedWord(msg, p)
         /\ \A b : PaddedBlock(msg, b)' = PaddedBlock(msg, b)
<1>1. Rate' = Rate /\ DelimPosition(msg)' = DelimPosition(msg)
  BY DEF Rate, DelimPosition
<1>2. PaddedBlocks(msg)' = PaddedBlocks(msg)
  BY <1>1 DEF PaddedBlocks
<1>3. ASSUME NEW p PROVE PaddedWord(msg, p)' = PaddedWord(msg, p)
  BY <1>1 DEF PaddedWord, DelimPosition
<1>4. ASSUME NEW b PROVE PaddedBlock(msg, b)' = PaddedBlock(msg, b)
  BY <1>1, <1>2, <1>3 DEF PaddedBlock
<1>. QED  BY <1>1, <1>2, <1>3, <1>4

-----------------------------------------------------------------------------
(* One clock of the engine while it hashes *)

HashTurn ==
  /\ CoreInv /\ StreamInv /\ Hashing
  /\ Cycle(bus) /\ ClientStep /\ ~bus'.start

LEMMA TurnFacts ==
  ASSUME HashTurn
  PROVE  /\ TypeOK /\ ClientType /\ ClientInv /\ Progress /\ KeepsAhead /\ word_cnt < Rate
         /\ DrainsInTime /\ ~bus.start /\ bus \in Input
         /\ din_valid_d' = bus.valid /\ mode_reg' = mode_reg
         /\ msg' = msg /\ Taken' = sent /\ Len(absorbed) \in Nat /\ word_cnt \in Nat
         /\ Taken = (IF Rising THEN sent - 1 ELSE sent)
         /\ (dout_buf_available => state = "SQUEEZE")
<1>1. /\ TypeOK /\ ClientType /\ ClientInv /\ Progress /\ KeepsAhead /\ word_cnt < Rate
      /\ DrainsInTime /\ ~bus.start /\ (dout_buf_available => state = "SQUEEZE")
  BY DEF HashTurn, CoreInv, StreamInv, Hashing, Handshake, CounterBelowRate
<1>2. bus \in Input
  BY <1>1 DEF ClientType
<1>3. din_valid_d' = bus.valid /\ mode_reg' = mode_reg
  BY <1>1 DEF HashTurn, Cycle, StepOutput, StepFsm
<1>4. msg' = msg /\ Taken' = sent
  BY <1>1, <1>3, ClientMoves DEF HashTurn
<1>5. Len(absorbed) \in Nat /\ word_cnt \in Nat
  BY <1>1 DEF TypeOK
<1>. QED  BY <1>1, <1>2, <1>3, <1>4, <1>5 DEF Taken

\* The next word comes in at the end of the buffer.
LEMMA Shifted ==
  ASSUME BufWords \in Nat, NEW buf, NEW n \in Nat, NEW l, NEW w, n < BufWords,
         HoldsIn(buf, n, l), w = PaddedWord(msg, Rate * l + (n + 1))
  PROVE  HoldsIn([i \in 1..BufWords |-> IF i < BufWords THEN buf[i + 1] ELSE w], n + 1, l)
<1>. DEFINE new == [i \in 1..BufWords |-> IF i < BufWords THEN buf[i + 1] ELSE w]
<1>1. ASSUME NEW i \in 1..(n + 1)
      PROVE  new[BufWords - (n + 1) + i] = PaddedWord(msg, Rate * l + i)
  <2>1. CASE i = n + 1
    <3>1. new[BufWords] = w /\ BufWords - (n + 1) + i = BufWords
      BY <2>1
    <3>. HIDE DEF new
    <3>. QED  BY <2>1, <3>1
  <2>2. CASE i # n + 1
    <3>. DEFINE j == BufWords - (n + 1) + i
    <3>1. j \in 1..BufWords /\ j < BufWords /\ j + 1 = BufWords - n + i /\ i \in 1..n
      BY <2>2
    <3>2. new[j] = buf[j + 1]
      BY <3>1
    <3>3. buf[BufWords - n + i] = PaddedWord(msg, Rate * l + i)
      BY <3>1 DEF HoldsIn
    <3>. HIDE DEF new
    <3>. QED  BY <3>1, <3>2, <3>3
  <2>. QED  BY <2>1, <2>2
<1>. HIDE DEF new
<1>2. HoldsIn(new, n + 1, l)
  BY <1>1 DEF HoldsIn
<1>. QED  BY <1>2 DEF new

\* What the buffer holds after a clock, read with the registers after it.
LEMMA HoldsNext ==
  ASSUME mode_reg' = mode_reg, msg' = msg, NEW n, HoldsIn(data_buf', n, Len(absorbed'))
  PROVE  /\ word_cnt' = n => Holds(word_cnt)'
         /\ n = Rate => Holds(Rate)'
<1>1. Rate' = Rate /\ \A p : PaddedWord(msg, p)' = PaddedWord(msg, p)
  BY PaddingStays
<1>2. \A i \in 1..n : data_buf'[BufWords - n + i] = PaddedWord(msg, Rate * Len(absorbed') + i)
  BY DEF HoldsIn
<1>3. word_cnt' = n => Holds(word_cnt)'
  BY <1>1, <1>2 DEF Holds, HoldsIn
<1>4. n = Rate => Holds(Rate)'
  BY <1>1, <1>2 DEF Holds, HoldsIn
<1>. QED  BY <1>3, <1>4

\* A full buffer is the next block of the padded message.
LEMMA BlockOfBuffer ==
  ASSUME TypeOK, ClientType, Holds(Rate),
         state = "LAST_FULL" <=> Len(absorbed) + 1 = PaddedBlocks(msg)
  PROVE  Block = PaddedBlock(msg, Len(absorbed) + 1)
<1>. DEFINE l == Len(absorbed)
<1>1. l \in Nat /\ ((l + 1) - 1) * Rate = Rate * l
  BY RateIs DEF TypeOK
<1>2. \A i \in 1..Rate : data_buf[BufWords - Rate + i] = PaddedWord(msg, Rate * l + i)
  BY DEF Holds, HoldsIn
<1>. HIDE DEF l
<1>3. \A i \in 1..BufWords :
        (IF i <= Rate THEN data_buf[BufWords - Rate + i] ELSE ZeroWord) =
        (IF i <= Rate THEN PaddedWord(msg, ((l + 1) - 1) * Rate + i) ELSE ZeroWord)
  BY <1>1, <1>2, RateIs
<1>4. (state = "LAST_FULL") = (l + 1 = PaddedBlocks(msg))
  BY DEF l
<1>. QED  BY <1>3, <1>4 DEF Block, PaddedBlock, l

\* Nothing that was absorbed changes; the next block is appended.
LEMMA AbsorbsNext ==
  ASSUME TypeOK, Hashing, AbsorbsPaddedMessage, mode_reg' = mode_reg, msg' = msg,
         \/ absorbed' = absorbed
         \/ \E x : /\ absorbed' = Append(absorbed, x)
                   /\ x = IF Len(absorbed) + 1 <= PaddedBlocks(msg)
                          THEN PaddedBlock(msg, Len(absorbed) + 1) ELSE NoBlock
  PROVE  AbsorbsPaddedMessage'
<1>. DEFINE At(b) == IF b <= PaddedBlocks(msg) THEN PaddedBlock(msg, b) ELSE NoBlock
<1>1. \A b \in 1..Len(absorbed) : absorbed[b] = At(b)
  BY DEF AbsorbsPaddedMessage
<1>2. absorbed \in Seq(BlockSet)
  BY DEF TypeOK
<1>3. absorbed' = absorbed \/ absorbed' = Append(absorbed, At(Len(absorbed) + 1))
  OBVIOUS
<1>. HIDE DEF At
<1>4. \A b \in 1..Len(absorbed') : absorbed'[b] = At(b)
  BY <1>1, <1>2, <1>3
<1>5. /\ PaddedBlocks(msg)' = PaddedBlocks(msg)
      /\ \A b : PaddedBlock(msg, b)' = PaddedBlock(msg, b)
  BY PaddingStays
<1>. QED  BY <1>4, <1>5 DEF AbsorbsPaddedMessage, At, NoBlock

LEMMA EndsNext ==
  ASSUME mode_reg' = mode_reg, msg' = msg, NEW n, Len(absorbed') = n,
         Rate * n < DelimPosition(msg), DelimPosition(msg) <= Rate * (n + 1)
  PROVE  Ends'
  BY PaddingStays DEF Ends

\* The words that n blocks stand for.
LEMMA WordsOfBlocks ==
  ASSUME TypeOK, NEW n \in Nat
  PROVE  Rate * n \in Nat /\ Rate * (n + 1) = Rate * n + Rate
<1>. DEFINE r == Rate
<1>1. r \in Nat
  BY RateIs
<1>. HIDE DEF r
<1>2. r * n \in Nat /\ r * (n + 1) = r * n + r
  BY <1>1
<1>. QED  BY <1>2 DEF r

\* A word that rises in ABSORB, or in FULL when it is being left, is sampled.
LEMMA SampledWord ==
  ASSUME HashTurn, 0 \notin LastBytes, Rising, DinReady(bus), Taken <= msg.full
  PROVE  /\ ~bus.hold /\ BufEn(bus) /\ WordCntNext(bus) = word_cnt + 1
         /\ SampledDin(bus) = PaddedWord(msg, sent)
         /\ data_buf' = [i \in 1..BufWords |-> IF i < BufWords THEN data_buf[i + 1]
                                                              ELSE SampledDin(bus)]
<1>1. /\ ~bus.hold /\ bus.valid /\ bus.din = sent /\ (bus.last <=> sent = msg.full + 1)
      /\ bus.last => bus.bytes = msg.last
      /\ Taken = sent - 1
  BY TurnFacts DEF ClientInv, Rising
<1>2. /\ msg.last \in 1..8 /\ sent \in Nat /\ msg.full \in Nat /\ sent <= msg.full + 1
      /\ msg.last = 8 <=> DelimPosition(msg) = msg.full + 2
      /\ DelimPosition(msg) \in {msg.full + 1, msg.full + 2}
  BY TurnFacts, MessageType
<1>3. BufEn(bus)
  BY <1>1, <1>2 DEF BufEn, DinValidPulse, Rising
<1>4. WordCntNext(bus) = word_cnt + 1
  BY <1>1, <1>2 DEF WordCntNext
<1>5. state # "APPEND" /\ state # "SQUEEZE"
  BY DEF DinReady
<1>6. SampledDin(bus) = PaddedWord(msg, sent)
  <2>1. CASE bus.last
    <3>1. SampledDin(bus) = LastSampledDin(bus)
      BY <1>1, <2>1 DEF SampledDin
    <3>2. sent = msg.full + 1 /\ bus.bytes = msg.last
      BY <1>1, <2>1
    <3>3. CASE msg.last = 8
      BY <1>1, <3>1, <3>2, <3>3 DEF LastSampledDin, PaddedWord
    <3>4. CASE msg.last # 8
      <4>1. msg.last \in 1..7 /\ DelimPosition(msg) = msg.full + 1 /\ ~(sent <= msg.full)
        BY <1>2, <3>2, <3>4
      <4>. QED  BY <1>1, <3>1, <3>2, <4>1 DEF LastSampledDin, PaddedWord
    <3>. QED  BY <3>3, <3>4
  <2>2. CASE ~bus.last
    <3>1. SampledDin(bus) = DataWord(sent)
      BY <1>1, <1>5, <2>2 DEF SampledDin
    <3>2. sent <= msg.full
      <4>1. sent # msg.full + 1
        BY <1>1, <2>2
      <4>. QED  BY <1>2, <4>1
    <3>. QED  BY <3>1, <3>2 DEF PaddedWord
  <2>. QED  BY <2>1, <2>2
<1>7. StepBuffer(bus)
  BY DEF HashTurn, Cycle
<1>. QED  BY <1>1, <1>3, <1>4, <1>5, <1>6, <1>7 DEF StepBuffer, KeccakSqueeze

\* No word is flagged last before it is taken.
LEMMA NotLast ==
  ASSUME ClientType, ClientInv, ~Rising, Taken <= msg.full
  PROVE  ~(bus.valid /\ bus.last) /\ sent = Taken
<1>1. sent = Taken
  BY DEF Taken
<1>2. sent # msg.full + 1
  BY <1>1, MessageType
<1>. QED  BY <1>1, <1>2 DEF ClientInv

\* A clock in ABSORB.
LEMMA AbsorbStep ==
  ASSUME HashTurn, 0 \notin LastBytes, state = "ABSORB"
  PROVE  Progress'
<1>. DEFINE l == Len(absorbed)
            p == Rate * l
<1>1. /\ TypeOK /\ ClientType /\ ClientInv /\ mode_reg' = mode_reg /\ msg' = msg /\ Hashing
      /\ Taken' = sent /\ ~bus.start /\ l \in Nat /\ word_cnt \in Nat /\ word_cnt < Rate
      /\ AbsorbsPaddedMessage
  BY TurnFacts DEF HashTurn, Progress
<1>2. /\ ~last_data /\ Taken <= msg.full /\ Taken = p + word_cnt
      /\ HoldsIn(data_buf, word_cnt, l)
  BY TurnFacts DEF Progress, Absorbing, Holds
<1>3. Rate \in Nat /\ Rate >= 2 /\ Rate <= BufWords /\ BufWords \in Nat
  BY <1>1, RateIs
<1>4. p \in Nat /\ Rate * (l + 1) = p + Rate
  BY <1>1, WordsOfBlocks
<1>5. /\ msg.full \in Nat /\ msg.last \in 1..8 /\ sent \in Nat /\ sent <= msg.full + 1
      /\ msg.last = 8 <=> DelimPosition(msg) = msg.full + 2
      /\ DelimPosition(msg) \in {msg.full + 1, msg.full + 2}
  BY <1>1, MessageType
<1>6. absorbed' = absorbed
  BY <1>1 DEF HashTurn, Cycle, StepLanes, KeccakStart, KeccakSqueeze
<1>7. AbsorbsPaddedMessage'
  BY <1>1, <1>6, AbsorbsNext
<1>8. /\ StepFsm(bus) /\ StepBuffer(bus) /\ StepCount(bus) /\ StepLast(bus)
  BY DEF HashTurn, Cycle
<1>9. Rate' = Rate
  BY <1>1, PaddingStays
<1>10. DinReady(bus)
  BY DEF DinReady
<1>. HIDE DEF l, p
<1>11. CASE ~Rising
  <2>1. ~(bus.valid /\ bus.last) /\ sent = Taken
    BY <1>1, <1>2, <1>11, NotLast
  <2>2. ~BufEn(bus)
    BY <1>1, <1>11, TurnFacts DEF BufEn, DinValidPulse, Rising
  <2>3. state' = "ABSORB" /\ word_cnt' = word_cnt /\ data_buf' = data_buf
    BY <1>1, <1>8, <2>1, <2>2
       DEF StepFsm, FsmNext, LastFillsBlock, BufOverflow, StepCount, StepBuffer, KeccakSqueeze
  <2>4. ~bus.last
    BY <1>1, <2>1 DEF ClientInv
  <2>5. ~last_data'
    BY <1>1, <1>2, <1>8, <2>4 DEF StepLast
  <2>6. Holds(word_cnt)'
    BY <1>1, <1>2, <1>6, <2>3, HoldsNext DEF l
  <2>7. Absorbing'
    BY <1>1, <1>2, <1>6, <1>9, <2>1, <2>3, <2>5, <2>6 DEF Absorbing, l, p
  <2>. QED
    BY <1>7, <2>3, <2>7 DEF Progress, BlockFull, Appending, LastBlockFull, Squeezing
<1>12. CASE Rising
  <2>1. /\ ~bus.hold /\ BufEn(bus) /\ WordCntNext(bus) = word_cnt + 1
        /\ SampledDin(bus) = PaddedWord(msg, sent)
        /\ data_buf' = [i \in 1..BufWords |-> IF i < BufWords THEN data_buf[i + 1]
                                                             ELSE SampledDin(bus)]
    BY <1>2, <1>10, <1>12, SampledWord
  <2>2. sent = p + (word_cnt + 1) /\ Taken = sent - 1
    BY <1>1, <1>2, <1>4, <1>5, <1>12 DEF Taken
  <2>3. HoldsIn(data_buf', word_cnt + 1, l)
    <3>1. SampledDin(bus) = PaddedWord(msg, Rate * l + (word_cnt + 1))
      BY <2>1, <2>2 DEF p
    <3>2. word_cnt < BufWords
      BY <1>1, <1>3
    <3>. QED  BY <1>1, <1>2, <1>3, <2>1, <3>1, <3>2, Shifted
  <2>4. ~Rising'
    BY <1>12, TurnFacts DEF Rising
  <2>5. sent' = sent
    BY <2>4, ClientMoves, TurnFacts DEF HashTurn
  <2>6. bus.valid /\ (bus.last <=> sent = msg.full + 1) /\ (bus.last => bus.bytes = msg.last)
    BY <1>1, <1>12 DEF ClientInv, Rising
  <2>7. CASE ~bus.last /\ word_cnt + 1 # Rate
    <3>1. state' = "ABSORB" /\ word_cnt' = word_cnt + 1 /\ ~last_data'
      BY <1>1, <1>2, <1>8, <2>1, <2>7
         DEF StepFsm, FsmNext, LastFillsBlock, BufOverflow, StepCount, StepLast
    <3>2. Holds(word_cnt)'
      BY <1>1, <1>6, <2>3, <3>1, HoldsNext DEF l
    <3>3. Absorbing'
      BY <1>1, <1>5, <1>6, <1>9, <2>2, <2>6, <2>7, <3>1, <3>2 DEF Absorbing, l, p
    <3>. QED
      BY <1>7, <3>1, <3>3 DEF Progress, BlockFull, Appending, LastBlockFull, Squeezing
  <2>8. CASE ~bus.last /\ word_cnt + 1 = Rate
    <3>1. state' = "FULL" /\ word_cnt' = 0 /\ ~last_data'
      BY <1>1, <1>2, <1>8, <2>1, <2>8
         DEF StepFsm, FsmNext, LastFillsBlock, BufOverflow, StepCount, StepLast
    <3>2. Holds(Rate)'
      BY <1>1, <1>6, <2>3, <2>8, HoldsNext DEF l
    <3>3. Taken' <= msg.full /\ Taken' = Rate * (l + 1)
      BY <1>1, <1>4, <1>5, <2>2, <2>6, <2>8
    <3>4. BlockFull'
      BY <1>1, <1>6, <1>9, <3>1, <3>2, <3>3 DEF BlockFull, l
    <3>. QED
      BY <1>7, <3>1, <3>4 DEF Progress, Absorbing, Appending, LastBlockFull, Squeezing
  <2>9. CASE bus.last
    <3>1. last_data' = TRUE /\ first_append' = TRUE /\ last_din_byte' = msg.last
      BY <1>1, <1>8, <1>10, <2>1, <2>6, <2>9 DEF StepLast
    <3>2. AllTaken'
      BY <1>1, <2>4, <2>5, <2>6, <2>9, <3>1 DEF AllTaken
    <3>3. sent = msg.full + 1
      BY <2>6, <2>9
    <3>4. CASE word_cnt + 1 # Rate
      <4>1. state' = "APPEND" /\ word_cnt' = word_cnt + 1
        BY <1>1, <1>3, <1>8, <2>1, <2>6, <2>9, <3>4
           DEF StepFsm, FsmNext, LastFillsBlock, BufOverflow, StepCount
      <4>2. Holds(word_cnt)'
        BY <1>1, <1>6, <2>3, <4>1, HoldsNext DEF l
      <4>3. Rate * l < DelimPosition(msg) /\ DelimPosition(msg) <= Rate * (l + 1)
        BY <1>1, <1>3, <1>4, <1>5, <2>2, <3>3, <3>4 DEF p
      <4>4. Ends'
        BY <1>1, <1>6, <4>3, EndsNext DEF l
      <4>5. Rate' * Len(absorbed') + word_cnt' = msg'.full + 1
        BY <1>1, <1>6, <1>9, <2>2, <3>3, <4>1 DEF l, p
      <4>6. Appending'
        BY <1>5, <1>1, <3>1, <3>2, <4>2, <4>4, <4>5 DEF Appending
      <4>. QED
        BY <1>7, <4>1, <4>6 DEF Progress, Absorbing, BlockFull, LastBlockFull, Squeezing
    <3>5. CASE word_cnt + 1 = Rate /\ msg.last # 8
      <4>1. state' = "LAST_FULL" /\ word_cnt' = 0
        BY <1>1, <1>3, <1>8, <2>1, <2>6, <2>9, <3>5
           DEF StepFsm, FsmNext, LastFillsBlock, BufOverflow, StepCount
      <4>2. Holds(Rate)'
        BY <1>1, <1>6, <2>3, <3>5, HoldsNext DEF l
      <4>3. Rate * l < DelimPosition(msg) /\ DelimPosition(msg) <= Rate * (l + 1)
        BY <1>1, <1>3, <1>4, <1>5, <2>2, <3>3, <3>5 DEF p
      <4>4. Ends'
        BY <1>1, <1>6, <4>3, EndsNext DEF l
      <4>5. LastBlockFull'
        BY <3>2, <4>1, <4>2, <4>4 DEF LastBlockFull
      <4>. QED
        BY <1>7, <4>1, <4>5 DEF Progress, Absorbing, BlockFull, Appending, Squeezing
    <3>6. CASE word_cnt + 1 = Rate /\ msg.last = 8
      <4>1. state' = "FULL" /\ word_cnt' = 0
        BY <1>1, <1>3, <1>8, <2>1, <2>6, <2>9, <3>6
           DEF StepFsm, FsmNext, LastFillsBlock, BufOverflow, StepCount
      <4>2. Holds(Rate)'
        BY <1>1, <1>6, <2>3, <3>6, HoldsNext DEF l
      <4>3. msg.full + 1 = Rate * (l + 1)
        BY <1>4, <2>2, <3>3, <3>6
      <4>4. BlockFull'
        BY <1>1, <1>6, <1>9, <3>1, <3>2, <3>6, <4>1, <4>2, <4>3 DEF BlockFull, l
      <4>. QED
        BY <1>7, <4>1, <4>4 DEF Progress, Absorbing, LastBlockFull, Appending, Squeezing
    <3>. QED  BY <3>4, <3>5, <3>6
  <2>. QED  BY <2>7, <2>8, <2>9
<1>. QED  BY <1>11, <1>12

\* The block that a start of the permutation XORs into the lanes.
LEMMA BlockAbsorbed ==
  ASSUME HashTurn, KeccakStart(bus), Holds(Rate),
         Len(absorbed) + 1 <= PaddedBlocks(msg),
         state = "LAST_FULL" <=> Len(absorbed) + 1 = PaddedBlocks(msg)
  PROVE  AbsorbsPaddedMessage' /\ Len(absorbed') = Len(absorbed) + 1
<1>1. Block = PaddedBlock(msg, Len(absorbed) + 1)
  BY TurnFacts, BlockOfBuffer
<1>2. absorbed' = Append(absorbed, Block)
  BY TurnFacts DEF HashTurn, Cycle, StepLanes
<1>3. AbsorbsPaddedMessage'
  BY <1>1, <1>2, AbsorbsNext, TurnFacts DEF HashTurn, Progress
<1>4. Len(Append(absorbed, Block)) = Len(absorbed) + 1
  BY TurnFacts DEF TypeOK
<1>. QED  BY <1>2, <1>3, <1>4

\* By the time a word rises the permutation of the block before is over.
LEMMA ReadyInTime ==
  ASSUME CoreInv, StreamInv, Hashing, state = "FULL", Rising
  PROVE  keccak_ready
<1>. SUFFICES ASSUME ~keccak_ready PROVE FALSE
  OBVIOUS
<1>1. TypeOK /\ ClientType /\ ClientInv /\ KeepsAhead
  BY DEF CoreInv, StreamInv
<1>2. counter_nr_rounds \in 0..(Rounds - 1) /\ Rounds \in Nat /\ mode_reg \in Mode
  BY <1>1, SizeAssumption DEF TypeOK
<1>3. gap = 1 /\ MinGap \in Nat /\ Rate \in Nat
  BY <1>1, MessageType, RateIs DEF ClientInv
<1>4. counter_nr_rounds + 2 >= ((Rate + 1) - 1) * MinGap + gap
  BY <1>1 DEF KeepsAhead, Presented
<1>5. Rounds < Rate * MinGap
  BY <1>2, PaceAssumption, Zenon DEF Rate
<1>. DEFINE r == Rate
            t == Rate * MinGap
<1>6. ((r + 1) - 1) * MinGap = t /\ t \in Nat
  BY <1>3
<1>7. counter_nr_rounds + 2 >= t + gap
  BY <1>4, <1>6
<1>. HIDE DEF t
<1>8. Rounds < t
  BY <1>5 DEF t
<1>. QED  BY <1>2, <1>3, <1>6, <1>7, <1>8

\* What a full block needs to be the next one, and not the final one.
LEMMA NotFinal ==
  ASSUME TypeOK, ClientType, state = "FULL", Rate * (Len(absorbed) + 1) < DelimPosition(msg)
  PROVE  /\ Len(absorbed) + 1 <= PaddedBlocks(msg)
         /\ state = "LAST_FULL" <=> Len(absorbed) + 1 = PaddedBlocks(msg)
<1>1. Len(absorbed) + 1 \in Nat
  BY DEF TypeOK
<1>. DEFINE n == Len(absorbed) + 1
<1>. HIDE DEF n
<1>2. PaddedBlocks(msg) \in Nat /\ n < PaddedBlocks(msg)
  BY <1>1, BlocksByDelimiter DEF n
<1>3. n <= PaddedBlocks(msg) /\ n # PaddedBlocks(msg)
  BY <1>1, <1>2 DEF n
<1>. QED  BY <1>3 DEF n

\* A clock in FULL when the whole message was taken.
LEMMA FullLastStep ==
  ASSUME HashTurn, state = "FULL", last_data
  PROVE  Progress'
<1>. DEFINE l == Len(absorbed)
<1>1. /\ TypeOK /\ ClientType /\ ClientInv /\ mode_reg' = mode_reg /\ msg' = msg /\ Hashing
      /\ ~bus.start /\ l \in Nat /\ AbsorbsPaddedMessage /\ ~dout_buf_available
  BY TurnFacts DEF HashTurn, Progress
<1>2. /\ AllTaken /\ msg.last = 8 /\ first_append /\ word_cnt = 0
      /\ HoldsIn(data_buf, Rate, l) /\ msg.full + 1 = Rate * (l + 1)
  BY TurnFacts DEF Progress, BlockFull, Holds
<1>3. Rate \in Nat /\ Rate >= 2
  BY <1>1, RateIs
<1>4. /\ Rate * (l + 1) \in Nat /\ Rate * ((l + 1) + 1) = Rate * (l + 1) + Rate
  BY <1>1, WordsOfBlocks
<1>5. /\ msg.full \in Nat /\ sent \in Nat /\ DelimPosition(msg) = msg.full + 2
  BY <1>1, <1>2, MessageType
<1>6. /\ StepFsm(bus) /\ StepBuffer(bus) /\ StepCount(bus) /\ StepLast(bus) /\ StepLanes(bus)
  BY DEF HashTurn, Cycle
<1>7. ~DinReady(bus) /\ ~BufEn(bus) /\ ~bus.hold
  BY <1>1, <1>2, <1>5 DEF DinReady, BufEn, AllTaken, ClientInv
<1>8. sent' = sent /\ ~Rising'
  BY <1>1, <1>2, <1>5, ClientMoves, TurnFacts DEF HashTurn, AllTaken
<1>9. /\ last_data' = TRUE /\ last_din_byte' = last_din_byte /\ first_append'
      /\ word_cnt' = 0 /\ data_buf' = data_buf
  BY <1>1, <1>2, <1>6, <1>7
     DEF StepLast, StepCount, StepBuffer, BufOverflow, KeccakSqueeze, TypeOK
<1>10. AllTaken'
  BY <1>1, <1>2, <1>8, <1>9 DEF AllTaken
<1>11. Rate' = Rate
  BY <1>1, PaddingStays
<1>12. CASE ~keccak_ready
  <2>1. absorbed' = absorbed /\ state' = "FULL"
    BY <1>1, <1>6, <1>7, <1>12
       DEF StepLanes, KeccakStart, KeccakSqueeze, KeccakReady, StepFsm, FsmNext
  <2>2. AbsorbsPaddedMessage'
    BY <1>1, <2>1, AbsorbsNext
  <2>3. Holds(Rate)'
    BY <1>1, <1>2, <1>9, <2>1, HoldsNext
  <2>4. BlockFull'
    BY <1>1, <1>2, <1>9, <1>10, <1>11, <2>1, <2>3 DEF BlockFull
  <2>. QED
    BY <2>1, <2>2, <2>4 DEF Progress, Absorbing, Appending, LastBlockFull, Squeezing
<1>13. CASE keccak_ready
  <2>1. KeccakStart(bus)
    BY <1>7, <1>13 DEF KeccakStart, KeccakReady
  <2>2. Rate * (l + 1) < DelimPosition(msg) /\ DelimPosition(msg) <= Rate * ((l + 1) + 1)
    BY <1>2, <1>3, <1>4, <1>5
  <2>3. AbsorbsPaddedMessage' /\ Len(absorbed') = l + 1
    BY <1>1, <1>2, <2>1, <2>2, NotFinal, BlockAbsorbed DEF Holds
  <2>4. state' = "APPEND"
    BY <1>1, <1>2, <1>6, <1>7, <1>13 DEF StepFsm, FsmNext, KeccakReady, PaddingOwed
  <2>. HIDE DEF l
  <2>5. Ends'
    BY <1>1, <2>2, <2>3, EndsNext
  <2>6. HoldsIn(data_buf', 0, l + 1)
    BY DEF HoldsIn
  <2>7. Holds(word_cnt)'
    BY <1>1, <1>9, <2>3, <2>6, HoldsNext
  <2>8. Rate' * Len(absorbed') + word_cnt' = msg'.full + 1
    BY <1>1, <1>2, <1>4, <1>9, <1>11, <2>3
  <2>9. Appending'
    BY <1>1, <1>5, <1>9, <1>10, <2>5, <2>7, <2>8 DEF Appending
  <2>. QED
    BY <2>3, <2>4, <2>9 DEF Progress, Absorbing, BlockFull, LastBlockFull, Squeezing
<1>. QED  BY <1>12, <1>13

\* A clock in FULL before the last word was taken.
LEMMA FullStep ==
  ASSUME HashTurn, 0 \notin LastBytes, state = "FULL", ~last_data
  PROVE  Progress'
<1>. DEFINE l == Len(absorbed)
            q == Rate * (l + 1)
<1>1. /\ TypeOK /\ ClientType /\ ClientInv /\ mode_reg' = mode_reg /\ msg' = msg /\ Hashing
      /\ ~bus.start /\ l \in Nat /\ AbsorbsPaddedMessage /\ ~dout_buf_available
      /\ Taken' = sent
  BY TurnFacts DEF HashTurn, Progress
<1>2. /\ word_cnt = 0 /\ HoldsIn(data_buf, Rate, l) /\ Taken <= msg.full /\ Taken = q
  BY TurnFacts DEF Progress, BlockFull, Holds
<1>3. Rate \in Nat /\ Rate >= 2 /\ Rate <= BufWords /\ BufWords \in Nat
  BY <1>1, RateIs
<1>4. q \in Nat /\ Rate * ((l + 1) + 1) = q + Rate
  BY <1>1, WordsOfBlocks
<1>5. /\ msg.full \in Nat /\ sent \in Nat /\ sent <= msg.full + 1
      /\ DelimPosition(msg) \in {msg.full + 1, msg.full + 2}
  BY <1>1, MessageType
<1>6. /\ StepFsm(bus) /\ StepBuffer(bus) /\ StepCount(bus) /\ StepLast(bus) /\ StepLanes(bus)
  BY DEF HashTurn, Cycle
<1>7. Rate' = Rate
  BY <1>1, PaddingStays
<1>8. q < DelimPosition(msg)
  <2>. HIDE DEF q
  <2>. QED  BY <1>2, <1>4, <1>5
<1>9. KeccakStart(bus) => AbsorbsPaddedMessage' /\ Len(absorbed') = l + 1
  BY <1>1, <1>2, <1>8, NotFinal, BlockAbsorbed DEF Holds
<1>. HIDE DEF q
<1>10. CASE ~Rising
  <2>1. ~(bus.valid /\ bus.last) /\ sent = Taken /\ ~bus.last
    BY <1>1, <1>2, <1>10, NotLast DEF ClientInv
  <2>2. ~BufEn(bus)
    BY <1>1, <1>10, TurnFacts DEF BufEn, DinValidPulse, Rising
  <2>3. ~last_data' /\ word_cnt' = 0 /\ data_buf' = data_buf
    BY <1>1, <1>2, <1>6, <2>1, <2>2
       DEF StepLast, StepCount, StepBuffer, BufOverflow, KeccakSqueeze
  <2>4. CASE ~KeccakStart(bus)
    <3>1. absorbed' = absorbed /\ state' = "FULL"
      BY <1>1, <1>6, <2>4
         DEF StepLanes, KeccakStart, KeccakSqueeze, KeccakReady, StepFsm, FsmNext
    <3>2. AbsorbsPaddedMessage'
      BY <1>1, <3>1, AbsorbsNext
    <3>3. Holds(Rate)'
      BY <1>1, <1>2, <2>3, <3>1, HoldsNext
    <3>4. BlockFull'
      BY <1>1, <1>2, <1>7, <2>1, <2>3, <3>1, <3>3 DEF BlockFull, q
    <3>. QED
      BY <3>1, <3>2, <3>4 DEF Progress, Absorbing, Appending, LastBlockFull, Squeezing
  <2>5. CASE KeccakStart(bus)
    <3>1. state' = "ABSORB"
      BY <1>1, <1>6, <2>1, <2>5 DEF StepFsm, FsmNext, KeccakStart, PaddingOwed
    <3>. HIDE DEF l
    <3>2. HoldsIn(data_buf', 0, l + 1)
      BY DEF HoldsIn
    <3>3. Holds(word_cnt)'
      BY <1>1, <1>9, <2>3, <2>5, <3>2, HoldsNext
    <3>4. Taken' = Rate' * Len(absorbed') + word_cnt'
      BY <1>1, <1>2, <1>4, <1>7, <1>9, <2>1, <2>3, <2>5 DEF q
    <3>5. Absorbing'
      BY <1>1, <1>2, <2>1, <2>3, <3>3, <3>4 DEF Absorbing
    <3>. QED
      BY <1>9, <2>5, <3>1, <3>5 DEF Progress, BlockFull, Appending, LastBlockFull, Squeezing
  <2>. QED  BY <2>4, <2>5
<1>11. CASE Rising
  <2>1. keccak_ready
    BY <1>11, ReadyInTime DEF HashTurn
  <2>2. DinReady(bus)
    BY <2>1 DEF DinReady, KeccakReady
  <2>3. /\ ~bus.hold /\ BufEn(bus) /\ WordCntNext(bus) = 1
        /\ SampledDin(bus) = PaddedWord(msg, sent)
        /\ data_buf' = [i \in 1..BufWords |-> IF i < BufWords THEN data_buf[i + 1]
                                                             ELSE SampledDin(bus)]
    BY <1>2, <1>11, <2>2, SampledWord
  <2>4. KeccakStart(bus)
    BY <2>1, <2>3 DEF KeccakStart, KeccakReady
  <2>5. sent = q + 1 /\ Taken = sent - 1
    BY <1>2, <1>4, <1>5, <1>11 DEF Taken
  <2>6. ~Rising' /\ sent' = sent
    BY <1>11, TurnFacts, ClientMoves DEF HashTurn, Rising
  <2>7. bus.valid /\ (bus.last <=> sent = msg.full + 1) /\ (bus.last => bus.bytes = msg.last)
    BY <1>1, <1>11 DEF ClientInv, Rising
  <2>8. word_cnt' = 1
    BY <1>1, <1>3, <1>6, <2>3 DEF StepCount, BufOverflow
  <2>. HIDE DEF l
  <2>9. HoldsIn(data_buf', 1, l + 1)
    <3>1. SampledDin(bus) = PaddedWord(msg, Rate * (l + 1) + (0 + 1))
      <4>1. sent = q + (0 + 1)
        BY <1>4, <2>5
      <4>. QED  BY <2>3, <4>1 DEF q
    <3>2. HoldsIn(data_buf, 0, l + 1) /\ 0 < BufWords
      BY <1>3 DEF HoldsIn
    <3>3. HoldsIn(data_buf', 0 + 1, l + 1)
      BY <1>3, <2>3, <3>1, <3>2, Shifted
    <3>. QED  BY <3>3
  <2>10. Holds(word_cnt)'
    BY <1>1, <1>9, <2>4, <2>8, <2>9, HoldsNext
  <2>11. sent = Rate' * Len(absorbed') + word_cnt'
    BY <1>7, <1>9, <2>4, <2>5, <2>8 DEF q
  <2>12. CASE ~bus.last
    <3>1. state' = "ABSORB" /\ ~last_data'
      BY <1>1, <1>6, <2>1, <2>3, <2>12
         DEF StepFsm, FsmNext, KeccakReady, PaddingOwed, StepLast
    <3>2. sent <= msg.full
      BY <1>5, <2>7, <2>12
    <3>3. Absorbing'
      BY <1>1, <2>10, <2>11, <3>1, <3>2 DEF Absorbing
    <3>. QED
      BY <1>9, <2>4, <3>1, <3>3 DEF Progress, BlockFull, Appending, LastBlockFull, Squeezing
  <2>13. CASE bus.last
    <3>1. last_data' = TRUE /\ first_append' = TRUE /\ last_din_byte' = msg.last
      BY <1>1, <1>6, <2>2, <2>3, <2>7, <2>13 DEF StepLast
    <3>2. state' = "APPEND"
      BY <1>1, <1>6, <2>1, <2>3, <2>7, <2>13 DEF StepFsm, FsmNext, KeccakReady, PaddingOwed
    <3>3. sent = msg.full + 1
      BY <2>7, <2>13
    <3>4. AllTaken'
      BY <1>1, <2>6, <3>1, <3>3 DEF AllTaken
    <3>5. Rate * (l + 1) < DelimPosition(msg) /\ DelimPosition(msg) <= Rate * ((l + 1) + 1)
      <4>1. q < DelimPosition(msg) /\ DelimPosition(msg) <= q + Rate
        BY <1>3, <1>4, <1>5, <2>5, <3>3
      <4>. QED  BY <1>4, <4>1 DEF q
    <3>6. Ends'
      BY <1>1, <1>9, <2>4, <3>5, EndsNext
    <3>7. Rate' * Len(absorbed') + word_cnt' = msg'.full + 1
      BY <1>1, <2>11, <3>3
    <3>8. Appending'
      BY <1>1, <1>5, <2>10, <3>1, <3>4, <3>6, <3>7 DEF Appending
    <3>. QED
      BY <1>9, <2>4, <3>2, <3>8 DEF Progress, Absorbing, BlockFull, LastBlockFull, Squeezing
  <2>. QED  BY <2>12, <2>13
<1>. QED  BY <1>10, <1>11

\* Once the last word was taken, nothing rises and nothing holds the engine.
LEMMA AfterLast ==
  ASSUME HashTurn, AllTaken, state \in {"APPEND", "LAST_FULL", "SQUEEZE"}
  PROVE  /\ ~DinReady(bus) /\ ~bus.hold /\ sent' = sent /\ ~Rising'
         /\ last_data' = TRUE /\ last_din_byte' = last_din_byte /\ AllTaken'
         /\ first_append' = (first_append /\ state # "APPEND")
<1>1. /\ ClientType /\ ClientInv /\ ~bus.start /\ msg' = msg /\ TypeOK
  BY TurnFacts
<1>2. msg.full \in Nat /\ sent = msg.full + 1 /\ last_data /\ last_din_byte = msg.last
  BY <1>1, MessageType DEF AllTaken
<1>3. ~DinReady(bus) /\ ~bus.hold
  BY <1>1, <1>2 DEF DinReady, ClientInv
<1>4. sent' = sent /\ ~Rising'
  BY <1>1, <1>2, ClientMoves, TurnFacts DEF HashTurn
<1>5. /\ last_data' = TRUE /\ last_din_byte' = last_din_byte
      /\ first_append' = (first_append /\ state # "APPEND")
  BY <1>1, <1>2, <1>3 DEF HashTurn, Cycle, StepLast, TypeOK
<1>. QED  BY <1>1, <1>2, <1>3, <1>4, <1>5 DEF AllTaken

\* A clock in APPEND.
LEMMA AppendStep ==
  ASSUME HashTurn, 0 \notin LastBytes, state = "APPEND"
  PROVE  Progress'
<1>. DEFINE l == Len(absorbed)
            p == Rate * l
<1>1. /\ TypeOK /\ ClientType /\ ClientInv /\ mode_reg' = mode_reg /\ msg' = msg /\ Hashing
      /\ ~bus.start /\ l \in Nat /\ AbsorbsPaddedMessage /\ ~dout_buf_available
      /\ word_cnt \in Nat /\ word_cnt < Rate
  BY TurnFacts DEF HashTurn, Progress
<1>2. /\ AllTaken /\ HoldsIn(data_buf, word_cnt, l) /\ p + word_cnt >= msg.full + 1
      /\ first_append <=> p + word_cnt = msg.full + 1
      /\ p < DelimPosition(msg) /\ DelimPosition(msg) <= Rate * (l + 1)
  BY TurnFacts DEF Progress, Appending, Holds, Ends
<1>3. Rate \in Nat /\ Rate >= 2 /\ Rate <= BufWords /\ BufWords \in Nat
  BY <1>1, RateIs
<1>4. p \in Nat
  BY <1>1, WordsOfBlocks
<1>5. /\ msg.full \in Nat /\ msg.last \in 1..8
      /\ msg.last = 8 <=> DelimPosition(msg) = msg.full + 2
      /\ DelimPosition(msg) \in {msg.full + 1, msg.full + 2}
  BY <1>1, MessageType
<1>6. /\ StepFsm(bus) /\ StepBuffer(bus) /\ StepCount(bus) /\ StepLanes(bus)
  BY DEF HashTurn, Cycle
<1>7. ~DinReady(bus) /\ ~bus.hold /\ AllTaken' /\ ~first_append'
  BY <1>2, AfterLast
<1>8. BufEn(bus) /\ WordCntNext(bus) = word_cnt + 1
  <2>1. bus.last /\ bus.valid => bus.bytes # 0
    BY <1>1, <1>5 DEF ClientInv
  <2>. QED  BY <2>1 DEF BufEn, WordCntNext
<1>9. absorbed' = absorbed /\ AbsorbsPaddedMessage' /\ Rate' = Rate
  <2>1. absorbed' = absorbed
    BY <1>1, <1>6 DEF StepLanes, KeccakStart, KeccakSqueeze
  <2>. QED  BY <1>1, <2>1, AbsorbsNext, PaddingStays
<1>. HIDE DEF p
<1>10. SampledDin(bus) = PaddedWord(msg, p + (word_cnt + 1))
  <2>. DEFINE x == p + (word_cnt + 1)
  <2>1. last_din_byte = msg.last
    BY <1>2 DEF AllTaken
  <2>2. x \in Nat /\ x > msg.full + 1
    BY <1>1, <1>2, <1>4, <1>5
  <2>3. ~(x <= msg.full) /\ x # msg.full + 1
    BY <1>5, <2>2
  <2>4. x = DelimPosition(msg) <=> (first_append /\ msg.last = 8)
    <3>1. x = msg.full + 2 <=> p + word_cnt = msg.full + 1
      BY <1>1, <1>4, <1>5
    <3>. QED  BY <1>2, <1>5, <2>3, <3>1
  <2>5. x = DelimPosition(msg) => msg.last \notin 1..7
    BY <2>4
  <2>6. first_append /\ last_din_byte % 8 = 0 <=> first_append /\ msg.last = 8
    <3>1. \A n \in 1..8 : n % 8 = 0 <=> n = 8
      OBVIOUS
    <3>. QED  BY <1>5, <2>1, <3>1
  <2>7. SampledDin(bus) = IF first_append /\ msg.last = 8 THEN DelimWord(mode_reg) ELSE ZeroWord
    BY <1>7, <2>6 DEF SampledDin
  <2>. HIDE DEF x
  <2>8. PaddedWord(msg, x) = IF x # DelimPosition(msg) THEN ZeroWord ELSE DelimWord(mode_reg)
    BY <2>3, <2>5 DEF PaddedWord
  <2>9. SampledDin(bus) = PaddedWord(msg, x)
    BY <2>7, <2>8, <2>4
  <2>. QED  BY <2>9 DEF x
<1>11. HoldsIn(data_buf', word_cnt + 1, l)
  <2>1. data_buf' = [i \in 1..BufWords |-> IF i < BufWords THEN data_buf[i + 1]
                                                          ELSE SampledDin(bus)]
    BY <1>6, <1>7, <1>8 DEF StepBuffer, KeccakSqueeze
  <2>2. SampledDin(bus) = PaddedWord(msg, Rate * l + (word_cnt + 1)) /\ word_cnt < BufWords
    BY <1>1, <1>3, <1>10 DEF p
  <2>. QED  BY <1>1, <1>2, <1>3, <2>1, <2>2, Shifted
<1>12. Ends'
  BY <1>1, <1>2, <1>9, EndsNext DEF p
<1>13. CASE word_cnt + 1 # Rate
  <2>1. state' = "APPEND" /\ word_cnt' = word_cnt + 1
    BY <1>1, <1>6, <1>7, <1>8, <1>13 DEF StepFsm, FsmNext, StepCount, BufOverflow
  <2>2. Holds(word_cnt)'
    BY <1>1, <1>9, <1>11, <2>1, HoldsNext
  <2>3. Rate' * Len(absorbed') + word_cnt' = p + (word_cnt + 1)
    BY <1>9, <2>1 DEF p
  <2>4. p + (word_cnt + 1) > msg.full + 1
    BY <1>1, <1>2, <1>4, <1>5
  <2>5. /\ Rate' * Len(absorbed') + word_cnt' >= msg'.full + 1
        /\ ~(Rate' * Len(absorbed') + word_cnt' = msg'.full + 1)
    BY <1>1, <1>4, <1>5, <2>3, <2>4
  <2>6. Appending'
    BY <1>7, <1>12, <2>2, <2>5 DEF Appending
  <2>. QED
    BY <1>9, <2>1, <2>6 DEF Progress, Absorbing, BlockFull, LastBlockFull, Squeezing
<1>14. CASE word_cnt + 1 = Rate
  <2>1. state' = "LAST_FULL" /\ word_cnt' = 0
    BY <1>1, <1>6, <1>7, <1>8, <1>14 DEF StepFsm, FsmNext, StepCount, BufOverflow
  <2>2. Holds(Rate)'
    BY <1>1, <1>9, <1>11, <1>14, HoldsNext
  <2>3. LastBlockFull'
    BY <1>7, <1>12, <2>1, <2>2 DEF LastBlockFull
  <2>. QED
    BY <1>9, <2>1, <2>3 DEF Progress, Absorbing, BlockFull, Appending, Squeezing
<1>. QED  BY <1>13, <1>14

\* A clock in LAST_FULL.
LEMMA LastFullStep ==
  ASSUME HashTurn, state = "LAST_FULL"
  PROVE  Progress'
<1>. DEFINE l == Len(absorbed)
<1>1. /\ TypeOK /\ ClientType /\ mode_reg' = mode_reg /\ msg' = msg /\ Hashing
      /\ ~bus.start /\ l \in Nat /\ AbsorbsPaddedMessage /\ ~dout_buf_available
  BY TurnFacts DEF HashTurn, Progress
<1>2. /\ AllTaken /\ word_cnt = 0 /\ HoldsIn(data_buf, Rate, l)
      /\ Rate * l < DelimPosition(msg) /\ DelimPosition(msg) <= Rate * (l + 1)
  BY TurnFacts DEF Progress, LastBlockFull, Holds, Ends
<1>3. /\ StepFsm(bus) /\ StepBuffer(bus) /\ StepCount(bus) /\ StepLanes(bus) /\ StepOutput(bus)
  BY DEF HashTurn, Cycle
<1>4. ~DinReady(bus) /\ ~bus.hold /\ AllTaken'
  BY <1>2, AfterLast
<1>5. ~BufEn(bus)
  BY <1>1, <1>4 DEF BufEn
<1>6. word_cnt' = 0 /\ data_buf' = data_buf /\ dout_buf_available' = FALSE
  BY <1>1, <1>2, <1>3, <1>5 DEF StepCount, StepBuffer, StepOutput, BufOverflow, KeccakSqueeze
<1>7. PaddedBlocks(msg) = l + 1
  <2>1. PaddedBlocks(msg) \in Nat /\ l < PaddedBlocks(msg)
    BY <1>1, <1>2, BlocksByDelimiter
  <2>2. ~(l + 1 < PaddedBlocks(msg))
    <3>1. Rate * (l + 1) \in Nat
      BY <1>1, WordsOfBlocks
    <3>2. DelimPosition(msg) \in Nat
      BY <1>1, MessageType
    <3>3. ~(Rate * (l + 1) < DelimPosition(msg))
      BY <1>2, <3>1, <3>2
    <3>4. l + 1 \in Nat
      BY <1>1
    <3>. QED  BY <1>1, <3>3, <3>4, BlocksByDelimiter
  <2>. QED  BY <1>1, <2>1, <2>2
<1>8. CASE ~keccak_ready
  <2>1. absorbed' = absorbed /\ state' = "LAST_FULL"
    BY <1>1, <1>3, <1>4, <1>8
       DEF StepLanes, KeccakStart, KeccakSqueeze, KeccakReady, StepFsm, FsmNext
  <2>2. AbsorbsPaddedMessage'
    BY <1>1, <2>1, AbsorbsNext
  <2>3. Holds(Rate)'
    BY <1>1, <1>2, <1>6, <2>1, HoldsNext
  <2>4. Ends'
    BY <1>1, <1>2, <2>1, EndsNext
  <2>5. LastBlockFull'
    BY <1>4, <1>6, <2>3, <2>4 DEF LastBlockFull
  <2>. QED
    BY <2>1, <2>2, <2>5 DEF Progress, Absorbing, BlockFull, Appending, Squeezing
<1>9. CASE keccak_ready
  <2>1. KeccakStart(bus)
    BY <1>4, <1>9 DEF KeccakStart, KeccakReady
  <2>2. AbsorbsPaddedMessage' /\ Len(absorbed') = l + 1
    BY <1>1, <1>2, <1>7, <2>1, BlockAbsorbed DEF Holds
  <2>3. state' = "SQUEEZE"
    BY <1>1, <1>3, <1>4, <1>9 DEF StepFsm, FsmNext, KeccakReady
  <2>4. PaddedBlocks(msg)' = l + 1
    BY <1>1, <1>7, PaddingStays
  <2>5. Squeezing'
    BY <1>1, <1>4, <1>6, <2>2, <2>4 DEF Squeezing
  <2>. QED
    BY <2>2, <2>3, <2>5 DEF Progress, Absorbing, BlockFull, Appending, LastBlockFull
<1>. QED  BY <1>8, <1>9

\* A clock in SQUEEZE.
LEMMA SqueezeStep ==
  ASSUME HashTurn, state = "SQUEEZE"
  PROVE  Progress'
<1>. DEFINE l == Len(absorbed)
<1>1. /\ TypeOK /\ ClientType /\ mode_reg' = mode_reg /\ msg' = msg /\ Hashing
      /\ ~bus.start /\ l \in Nat /\ AbsorbsPaddedMessage
  BY TurnFacts DEF HashTurn, Progress
<1>2. /\ AllTaken /\ l >= PaddedBlocks(msg) /\ (dout_buf_available => l > PaddedBlocks(msg))
  BY TurnFacts DEF Progress, Squeezing
<1>3. StepFsm(bus) /\ StepLanes(bus) /\ StepOutput(bus)
  BY DEF HashTurn, Cycle
<1>4. ~bus.hold /\ AllTaken'
  BY <1>2, AfterLast
<1>5. state' = "SQUEEZE" /\ ~KeccakStart(bus)
  BY <1>1, <1>3, <1>4 DEF StepFsm, FsmNext, KeccakStart
<1>6. PaddedBlocks(msg)' = PaddedBlocks(msg) /\ PaddedBlocks(msg) \in Nat
  BY <1>1, PaddingStays, BlocksByDelimiter
<1>7. CASE KeccakSqueeze(bus)
  <2>1. absorbed' = Append(absorbed, NoBlock)
    BY <1>1, <1>3, <1>5, <1>7 DEF StepLanes
  <2>2. AbsorbsPaddedMessage'
    <3>1. ~(l + 1 <= PaddedBlocks(msg))
      BY <1>1, <1>2, <1>6
    <3>. QED  BY <1>1, <2>1, <3>1, AbsorbsNext
  <2>3. Len(absorbed') = l + 1
    BY <1>1, <2>1 DEF TypeOK
  <2>4. Squeezing'
    BY <1>1, <1>2, <1>4, <1>6, <2>3 DEF Squeezing
  <2>. QED
    BY <1>5, <2>2, <2>4 DEF Progress, Absorbing, BlockFull, Appending, LastBlockFull
<1>8. CASE ~KeccakSqueeze(bus)
  <2>1. absorbed' = absorbed
    BY <1>1, <1>3, <1>5, <1>8 DEF StepLanes
  <2>2. AbsorbsPaddedMessage'
    BY <1>1, <2>1, AbsorbsNext
  <2>3. dout_buf_available' => dout_buf_available
    BY <1>1, <1>3, <1>4, <1>8 DEF StepOutput
  <2>4. Squeezing'
    BY <1>2, <1>4, <1>6, <2>1, <2>3 DEF Squeezing
  <2>. QED
    BY <1>5, <2>2, <2>4 DEF Progress, Absorbing, BlockFull, Appending, LastBlockFull
<1>. QED  BY <1>7, <1>8

-----------------------------------------------------------------------------
(* The permutation keeps ahead of the words *)

\* While no permutation starts, a word counts from the clock it rises.
LEMMA PresentedGrows ==
  ASSUME HashTurn, 0 \notin LastBytes, ~KeccakStart(bus),
         state \in {"ABSORB", "FULL"}, state' \in {"ABSORB", "FULL"}
  PROVE  Presented' = Presented + (IF Rising' THEN 1 ELSE 0)
<1>1. /\ TypeOK /\ ClientType /\ ClientInv /\ ~bus.start /\ word_cnt \in Nat /\ word_cnt < Rate
      /\ ~dout_buf_available
  BY TurnFacts
<1>2. Rate \in Nat /\ Rate >= 2 /\ Rate' = Rate
  BY <1>1, RateIs, TurnFacts, PaddingStays
<1>3. StepFsm(bus) /\ StepCount(bus)
  BY DEF HashTurn, Cycle
<1>4. CASE state = "ABSORB" /\ ~Rising
  <2>1. ~(bus.valid /\ bus.last)
    BY <1>1, <1>4, NotLast, TurnFacts DEF Progress, Absorbing
  <2>2. ~BufEn(bus)
    BY <1>1, <1>4, TurnFacts DEF BufEn, DinValidPulse, Rising
  <2>3. state' = "ABSORB" /\ word_cnt' = word_cnt
    BY <1>1, <1>3, <1>4, <2>1, <2>2 DEF StepFsm, FsmNext, LastFillsBlock, BufOverflow, StepCount
  <2>. QED  BY <1>1, <1>4, <2>3 DEF Presented
<1>5. CASE state = "ABSORB" /\ Rising
  <2>1. DinReady(bus) /\ Taken <= msg.full
    BY <1>5, TurnFacts DEF DinReady, Progress, Absorbing
  <2>2. ~bus.hold /\ BufEn(bus) /\ WordCntNext(bus) = word_cnt + 1
    BY <1>5, <2>1, SampledWord
  <2>3. ~Rising'
    BY <1>5, TurnFacts DEF Rising
  <2>4. CASE word_cnt + 1 = Rate
    <3>1. state' = "FULL"
      BY <1>1, <1>3, <1>5, <2>2, <2>4 DEF StepFsm, FsmNext, BufOverflow
    <3>. QED  BY <1>1, <1>2, <1>5, <2>3, <2>4, <3>1 DEF Presented
  <2>5. CASE word_cnt + 1 # Rate
    <3>1. state' = "ABSORB" /\ word_cnt' = word_cnt + 1
      BY <1>1, <1>3, <1>5, <2>2, <2>5 DEF StepFsm, FsmNext, BufOverflow, StepCount
    <3>. QED  BY <1>1, <1>5, <2>3, <3>1 DEF Presented
  <2>. QED  BY <2>4, <2>5
<1>6. CASE state = "FULL"
  <2>1. ~keccak_ready \/ bus.hold
    BY <1>6 DEF KeccakStart, KeccakReady
  <2>2. ~Rising
    BY <1>1, <1>6, <2>1, ReadyInTime DEF HashTurn, ClientInv
  <2>3. state' = "FULL"
    BY <1>1, <1>3, <1>6, <2>1 DEF StepFsm, FsmNext, KeccakReady
  <2>. QED  BY <1>2, <1>6, <2>2, <2>3 DEF Presented
<1>. QED  BY <1>4, <1>5, <1>6

\* A clock leaves the permutation ahead of the words.
LEMMA KeepsAheadStep ==
  ASSUME HashTurn, 0 \notin LastBytes
  PROVE  KeepsAhead'
<1>. SUFFICES ASSUME state' \in {"ABSORB", "FULL"}, ~keccak_ready'
              PROVE  counter_nr_rounds' + 2 >= (Presented' - 1) * MinGap + gap'
  BY DEF KeepsAhead
<1>1. /\ TypeOK /\ ClientType /\ ClientInv /\ Hashing /\ ~bus.start /\ word_cnt \in Nat
      /\ ~bus'.start /\ din_valid_d' = bus.valid
  BY TurnFacts DEF HashTurn
<1>2. Rate \in Nat /\ Rate >= 2
  BY <1>1, RateIs
<1>3. gap \in Nat /\ gap <= MinGap /\ MinGap \in Nat
  BY <1>1, MessageType
<1>4. counter_nr_rounds \in Nat
  BY <1>1, SizeAssumption DEF TypeOK
<1>5. StepFsm(bus) /\ StepRounds(bus) /\ StepCount(bus)
  BY DEF HashTurn, Cycle
<1>6. state \in {"ABSORB", "FULL"}
  BY <1>1, <1>5 DEF StepFsm, FsmNext, Hashing, TypeOK, FsmState
<1>7. /\ Rising' => gap = MinGap /\ gap' = 1 /\ ~bus.hold /\ ~bus.valid
      /\ ~Rising' => gap' = gap \/ (gap' = gap + 1 /\ ~bus.hold)
  BY <1>1, ClientMoves DEF HashTurn
<1>8. CASE KeccakStart(bus)
  <2>1. state = "FULL" /\ ~bus.hold /\ keccak_ready
    BY <1>1, <1>6, <1>8 DEF KeccakStart, KeccakReady
  <2>2. counter_nr_rounds' = 0
    BY <1>1, <1>5, <1>8, <2>1 DEF StepRounds
  <2>3. state' = "ABSORB" /\ ~last_data /\ ~(bus.last /\ bus.valid)
    BY <1>1, <1>5, <2>1 DEF StepFsm, FsmNext, KeccakReady, PaddingOwed
  <2>4. word_cnt = 0
    BY <2>1, TurnFacts DEF Progress, BlockFull
  <2>5. CASE Rising
    <3>1. DinReady(bus) /\ Taken <= msg.full
      BY <2>1, <2>3, TurnFacts DEF DinReady, KeccakReady, Progress, BlockFull
    <3>2. BufEn(bus) /\ WordCntNext(bus) = 1
      BY <2>4, <2>5, <3>1, SampledWord
    <3>3. word_cnt' = 1
      BY <1>1, <1>2, <1>5, <2>1, <3>2 DEF StepCount, BufOverflow
    <3>4. ~Rising' /\ gap = 1
      BY <1>1, <2>5 DEF Rising, ClientInv
    <3>5. Presented' = 1
      BY <2>3, <3>3, <3>4 DEF Presented
    <3>6. gap' <= 2 /\ gap' \in Nat /\ (1 - 1) * MinGap = 0
      BY <1>3, <1>7, <3>4
    <3>. QED  BY <2>2, <3>5, <3>6
  <2>6. CASE ~Rising
    <3>1. ~BufEn(bus)
      BY <1>1, <2>1, <2>6, TurnFacts DEF BufEn, DinValidPulse, Rising
    <3>2. word_cnt' = 0
      BY <1>1, <1>5, <2>4, <3>1 DEF StepCount, BufOverflow
    <3>3. CASE Rising'
      <4>1. Presented' = 1 /\ (1 - 1) * MinGap = 0
        BY <1>3, <2>3, <3>2, <3>3 DEF Presented
      <4>. QED  BY <1>7, <2>2, <3>3, <4>1
    <3>4. CASE ~Rising'
      <4>1. Presented' = 0 /\ (0 - 1) * MinGap = 0 - MinGap
        BY <1>3, <2>3, <3>2, <3>4 DEF Presented
      <4>. QED  BY <1>3, <1>7, <2>2, <3>4, <4>1
    <3>. QED  BY <3>3, <3>4
  <2>. QED  BY <2>5, <2>6
<1>9. CASE ~KeccakStart(bus)
  <2>1. ~KeccakSqueeze(bus)
    BY <1>6 DEF KeccakSqueeze
  <2>2. /\ ~keccak_ready
        /\ counter_nr_rounds' = IF ~bus.hold THEN counter_nr_rounds + 1 ELSE counter_nr_rounds
    BY <1>1, <1>5, <1>9, <2>1 DEF StepRounds
  <2>3. counter_nr_rounds + 2 >= (Presented - 1) * MinGap + gap
    BY <1>6, <2>2, TurnFacts DEF KeepsAhead
  <2>4. Presented' = Presented + (IF Rising' THEN 1 ELSE 0)
    BY <1>6, <1>9, PresentedGrows
  <2>5. Presented \in Nat
    BY <1>1, <1>2 DEF Presented
  <2>6. PICK t \in Int : /\ t = (Presented - 1) * MinGap
                         /\ ((Presented + 1) - 1) * MinGap = t + MinGap
    <3>. DEFINE P == Presented
    <3>. HIDE DEF P
    <3>1. P \in Nat
      BY <2>5 DEF P
    <3>2. (P - 1) * MinGap \in Int /\ ((P + 1) - 1) * MinGap = (P - 1) * MinGap + MinGap
      BY <1>3, <3>1
    <3>. QED  BY <3>2 DEF P
  <2>7. CASE Rising'
    <3>1. (Presented' - 1) * MinGap = t + MinGap
      BY <2>4, <2>6, <2>7
    <3>. QED  BY <1>3, <1>4, <1>7, <2>2, <2>3, <2>6, <2>7, <3>1
  <2>8. CASE ~Rising'
    <3>1. (Presented' - 1) * MinGap = t
      BY <2>4, <2>5, <2>6, <2>8
    <3>. QED  BY <1>3, <1>4, <1>7, <2>2, <2>3, <2>6, <2>8, <3>1
  <2>. QED  BY <2>7, <2>8
<1>. QED  BY <1>8, <1>9

-----------------------------------------------------------------------------
(* A block of output is drained before the next one is there *)

LEMMA DrainsInTimeStep ==
  ASSUME HashTurn
  PROVE  DrainsInTime'
<1>. SUFFICES ASSUME state' = "SQUEEZE"
              PROVE  /\ ~dout_buf_available' => word_cnt' = 0
                     /\ dout_buf_available' /\ bus'.ready =>
                          ~keccak_ready' /\ counter_nr_rounds' = word_cnt'
  BY DEF DrainsInTime
<1>1. /\ TypeOK /\ ~bus.start /\ Hashing /\ DrainsInTime /\ word_cnt \in Nat /\ word_cnt < Rate
      /\ dout_buf_available => state = "SQUEEZE"
  BY TurnFacts DEF HashTurn
<1>2. /\ StepFsm(bus) /\ StepCount(bus) /\ StepOutput(bus) /\ StepRounds(bus)
  BY DEF HashTurn, Cycle
<1>3. state \in {"LAST_FULL", "SQUEEZE"}
  BY <1>1, <1>2 DEF StepFsm, FsmNext, Hashing, TypeOK, FsmState
<1>4. AllTaken
  BY <1>3, TurnFacts DEF Progress, LastBlockFull, Squeezing
<1>5. ~DinReady(bus) /\ ~bus.hold
  BY <1>3, <1>4, AfterLast
<1>6. CASE state = "LAST_FULL"
  <2>1. ~BufEn(bus) /\ word_cnt = 0
    BY <1>5, <1>6, TurnFacts DEF BufEn, Progress, LastBlockFull
  <2>2. word_cnt' = 0 /\ ~dout_buf_available'
    BY <1>1, <1>2, <1>5, <1>6, <2>1 DEF StepCount, StepOutput, BufOverflow, KeccakSqueeze
  <2>. QED  BY <2>2
<1>7. CASE state = "SQUEEZE" /\ ~dout_buf_available
  <2>1. ~BufEn(bus) /\ word_cnt = 0
    BY <1>1, <1>5, <1>7 DEF BufEn, DrainsInTime
  <2>2. word_cnt' = 0
    BY <1>1, <1>2, <1>5, <2>1 DEF StepCount, BufOverflow
  <2>3. CASE KeccakSqueeze(bus)
    <3>1. keccak_ready
      BY <1>1, <2>3 DEF KeccakSqueeze, KeccakReady
    <3>2. counter_nr_rounds' = 0 /\ ~keccak_ready'
      BY <1>1, <1>2, <2>3, <3>1 DEF StepRounds
    <3>3. dout_buf_available'
      BY <1>1, <1>2, <1>5, <2>3 DEF StepOutput
    <3>. QED  BY <2>2, <3>2, <3>3
  <2>4. CASE ~KeccakSqueeze(bus)
    <3>1. ~dout_buf_available'
      BY <1>1, <1>2, <1>5, <1>7, <2>4 DEF StepOutput
    <3>. QED  BY <2>2, <3>1
  <2>. QED  BY <2>3, <2>4
<1>8. CASE state = "SQUEEZE" /\ dout_buf_available /\ ~bus.ready
  <2>1. Len(absorbed) > PaddedBlocks(msg)
    BY <1>8, TurnFacts DEF Progress, Squeezing
  <2>2. PaddedBlocks(msg) \in Nat /\ Len(absorbed) \in Nat
    BY <1>1, TurnFacts, BlocksByDelimiter
  <2>3. ~ClientAsk
    BY <2>1, <2>2 DEF ClientAsk, Outputs
  <2>4. ~bus'.ready
    BY <1>8, <2>3, TurnFacts
       DEF HashTurn, Input, ClientStep, ClientStart, ClientRelease, ClientRaise, ClientLower,
           ClientStopAsking, ClientPause, ClientResume, ClientWait
  <2>5. dout_buf_available'
    BY <1>1, <1>2, <1>5, <1>8 DEF StepOutput
  <2>. QED  BY <2>4, <2>5
<1>9. CASE state = "SQUEEZE" /\ dout_buf_available /\ bus.ready
  <2>1. ~keccak_ready /\ counter_nr_rounds = word_cnt
    BY <1>1, <1>9 DEF DrainsInTime
  <2>2. ~KeccakSqueeze(bus) /\ ~KeccakStart(bus)
    BY <1>1, <1>9, <2>1 DEF KeccakSqueeze, KeccakStart, KeccakReady
  <2>3. ~LastRound
    <3>1. word_cnt < BufWords /\ BufWords < Rounds /\ BufWords \in Nat /\ Rounds \in Nat
      BY <1>1, RateIs, SizeAssumption
    <3>. QED  BY <1>1, <2>1, <3>1 DEF LastRound
  <2>4. counter_nr_rounds' = word_cnt + 1 /\ ~keccak_ready'
    BY <1>1, <1>2, <1>5, <2>1, <2>2, <2>3 DEF StepRounds
  <2>5. BufEn(bus) /\ WordCntNext(bus) = word_cnt + 1
    BY <1>9 DEF BufEn, WordCntNext
  <2>6. CASE word_cnt + 1 = Rate
    <3>1. word_cnt' = 0 /\ ~dout_buf_available'
      BY <1>1, <1>2, <1>5, <1>9, <2>2, <2>5, <2>6 DEF StepCount, StepOutput, BufOverflow
    <3>. QED  BY <3>1
  <2>7. CASE word_cnt + 1 # Rate
    <3>1. word_cnt' = word_cnt + 1 /\ dout_buf_available'
      BY <1>1, <1>2, <1>5, <1>9, <2>5, <2>7 DEF StepCount, StepOutput, BufOverflow
    <3>. QED  BY <2>4, <3>1
  <2>. QED  BY <2>6, <2>7
<1>. QED  BY <1>3, <1>6, <1>7, <1>8, <1>9

-----------------------------------------------------------------------------
(* The invariant *)

LEMMA InitStreamInv ==
  ASSUME Init
  PROVE  CoreInv /\ StreamInv
<1>1. CoreInv
  BY InitCoreInv DEF Init
<1>2. /\ msg \in Message /\ sent = msg.full + 1 /\ gap = MinGap
      /\ bus \in [start : {FALSE}, mode : {ResetMode}, din : {1}, valid : {FALSE},
                  last : {FALSE}, bytes : {8}, ready : {FALSE}, hold : {FALSE}]
  BY DEF Init
<1>3. ClientType
  <2>1. ResetMode \in Mode /\ 1 \in Data /\ 8 \in ByteCount /\ MinGap \in Nat /\ MaxFull \in Nat
    BY ModeAssumption, StreamAssumption
  <2>2. bus \in Input
    BY <1>2, <2>1 DEF Input
  <2>3. msg.full \in Nat
    BY <1>2, <2>1 DEF Message
  <2>. QED  BY <1>2, <2>1, <2>2, <2>3 DEF ClientType
<1>4. ClientInv
  BY <1>2 DEF ClientInv, Rising
<1>5. ~Hashing
  BY DEF Init, ShakeInit, Hashing
<1>. QED  BY <1>1, <1>3, <1>4, <1>5 DEF StreamInv

\* A clock in which the engine hashes before and after.
LEMMA HashStep ==
  ASSUME HashTurn, 0 \notin LastBytes
  PROVE  Progress' /\ KeepsAhead' /\ DrainsInTime'
<1>1. state \in {"ABSORB", "FULL", "APPEND", "LAST_FULL", "SQUEEZE"}
  BY TurnFacts DEF HashTurn, Hashing, TypeOK, FsmState
<1>2. Progress'
  BY <1>1, AbsorbStep, FullStep, FullLastStep, AppendStep, LastFullStep, SqueezeStep
<1>. QED  BY <1>2, KeepsAheadStep, DrainsInTimeStep

\* The clock that lets start_i go begins the message.
LEMMA BeginStep ==
  ASSUME CoreInv, StreamInv, bus.start, Cycle(bus), ClientRelease
  PROVE  Progress' /\ KeepsAhead' /\ DrainsInTime'
<1>1. /\ ClientType /\ ClientInv /\ TypeOK
  BY DEF CoreInv, StreamInv
<1>2. bus' = [bus EXCEPT !.start = FALSE] /\ sent' = sent /\ msg' = msg
  BY DEF ClientRelease
<1>3. ~bus'.valid /\ sent = 0
  BY <1>1, <1>2 DEF ClientInv, ClientType, Input
<1>4. /\ state' = "ABSORB" /\ word_cnt' = 0 /\ absorbed' = << >> /\ keccak_ready' = TRUE
      /\ last_data' = FALSE
  BY DEF Cycle, StepFsm, StepCount, StepLanes, StepRounds, StepLast
<1>5. ~Rising' /\ Taken' = 0
  BY <1>2, <1>3 DEF Rising, Taken
<1>6. Holds(word_cnt)'
  BY <1>4 DEF Holds, HoldsIn
<1>7. AbsorbsPaddedMessage'
  BY <1>4 DEF AbsorbsPaddedMessage
<1>8. 0 <= msg'.full
  BY <1>1, <1>2, MessageType
<1>9. Rate' * Len(absorbed') + word_cnt' = 0
  <2>1. mode_reg' \in Mode
    BY <1>1, <1>2 DEF Cycle, StepFsm, ClientType, Input
  <2>2. Rate' \in Nat
    BY <2>1, SizeAssumption DEF Rate
  <2>3. Len(absorbed') = 0
    BY <1>4
  <2>4. \A r \in Nat : r * 0 = 0
    OBVIOUS
  <2>5. Rate' * Len(absorbed') = 0
    BY <2>2, <2>3, <2>4, Zenon
  <2>. QED  BY <1>4, <2>5
<1>10. Absorbing'
  BY <1>4, <1>5, <1>6, <1>8, <1>9 DEF Absorbing
<1>. QED
  BY <1>4, <1>7, <1>10
     DEF Progress, BlockFull, Appending, LastBlockFull, Squeezing, KeepsAhead, DrainsInTime

LEMMA NextStreamInv ==
  ASSUME 0 \notin LastBytes, CoreInv, StreamInv, [Next]_vars
  PROVE  CoreInv' /\ StreamInv'
<1>1. CASE UNCHANGED vars
  <2>1. CoreInv'
    BY <1>1 DEF vars, shakeVars, CoreInv, TypeOK, Handshake, CounterBelowRate,
                RoundsComplete, PulseShowsWholeBlock, Rate, OutputBuf
  <2>2. ClientType' /\ ClientInv'
    BY <1>1 DEF vars, shakeVars, StreamInv, ClientType, ClientInv, Rising
  <2>3. Hashing' = Hashing /\ (Progress <=> Progress') /\ (DrainsInTime <=> DrainsInTime')
    BY <1>1, PaddingStays
       DEF vars, shakeVars, Hashing, Progress, DrainsInTime, AbsorbsPaddedMessage, Absorbing,
           BlockFull, Appending, LastBlockFull, Squeezing, AllTaken, Ends, Holds, HoldsIn,
           Taken, Rising
  <2>4. KeepsAhead <=> KeepsAhead'
    BY <1>1 DEF vars, shakeVars, KeepsAhead, Presented, Rising, Rate
  <2>. QED  BY <2>1, <2>2, <2>3, <2>4 DEF StreamInv
<1>2. CASE Next
  <2>1. Cycle(bus) /\ ClientStep
    BY <1>2 DEF Next, Start, Release, Raise, Lower, Ask, Stop, Pause, Resume, Wait, ClientStep
  <2>2. ClientType /\ ClientInv /\ bus \in Input
    BY DEF StreamInv, ClientType
  <2>3. CoreInv'
    BY <2>1, <2>2, CycleCoreInv
  <2>4. ClientType' /\ ClientInv'
    <3>1. din_valid_d' = bus.valid
      BY <2>1 DEF Cycle, StepOutput
    <3>. QED  BY <2>1, <2>2, <3>1, ClientTypeStep, ClientInvStep
  <2>5. ASSUME Hashing' PROVE Progress' /\ KeepsAhead' /\ DrainsInTime'
    <3>1. ~bus'.start /\ state' # "IDLE"
      BY <2>5 DEF Hashing
    <3>2. CASE bus.start
      <4>1. ClientRelease
        BY <2>1, <2>2, <3>1, <3>2
           DEF ClientStep, ClientStart, ClientRaise, ClientLower, ClientAsk, ClientStopAsking,
               ClientPause, ClientResume, ClientWait, ClientInv, Input
      <4>. QED  BY <2>1, <3>2, <4>1, BeginStep
    <3>3. CASE ~bus.start
      <4>1. state # "IDLE"
        BY <2>1, <3>1, <3>3 DEF Cycle, StepFsm, FsmNext
      <4>2. HashTurn
        BY <2>1, <3>1, <3>3, <4>1 DEF HashTurn, Hashing
      <4>. QED  BY <4>2, HashStep
    <3>. QED  BY <3>2, <3>3
  <2>. QED  BY <2>3, <2>4, <2>5 DEF StreamInv
<1>. QED  BY <1>1, <1>2

LEMMA StreamInvariant ==
  ASSUME 0 \notin LastBytes
  PROVE  Spec => [](CoreInv /\ StreamInv)
<1>1. CoreInv /\ StreamInv /\ [Next]_vars => CoreInv' /\ StreamInv'
  BY NextStreamInv
<1>. QED  BY <1>1, InitStreamInv, PTL DEF Spec

\* Whatever the rates and the rounds, and however the client times its words,
\* pauses, stops or starts over, the lanes absorb the padding of the message,
\* block by block (shake_top.v:153-246, 289-411).  The last word has a byte:
\* the driver sends 1..8.
THEOREM AbsorbsRightly ==
  ASSUME 0 \notin LastBytes
  PROVE  Spec => []AbsorbsPaddedMessage
<1>1. CoreInv /\ StreamInv => AbsorbsPaddedMessage
  BY DEF StreamInv, Progress, AbsorbsPaddedMessage
<1>. QED  BY <1>1, StreamInvariant, PTL

\* The output pulse comes after the whole message and shows a squeeze of it
\* (shake_top.v:267-287, 442-449).
THEOREM PulseRightly ==
  ASSUME 0 \notin LastBytes
  PROVE  Spec => []PulseAfterWholeMessage
<1>1. CoreInv /\ StreamInv => PulseAfterWholeMessage
  <2>. SUFFICES ASSUME CoreInv, StreamInv, Hashing, DoutFullValid(bus)
                PROVE  /\ sent = msg.full + 1
                       /\ Len(absorbed) > PaddedBlocks(msg)
                       /\ data_buf = OutputBuf(Len(absorbed) - 1)
    BY DEF PulseAfterWholeMessage
  <2>1. dout_buf_available /\ ~dout_valid_o_reg
    BY DEF DoutFullValid
  <2>2. state = "SQUEEZE" /\ data_buf = OutputBuf(Len(rounds) - 1) /\ Len(absorbed) = Len(rounds)
    BY <2>1 DEF CoreInv, PulseShowsWholeBlock, TypeOK
  <2>. QED  BY <2>1, <2>2 DEF StreamInv, Progress, Squeezing, AllTaken
<1>. QED  BY <1>1, StreamInvariant, PTL

\* A client that keeps the rising edges of din_valid_i MinGap clocks apart
\* never finds the engine unable to take its word (shake_top.v:117-151).
THEOREM NeverDrops ==
  ASSUME 0 \notin LastBytes
  PROVE  Spec => []NeverDropsAWord
<1>1. CoreInv /\ StreamInv => NeverDropsAWord
  <2>. SUFFICES ASSUME CoreInv, StreamInv, Hashing, Rising
                PROVE  DinReady(bus) /\ ~bus.hold
    BY DEF NeverDropsAWord, Rising
  <2>1. TypeOK /\ ClientInv /\ Progress
    BY DEF CoreInv, StreamInv
  <2>2. ~AllTaken
    BY DEF AllTaken
  <2>3. state = "ABSORB" \/ (state = "FULL" /\ ~last_data)
    BY <2>1, <2>2
       DEF Hashing, TypeOK, FsmState, Progress, BlockFull, Appending, LastBlockFull, Squeezing
  <2>4. state = "FULL" => keccak_ready
    BY ReadyInTime
  <2>. QED  BY <2>1, <2>3, <2>4 DEF DinReady, KeccakReady, ClientInv
<1>. QED  BY <1>1, StreamInvariant, PTL

-----------------------------------------------------------------------------
(* The engine implements the sponge *)

\* What the engine is to a client of the sponge.
Job == [msg |-> msg, mode |-> IF bus.start THEN bus.mode ELSE mode_reg]

Delivered == IF ~Hashing \/ Len(absorbed) < PaddedBlocks(msg) THEN 0
             ELSE Len(absorbed) - PaddedBlocks(msg)

Pulse == Hashing /\ DoutFullValid(bus)

OutputBlock(n) == [msg |-> Job.msg, mode |-> Job.mode, block |-> n]

\* One step of the sponge, or none.
SpongeTurn ==
  \/ Sponge!StartMessage \/ Sponge!GiveWord \/ Sponge!ShowBlock \/ Sponge!HideBlock
  \/ UNCHANGED Sponge!spongeVars

LEMMA Started ==
  ASSUME NEW m \in Message, NEW x \in Mode, Job' = [msg |-> m, mode |-> x], sent' = 0,
         Delivered' = 0, Shown' = << >>
  PROVE  Sponge!StartMessage
BY DEF Sponge!StartMessage, Job, Delivered

LEMMA Given ==
  ASSUME Job' = Job, sent <= msg.full, sent' = sent + 1, Delivered' = Delivered, Shown' = << >>
  PROVE  Sponge!GiveWord
BY DEF Sponge!GiveWord, Job, Delivered

LEMMA ShownOnce ==
  ASSUME Job' = Job, sent = msg.full + 1, sent' = sent, Delivered' = Delivered + 1,
         Shown' = << OutputBlock(Delivered + 1) >>
  PROVE  Sponge!ShowBlock
BY DEF Sponge!ShowBlock, Sponge!Block, Job, Delivered, OutputBlock

LEMMA Hidden ==
  ASSUME Job' = Job, sent' = sent, Delivered' = Delivered, Shown' = << >>
  PROVE  Sponge!HideBlock \/ UNCHANGED Sponge!spongeVars
BY DEF Sponge!HideBlock, Sponge!spongeVars, Job, Delivered

\* The blocks of a message are a number.
LEMMA BlocksType == CoreInv /\ StreamInv => PaddedBlocks(msg) \in Nat /\ Len(absorbed) \in Nat
<1>. SUFFICES ASSUME CoreInv, StreamInv
              PROVE  PaddedBlocks(msg) \in Nat /\ Len(absorbed) \in Nat
  OBVIOUS
<1>1. TypeOK /\ ClientType /\ 0 \in Nat
  BY DEF CoreInv, StreamInv
<1>2. Len(absorbed) \in Nat
  BY <1>1 DEF TypeOK
<1>. QED  BY <1>1, <1>2, BlocksByDelimiter

\* Nothing is delivered before the engine squeezes.
LEMMA NothingDelivered ==
  CoreInv /\ StreamInv => (state # "SQUEEZE" => Delivered = 0 /\ ~Pulse)
<1>. SUFFICES ASSUME CoreInv, StreamInv, state # "SQUEEZE"
              PROVE  Delivered = 0 /\ ~Pulse
  OBVIOUS
<1>1. ~Pulse
  BY DEF Pulse, DoutFullValid, CoreInv, Handshake
<1>2. CASE ~Hashing
  BY <1>1, <1>2 DEF Delivered
<1>3. CASE Hashing
  <2>. DEFINE l == Len(absorbed)
              p == Rate * l
  <2>1. TypeOK /\ ClientType /\ Progress
    BY <1>3 DEF CoreInv, StreamInv
  <2>2. l \in Nat /\ word_cnt \in Nat
    BY <2>1 DEF TypeOK
  <2>3. Rate \in Nat /\ Rate >= 2
    BY <2>1, RateIs
  <2>4. p \in Nat /\ Rate * (l + 1) = p + Rate
    BY <2>1, <2>2, WordsOfBlocks
  <2>5. msg.full \in Nat /\ DelimPosition(msg) \in {msg.full + 1, msg.full + 2}
    BY <2>1, MessageType
  <2>6. state \in {"ABSORB", "FULL", "APPEND", "LAST_FULL"}
    BY <1>3, <2>1 DEF Hashing, TypeOK, FsmState
  <2>7. ASSUME state = "ABSORB" PROVE p < DelimPosition(msg)
    <3>1. Taken <= msg.full /\ Taken = p + word_cnt
      BY <2>1, <2>7 DEF Progress, Absorbing
    <3>. HIDE DEF p
    <3>. QED  BY <2>2, <2>4, <2>5, <3>1
  <2>8. ASSUME state = "FULL" PROVE p < DelimPosition(msg)
    <3>1. (Taken <= msg.full /\ Taken = Rate * (l + 1)) \/ msg.full + 1 = Rate * (l + 1)
      BY <2>1, <2>8 DEF Progress, BlockFull
    <3>. HIDE DEF p
    <3>2. (Taken <= msg.full /\ Taken = p + Rate) \/ msg.full + 1 = p + Rate
      BY <2>4, <3>1
    <3>. QED  BY <2>3, <2>4, <2>5, <3>2
  <2>9. ASSUME state \in {"APPEND", "LAST_FULL"} PROVE p < DelimPosition(msg)
    BY <2>1, <2>9 DEF Progress, Appending, LastBlockFull, Ends
  <2>10. p < DelimPosition(msg)
    BY <2>6, <2>7, <2>8, <2>9
  <2>11. l < PaddedBlocks(msg)
    BY <2>1, <2>2, <2>10, BlocksByDelimiter
  <2>. QED  BY <1>1, <2>11 DEF Delivered
<1>. QED  BY <1>2, <1>3

\* What a client reads: in the clock of the pulse the newest block of the
\* output, in the others nothing.
LEMMA ShownIs ==
  CoreInv /\ StreamInv =>
    Shown = IF Pulse THEN << OutputBlock(Delivered) >> ELSE << >>
<1>. SUFFICES ASSUME CoreInv, StreamInv
              PROVE  Shown = IF Pulse THEN << OutputBlock(Delivered) >> ELSE << >>
  OBVIOUS
<1>1. CASE ~Pulse
  <2>1. bus.start \/ ~DoutFullValid(bus)
    BY <1>1 DEF Pulse, Hashing, DoutFullValid, CoreInv, Handshake
  <2>. QED  BY <1>1, <2>1 DEF Shown
<1>2. CASE Pulse
  <2>. DEFINE n == Len(absorbed) - 1
  <2>1. Hashing /\ ~bus.start /\ DoutFullValid(bus) /\ dout_buf_available /\ ~dout_valid_o_reg
    BY <1>2 DEF Pulse, Hashing, DoutFullValid
  <2>2. /\ state = "SQUEEZE" /\ data_buf = OutputBuf(Len(rounds) - 1)
        /\ Len(absorbed) = Len(rounds)
    BY <2>1 DEF CoreInv, PulseShowsWholeBlock, TypeOK
  <2>3. Len(absorbed) > PaddedBlocks(msg) /\ AbsorbsPaddedMessage
    BY <2>1, <2>2 DEF StreamInv, Progress, Squeezing
  <2>4. PaddedBlocks(msg) \in Nat /\ Len(absorbed) \in Nat
    BY BlocksType
  <2>5. n \in 0..Len(absorbed) /\ n >= PaddedBlocks(msg) /\ n \in Nat
    BY <2>3, <2>4
  <2>6. ASSUME NEW k \in 0..Len(absorbed), data_buf = OutputBuf(k) PROVE k = n
    <3>1. 1 \in 1..BufWords /\ 1 <= Rate
      <4>1. TypeOK
        BY DEF CoreInv
      <4>. QED  BY <4>1, RateIs
    <3>2. OutputBuf(k)[1] = OutWord(k, 1) /\ OutputBuf(n)[1] = OutWord(n, 1)
      BY <3>1 DEF OutputBuf
    <3>3. OutWord(k, 1) = OutWord(n, 1)
      BY <2>2, <2>6, <3>2
    <3>. HIDE DEF n
    <3>4. OutWord(k, 1).squeeze = k /\ OutWord(n, 1).squeeze = n
      BY DEF OutWord
    <3>. QED  BY <3>3, <3>4
  <2>7. data_buf = OutputBuf(n)
    BY <2>2
  <2>. HIDE DEF n
  <2>8. (CHOOSE k \in 0..Len(absorbed) : data_buf = OutputBuf(k)) = n
    BY <2>5, <2>6, <2>7
  <2>9. Shown = << Squeezed(n) >>
    BY <2>1, <2>5, <2>7, <2>8 DEF Shown
  <2>10. ASSUME NEW b \in 1..n
         PROVE  /\ rounds[b] = Rounds
                /\ absorbed[b] = IF b <= PaddedBlocks(msg) THEN PaddedBlock(msg, b) ELSE NoBlock
    <3>1. b \in 1..Len(absorbed) /\ b # Len(rounds)
      BY <2>2, <2>4, <2>10 DEF n
    <3>2. rounds[b] = Rounds
      BY <2>2, <3>1 DEF CoreInv, RoundsComplete
    <3>3. absorbed[b] = IF b <= PaddedBlocks(msg) THEN PaddedBlock(msg, b) ELSE NoBlock
      BY <2>1, <2>3, <3>1 DEF AbsorbsPaddedMessage
    <3>. QED  BY <3>2, <3>3
  <2>11. Squeezed(n) = [msg |-> msg, mode |-> mode_reg, block |-> n - PaddedBlocks(msg) + 1]
    BY <2>5, <2>10 DEF Squeezed
  <2>12. n - PaddedBlocks(msg) + 1 = Delivered
    BY <2>1, <2>3, <2>4 DEF Delivered, n
  <2>13. Job.msg = msg /\ Job.mode = mode_reg
    BY <2>1 DEF Job
  <2>. QED  BY <1>2, <2>9, <2>11, <2>12, <2>13 DEF OutputBlock
<1>. QED  BY <1>1, <1>2

\* One clock of the engine and its client is a step of the sponge or none.
LEMMA SpongeStep ==
  ASSUME 0 \notin LastBytes, CoreInv, StreamInv, CoreInv', StreamInv', [Next]_vars
  PROVE  SpongeTurn
<1>. USE DEF SpongeTurn
<1>2. /\ ClientType /\ ClientInv /\ TypeOK
      /\ ClientType' /\ ClientInv' /\ TypeOK'
  BY DEF CoreInv, StreamInv
<1>3. /\ Shown = IF Pulse THEN << OutputBlock(Delivered) >> ELSE << >>
      /\ Shown' = IF Pulse' THEN << OutputBlock(Delivered)' >> ELSE << >>
  <2>1. (CoreInv /\ StreamInv =>
           Shown = IF Pulse THEN << OutputBlock(Delivered) >> ELSE << >>)'
    BY ShownIs, PTL
  <2>. QED  BY <2>1, ShownIs
<1>4. /\ state # "SQUEEZE" => Delivered = 0 /\ ~Pulse
      /\ state' # "SQUEEZE" => Delivered' = 0 /\ ~Pulse'
  <2>1. (CoreInv /\ StreamInv => (state # "SQUEEZE" => Delivered = 0 /\ ~Pulse))'
    BY NothingDelivered, PTL
  <2>. QED  BY <2>1, NothingDelivered
<1>5. PaddedBlocks(msg) \in Nat /\ Len(absorbed) \in Nat
  BY BlocksType
<1>6. CASE UNCHANGED vars
  <2>1. Job' = Job /\ sent' = sent /\ Hashing' = Hashing /\ Pulse' = Pulse
        /\ PaddedBlocks(msg)' = PaddedBlocks(msg) /\ absorbed' = absorbed
    BY <1>6, PaddingStays
       DEF vars, shakeVars, Job, Hashing, Pulse, DoutFullValid
  <2>2. Delivered' = Delivered /\ OutputBlock(Delivered)' = OutputBlock(Delivered)
    BY <2>1 DEF Delivered, OutputBlock
  <2>3. Shown' = Shown
    BY <1>3, <2>1, <2>2
  <2>4. UNCHANGED Sponge!spongeVars
    BY <2>1, <2>2, <2>3 DEF Sponge!spongeVars, Job, Delivered
  <2>. QED  BY <2>4
<1>. SUFFICES ASSUME Next PROVE SpongeTurn
  BY <1>6
<1>7. Cycle(bus) /\ ClientStep
  BY DEF Next, Start, Release, Raise, Lower, Ask, Stop, Pause, Resume, Wait, ClientStep
<1>8. /\ StepFsm(bus) /\ StepLanes(bus) /\ StepOutput(bus)
      /\ din_valid_d' = bus.valid
  BY <1>7 DEF Cycle, StepOutput
<1>9. CASE ClientStart
  <2>1. PICK m \in Mode, x \in Message : bus'.start /\ bus'.mode = m /\ msg' = x
    BY <1>2, <1>9 DEF ClientStart, ClientType, Input
  <2>2. Job' = [msg |-> x, mode |-> m] /\ ~Hashing' /\ sent' = 0
    BY <1>9, <2>1 DEF Job, Hashing, ClientStart
  <2>3. Delivered' = 0 /\ ~Pulse'
    BY <2>2 DEF Delivered, Pulse
  <2>4. Sponge!StartMessage
    BY <1>3, <2>2, <2>3, Started
  <2>. QED  BY <2>4
<1>10. CASE bus.start /\ ~ClientStart
  <2>1. msg' = msg /\ sent' = sent /\ bus'.mode = bus.mode
    BY <1>2, <1>7, <1>10
       DEF ClientStep, ClientRelease, ClientRaise, ClientLower, ClientAsk, ClientStopAsking,
           ClientPause, ClientResume, ClientWait, ClientType, ClientInv, Input
  <2>2. mode_reg' = bus.mode /\ state' = "ABSORB"
    BY <1>8, <1>10 DEF StepFsm
  <2>3. Job' = Job
    BY <1>10, <2>1, <2>2 DEF Job
  <2>4. Delivered = 0 /\ ~Pulse
    BY <1>10 DEF Delivered, Pulse, Hashing
  <2>5. Delivered' = 0 /\ ~Pulse'
    BY <1>4, <2>2
  <2>. QED  BY <1>3, <2>1, <2>3, <2>4, <2>5, Hidden
<1>11. CASE ~bus.start /\ ~ClientStart
  <2>1. ~bus'.start
    BY <1>2, <1>7, <1>11
       DEF ClientStep, ClientRelease, ClientRaise, ClientLower, ClientAsk, ClientStopAsking,
           ClientPause, ClientResume, ClientWait, ClientType, Input
  <2>2. /\ msg' = msg
        /\ Rising' => sent' = sent + 1 /\ sent <= msg.full
        /\ ~Rising' => sent' = sent
    BY <1>2, <1>7, <1>8, <1>11, <2>1, ClientMoves
  <2>3. mode_reg' = mode_reg
    BY <1>8, <1>11 DEF StepFsm
  <2>4. Job' = Job /\ PaddedBlocks(msg)' = PaddedBlocks(msg)
    BY <1>11, <2>1, <2>2, <2>3, PaddingStays DEF Job
  <2>5. CASE state = "IDLE"
    <3>1. state' = "IDLE"
      BY <1>8, <1>11, <2>5 DEF StepFsm, FsmNext
    <3>2. Delivered = 0 /\ Delivered' = 0 /\ ~Pulse'
      BY <1>4, <2>5, <3>1
    <3>3. Rising' => Sponge!GiveWord
      BY <1>3, <2>2, <2>4, <3>2, Given
    <3>. QED  BY <1>3, <2>2, <2>4, <3>2, <3>3, Hidden
  <2>6. CASE state # "IDLE"
    <3>1. HashTurn
      BY <1>7, <1>11, <2>1, <2>6 DEF HashTurn, Hashing
    <3>2. /\ Progress /\ DrainsInTime /\ Hashing
          /\ dout_buf_available => state = "SQUEEZE"
      BY <3>1, TurnFacts DEF HashTurn
    <3>3. Hashing'
      BY <1>8, <1>11, <1>2, <2>1, <2>6 DEF StepFsm, FsmNext, Hashing, TypeOK, FsmState
    <3>4. Progress'
      BY <3>3 DEF StreamInv
    <3>5. CASE state' # "SQUEEZE"
      <4>1. state # "SQUEEZE"
        BY <1>8, <1>11, <3>5 DEF StepFsm, FsmNext
      <4>2. Delivered = 0 /\ Delivered' = 0 /\ ~Pulse'
        BY <1>4, <3>5, <4>1
      <4>3. Rising' => Sponge!GiveWord
        BY <1>3, <2>2, <2>4, <4>2, Given
      <4>. QED  BY <1>3, <2>2, <2>4, <4>2, <4>3, Hidden
    <3>6. CASE state' = "SQUEEZE"
      <4>1. /\ ~Rising' /\ sent' = sent /\ sent' = msg'.full + 1
            /\ Len(absorbed') >= PaddedBlocks(msg)'
        BY <2>2, <3>4, <3>6 DEF Progress, Squeezing, AllTaken
      <4>2. ~bus'.hold
        <5>1. ~(sent' <= msg'.full)
          BY <4>1, <1>2, MessageType, <2>2
        <5>. QED  BY <1>2, <5>1 DEF ClientInv
      <4>3. Delivered' = Len(absorbed') - PaddedBlocks(msg)
        BY <1>5, <2>4, <3>3, <4>1, MessageType DEF Delivered
      <4>4. CASE state # "SQUEEZE"
        <5>1. Len(absorbed) < PaddedBlocks(msg)
          <6>1. state = "LAST_FULL"
            BY <1>2, <1>8, <1>11, <2>6, <3>6, <4>4 DEF StepFsm, FsmNext, TypeOK, FsmState
          <6>. QED  BY <1>2, <1>5, <3>2, <6>1, BlocksByDelimiter DEF Progress, LastBlockFull, Ends
        <5>2. ~KeccakSqueeze(bus) /\ ~dout_buf_available
          BY <3>2, <4>4 DEF KeccakSqueeze
        <5>3. Len(absorbed') \in {Len(absorbed), Len(absorbed) + 1}
          BY <1>2, <1>8, <1>11, <5>2 DEF StepLanes, TypeOK
        <5>4. Delivered' = 0
          BY <1>5, <2>4, <4>1, <4>3, <5>1, <5>3
        <5>5. ~dout_buf_available'
          BY <1>8, <1>11, <5>2 DEF StepOutput
        <5>6. ~Pulse'
          BY <5>5 DEF Pulse, DoutFullValid
        <5>. QED  BY <1>3, <1>4, <2>4, <4>1, <4>4, <5>4, <5>6, Hidden
      <4>5. CASE state = "SQUEEZE"
        <5>1. Delivered = Len(absorbed) - PaddedBlocks(msg) /\ sent = msg.full + 1
          BY <1>5, <3>2, <4>5 DEF Delivered, Progress, Squeezing, AllTaken
        <5>2. ~KeccakStart(bus)
          BY <4>5 DEF KeccakStart
        <5>3. CASE KeccakSqueeze(bus)
          <6>1. ~dout_buf_available
            BY <1>11, <3>2, <4>5, <5>3 DEF KeccakSqueeze, KeccakReady, DrainsInTime
          <6>2. Len(absorbed') = Len(absorbed) + 1
            BY <1>2, <1>8, <1>11, <5>2, <5>3 DEF StepLanes, TypeOK
          <6>3. dout_buf_available' /\ ~dout_valid_o_reg'
            BY <1>8, <1>11, <5>3, <6>1 DEF StepOutput, KeccakSqueeze
          <6>4. Pulse'
            BY <3>3, <4>2, <6>3 DEF Pulse, DoutFullValid
          <6>5. Delivered' = Delivered + 1
            BY <1>5, <4>3, <5>1, <6>2
          <6>6. OutputBlock(Delivered)' = OutputBlock(Delivered + 1)
            BY <2>4, <6>5 DEF OutputBlock
          <6>. QED  BY <1>3, <2>4, <4>1, <5>1, <6>4, <6>5, <6>6, ShownOnce
        <5>4. CASE ~KeccakSqueeze(bus)
          <6>1. absorbed' = absorbed
            BY <1>8, <1>11, <5>2, <5>4 DEF StepLanes
          <6>2. dout_buf_available' => dout_valid_o_reg'
            BY <1>8, <1>11, <5>4 DEF StepOutput
          <6>3. ~Pulse'
            BY <6>2 DEF Pulse, DoutFullValid
          <6>4. Delivered' = Delivered
            BY <4>3, <5>1, <6>1
          <6>. QED  BY <1>3, <2>4, <4>1, <6>3, <6>4, Hidden
        <5>. QED  BY <5>3, <5>4
      <4>. QED  BY <4>4, <4>5
    <3>. QED  BY <3>5, <3>6
  <2>. QED  BY <2>5, <2>6
<1>. QED  BY <1>9, <1>10, <1>11

\* Seen from its ports the engine is the sponge of SpongeSpec: it hashes one
\* message at a time and shows the blocks of its output once each, in order.
THEOREM SpongeRefinement ==
  ASSUME 0 \notin LastBytes
  PROVE  Spec => ImplementsSponge
<1>1. Init => Sponge!Init
  <2>. SUFFICES ASSUME Init PROVE Sponge!Init
    OBVIOUS
  <2>1. CoreInv /\ StreamInv
    BY InitStreamInv
  <2>2. state = "IDLE" /\ ~bus.start /\ msg \in Message /\ sent = msg.full + 1
        /\ mode_reg \in Mode
    BY ModeAssumption DEF Init, ShakeInit
  <2>3. Delivered = 0 /\ Shown = << >>
    BY <2>1, <2>2, NothingDelivered, ShownIs
  <2>. QED  BY <2>2, <2>3 DEF Sponge!Init, Delivered
<1>2. CoreInv /\ StreamInv /\ (CoreInv /\ StreamInv)' /\ [Next]_vars
        => [Sponge!Next]_(Sponge!spongeVars)
  BY SpongeStep DEF SpongeTurn, Sponge!Next
<1>. QED  BY <1>1, <1>2, StreamInvariant, PTL DEF Spec, ImplementsSponge, Sponge!Spec
=============================================================================
