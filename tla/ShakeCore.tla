----------------------------- MODULE ShakeCore -----------------------------
(***************************************************************************)
(* The sponge engine of the accelerator: shake_top.v (the FSM, the shift   *)
(* buffer that collects a block and later holds the output, the output     *)
(* pulse) with its instance of keccak_top.v (the permutation, one round    *)
(* per clock).  One step is one rising edge of clk_i; the ports sampled by *)
(* that edge are the record "in".                                          *)
(*                                                                         *)
(* Data is symbolic.  A 64-bit word of data_buf is one of                  *)
(*   - eight bytes of the message,                                         *)
(*   - n < 8 bytes of the message, the domain delimiter and zeros,         *)
(*   - the delimiter and zeros,                                            *)
(*   - zeros,                                                              *)
(*   - word "index" of the lanes after the first "squeeze" permutations.   *)
(* The lanes of keccak_top (reg_data) are the blocks XORed into them since *)
(* the last reset ("absorbed") and, for each, the number of rounds applied *)
(* after it ("rounds").  byte_cnt is counted in words: it only ever grows  *)
(* by 8 bytes and every rate is a multiple of 8.                           *)
(***************************************************************************)
EXTENDS Integers, Sequences

CONSTANTS
  Mode,        \* values of mode_i
  XofMode,     \* those that use the SHAKE delimiter 8'h1F, not 8'h06
  ResetMode,   \* mode_reg after reset (MODE_SHAKE256)
  RateWords,   \* rate of each mode in 64-bit words: 21, 17, 17, 9, 18, 13
  BufWords,    \* words in data_buf: 21
  Rounds,      \* rounds of a permutation: 24
  Data,        \* values of din_i
  ByteCount    \* values of last_din_byte_i, 0 to 8

ASSUME ModeAssumption ==
  /\ XofMode \subseteq Mode
  /\ ResetMode \in Mode

ASSUME SizeAssumption ==
  /\ BufWords \in Nat \ {0}
  /\ RateWords \in [Mode -> 1..BufWords]
  /\ Rounds \in Nat
  /\ BufWords < Rounds

ASSUME ByteCountAssumption == ByteCount \subseteq 0..8

VARIABLES
  state,               \* the FSM
  mode_reg,            \* mode latched by start_i
  word_cnt,            \* byte_cnt / 8: words of the block collected or sent
  data_buf,            \* the shift register, oldest word first
  last_data,           \* a word flagged last has been seen
  first_append,        \* the delimiter of a whole-word message is still owed
  last_din_byte,       \* bytes in the last word
  din_valid_d,         \* din_valid_i one clock ago
  dout_buf_available,  \* data_buf holds squeezed words
  dout_valid_o_reg,    \* dout_buf_available one clock ago
  keccak_ready,        \* keccak_top is idle
  counter_nr_rounds,   \* round in progress
  absorbed,            \* blocks XORed into the lanes since reset
  rounds               \* rounds applied after each of them

shakeVars == << state, mode_reg, word_cnt, data_buf, last_data, first_append,
                last_din_byte, din_valid_d, dout_buf_available,
                dout_valid_o_reg, keccak_ready, counter_nr_rounds, absorbed,
                rounds >>

FsmState == {"IDLE", "ABSORB", "FULL", "APPEND", "LAST_FULL", "SQUEEZE"}

Input == [start : BOOLEAN, mode : Mode, din : Data, valid : BOOLEAN,
          last : BOOLEAN, bytes : ByteCount, ready : BOOLEAN, hold : BOOLEAN]

-----------------------------------------------------------------------------
(* Words and blocks *)

Delimiter(m) == IF m \in XofMode THEN "1F" ELSE "06"

DataWord(d)       == [data |-> d]
PartWord(d, n, m) == [data |-> d, bytes |-> n, delim |-> Delimiter(m)]
DelimWord(m)      == [delim |-> Delimiter(m)]
ZeroWord          == [zero |-> 0]
OutWord(n, i)     == [squeeze |-> n, index |-> i]

Word == [data : Data]
          \union [data : Data, bytes : 1..7, delim : {"1F", "06"}]
          \union [delim : {"1F", "06"}]
          \union {ZeroWord}
          \union [squeeze : Nat, index : Nat]

BlockSet == [words : [1..BufWords -> Word], final : BOOLEAN]

Rate == RateWords[mode_reg]

\* What is XORed into the lanes: the newest Rate words of the buffer, nothing
\* into the capacity; bit 7 of the last byte is flipped for the final block.
Block ==
  [words |-> [i \in 1..BufWords |-> IF i <= Rate
                                    THEN data_buf[BufWords - Rate + i]
                                    ELSE ZeroWord],
   final |-> state = "LAST_FULL"]

\* A squeeze permutes the lanes again and XORs nothing.
NoBlock == [words |-> [i \in 1..BufWords |-> ZeroWord], final |-> FALSE]

\* data_buf after a squeeze: Rate words of the lanes, zeros below.
OutputBuf(n) ==
  [i \in 1..BufWords |-> IF i <= Rate THEN OutWord(n, i) ELSE ZeroWord]

-----------------------------------------------------------------------------
(* Wires *)

\* start_i is also an asynchronous reset of keccak_top.
KeccakReady(in) == in.start \/ keccak_ready
Permutations(in) == IF in.start THEN 0 ELSE Len(absorbed)

\* Mutant of DinReady: no word is taken while the permutation runs.
DinReadyIdle(in) ==
  \/ state = "ABSORB" /\ KeccakReady(in)
  \/ state = "FULL" /\ KeccakReady(in) /\ ~last_data

DinReady(in) ==
  \/ state = "ABSORB"
  \/ state = "FULL" /\ KeccakReady(in) /\ ~last_data

DinValidPulse(in) == in.valid /\ ~din_valid_d /\ ~in.hold

BufEn(in) ==
  \/ DinReady(in) /\ DinValidPulse(in) /\ (in.last => in.bytes # 0)
  \/ state = "APPEND"
  \/ dout_buf_available /\ in.ready /\ state = "SQUEEZE"

LastSampledDin(in) ==
  IF in.bytes \in 1..7 THEN PartWord(in.din, in.bytes, mode_reg)
                       ELSE DataWord(in.din)

SampledDin(in) ==
  IF DinReady(in) /\ in.valid /\ in.last THEN LastSampledDin(in)
  ELSE IF state = "APPEND"
       THEN IF first_append /\ last_din_byte % 8 = 0 THEN DelimWord(mode_reg)
                                                    ELSE ZeroWord
  ELSE IF state = "SQUEEZE" THEN ZeroWord
  ELSE DataWord(in.din)

WordCntNext(in) ==
  IF state # "SQUEEZE" /\ in.valid /\ in.last /\ in.bytes = 0
  THEN word_cnt ELSE word_cnt + 1

BufOverflow(in) == BufEn(in) /\ WordCntNext(in) = Rate

KeccakStart(in) ==
  state \in {"FULL", "LAST_FULL"} /\ KeccakReady(in) /\ ~in.hold

KeccakSqueeze(in) ==
  /\ state = "SQUEEZE" /\ KeccakReady(in) /\ ~in.hold
  /\ ~dout_buf_available \/ (BufOverflow(in) /\ in.ready)

\* Mutant of DoutFullValid: the level of dout_buf_available, not its edge.
DoutFullLevel(in) == dout_buf_available /\ ~in.hold

\* dout_full_valid_o and dout_full_o in the cycle that samples "in".
DoutFullValid(in) == dout_buf_available /\ ~dout_valid_o_reg /\ ~in.hold

-----------------------------------------------------------------------------
(* Registers: one operator for each clocked block of the two modules *)

\* Mutant of LastFillsBlock: eight bytes are taken to leave room for the
\* delimiter.
LastWordFillsBlock(in) == in.valid /\ in.last /\ word_cnt = Rate - 1

\* The last word ends the block and holds the delimiter.
LastFillsBlock(in) ==
  in.valid /\ in.last /\ in.bytes # 8 /\ word_cnt = Rate - 1

\* Mutant of PaddingOwed: a full block forgets that it held the last word.
PaddingForgotten(in) == in.last /\ in.valid

PaddingOwed(in) == last_data \/ (in.last /\ in.valid)

FsmNext(in) ==
  CASE state = "ABSORB" ->
         IF LastFillsBlock(in) THEN "LAST_FULL"
         ELSE IF BufOverflow(in) THEN "FULL"
         ELSE IF in.valid /\ in.last THEN "APPEND" ELSE "ABSORB"
    [] state = "FULL" /\ KeccakReady(in) ->
         IF PaddingOwed(in) THEN "APPEND" ELSE "ABSORB"
    [] state = "APPEND" /\ BufOverflow(in) -> "LAST_FULL"
    [] state = "LAST_FULL" /\ KeccakReady(in) -> "SQUEEZE"
    [] OTHER -> state

StepFsm(in) ==
  /\ state' = IF in.start THEN "ABSORB"
              ELSE IF in.hold THEN state ELSE FsmNext(in)
  /\ mode_reg' = IF in.start THEN in.mode ELSE mode_reg

StepBuffer(in) ==
  data_buf' =
    IF in.hold THEN data_buf
    ELSE IF KeccakSqueeze(in) THEN OutputBuf(Permutations(in))
    ELSE IF BufEn(in)
         THEN [i \in 1..BufWords |-> IF i < BufWords THEN data_buf[i + 1]
                                                     ELSE SampledDin(in)]
    ELSE data_buf

\* Mutant of StepCount: start_i does not clear the counter.
StepCountNoStart(in) ==
  word_cnt' = IF BufOverflow(in) THEN 0
              ELSE IF BufEn(in) /\ ~in.hold THEN WordCntNext(in) ELSE word_cnt

StepCount(in) ==
  word_cnt' = IF in.start \/ BufOverflow(in) THEN 0
              ELSE IF BufEn(in) /\ ~in.hold THEN WordCntNext(in) ELSE word_cnt

StepLast(in) ==
  IF in.start
  THEN last_data' = FALSE /\ first_append' = FALSE /\ last_din_byte' = 0
  ELSE IF ~in.hold /\ in.last /\ DinReady(in)
  THEN last_data' = TRUE /\ first_append' = TRUE /\ last_din_byte' = in.bytes
  ELSE /\ first_append' = (first_append /\ (state = "APPEND" => in.hold))
       /\ UNCHANGED << last_data, last_din_byte >>

\* Mutant of StepOutput: start_i does not withdraw the output.
StepOutputNoStart(in) ==
  /\ dout_buf_available' =
       IF in.hold THEN dout_buf_available
       ELSE \/ KeccakSqueeze(in)
            \/ dout_buf_available /\ ~(BufOverflow(in) /\ in.ready)
  /\ dout_valid_o_reg' = dout_buf_available
  /\ din_valid_d' = in.valid

\* Mutant of StepOutput: a drained block stays available.
StepOutputStays(in) ==
  /\ dout_buf_available' =
       IF in.start THEN FALSE
       ELSE IF in.hold THEN dout_buf_available
       ELSE KeccakSqueeze(in) \/ dout_buf_available
  /\ dout_valid_o_reg' = dout_buf_available
  /\ din_valid_d' = in.valid

StepOutput(in) ==
  /\ dout_buf_available' =
       IF in.start THEN FALSE
       ELSE IF in.hold THEN dout_buf_available
       ELSE \/ KeccakSqueeze(in)
            \/ dout_buf_available /\ ~(BufOverflow(in) /\ in.ready)
  /\ dout_valid_o_reg' = dout_buf_available
  /\ din_valid_d' = in.valid

\* Mutant of StepLanes: the rounds go on while the round counter is held.
StepLanesHeld(in) ==
  IF in.start
  THEN absorbed' = << >> /\ rounds' = << >>
  ELSE IF KeccakStart(in)
  THEN absorbed' = Append(absorbed, Block) /\ rounds' = Append(rounds, 0)
  ELSE IF KeccakSqueeze(in)
  THEN absorbed' = Append(absorbed, NoBlock) /\ rounds' = Append(rounds, 0)
  ELSE /\ rounds' = IF ~keccak_ready
                    THEN [rounds EXCEPT ![Len(rounds)] = @ + 1] ELSE rounds
       /\ UNCHANGED absorbed

\* keccak_top, reg_data: a load, or one round while it is busy and not held.
StepLanes(in) ==
  IF in.start
  THEN absorbed' = << >> /\ rounds' = << >>
  ELSE IF KeccakStart(in)
  THEN absorbed' = Append(absorbed, Block) /\ rounds' = Append(rounds, 0)
  ELSE IF KeccakSqueeze(in)
  THEN absorbed' = Append(absorbed, NoBlock) /\ rounds' = Append(rounds, 0)
  ELSE /\ rounds' = IF ~keccak_ready /\ ~in.hold
                    THEN [rounds EXCEPT ![Len(rounds)] = @ + 1] ELSE rounds
       /\ UNCHANGED absorbed

\* Mutant of LastRound: one round too many.
LastRoundLate == counter_nr_rounds = Rounds

LastRound == counter_nr_rounds = Rounds - 1

\* keccak_top, counter_nr_rounds and Ready.
StepRounds(in) ==
  IF in.start
  THEN counter_nr_rounds' = 0 /\ keccak_ready' = TRUE
  ELSE IF (KeccakStart(in) \/ KeccakSqueeze(in)) /\ keccak_ready
  THEN counter_nr_rounds' = 0 /\ keccak_ready' = FALSE
  ELSE IF LastRound /\ ~in.hold
  THEN counter_nr_rounds' = 0 /\ keccak_ready' = TRUE
  ELSE /\ counter_nr_rounds' = IF ~keccak_ready /\ ~in.hold
                               THEN counter_nr_rounds + 1
                               ELSE counter_nr_rounds
       /\ UNCHANGED keccak_ready

Cycle(in) ==
  /\ StepFsm(in)  /\ StepBuffer(in) /\ StepCount(in)  /\ StepLast(in)
  /\ StepOutput(in) /\ StepLanes(in) /\ StepRounds(in)

\* Reset (rst_ni low).
ShakeInit ==
  /\ state = "IDLE" /\ mode_reg = ResetMode /\ word_cnt = 0
  /\ data_buf = [i \in 1..BufWords |-> ZeroWord]
  /\ last_data = FALSE /\ first_append = FALSE /\ last_din_byte = 0
  /\ din_valid_d = FALSE
  /\ dout_buf_available = FALSE /\ dout_valid_o_reg = FALSE
  /\ keccak_ready = TRUE /\ counter_nr_rounds = 0
  /\ absorbed = << >> /\ rounds = << >>

\* The engine under every sequence of inputs.
ShakeNext == \E in \in Input : Cycle(in)

ShakeSpec == ShakeInit /\ [][ShakeNext]_shakeVars

-----------------------------------------------------------------------------
(* What holds whatever the ports are driven with *)

\* The type of every register.
TypeOK ==
  /\ state \in FsmState
  /\ mode_reg \in Mode
  /\ word_cnt \in Nat
  /\ data_buf \in [1..BufWords -> Word]
  /\ last_data \in BOOLEAN /\ first_append \in BOOLEAN
  /\ last_din_byte \in 0..8
  /\ din_valid_d \in BOOLEAN
  /\ dout_buf_available \in BOOLEAN /\ dout_valid_o_reg \in BOOLEAN
  /\ keccak_ready \in BOOLEAN
  /\ counter_nr_rounds \in 0..(Rounds - 1)
  /\ absorbed \in Seq(BlockSet)
  /\ rounds \in Seq(0..Rounds)
  /\ Len(absorbed) = Len(rounds)

\* The word counter never runs past the rate of the mode in use.  Overflow is
\* detected by equality (shake_top.v:264), so a counter left over from a mode
\* with a larger rate, or one that skipped the rate, would never wrap again.
CounterBelowRate == word_cnt < Rate

\* However start and hold interrupt the engine, each block is followed by
\* exactly Rounds rounds before the next XOR or squeeze: only the newest entry
\* may be incomplete, and then it has had counter_nr_rounds of them.
RoundsComplete ==
  \A i \in 1..Len(rounds) :
    rounds[i] = IF i = Len(rounds) /\ ~keccak_ready THEN counter_nr_rounds
                                                    ELSE Rounds

\* In the cycle of the output pulse data_buf still holds the whole squeezed
\* block, of the lanes as they were one permutation ago: neither a shift nor
\* a new start has touched it.
PulseShowsWholeBlock ==
  dout_buf_available /\ ~dout_valid_o_reg =>
    /\ state = "SQUEEZE"
    /\ rounds # << >>
    /\ data_buf = OutputBuf(Len(rounds) - 1)
=============================================================================
