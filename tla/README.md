# Formal model of SPHINCS+ on a SHAKE / SHA-2 accelerator

The repository is an implementation of SPHINCS+ on a Zynq board: C code for the
ARM cores, and a hash accelerator in the programmable logic, reached over
AXI4-Lite. This directory holds TLA+ modules of both, TLC configurations that
check them on small instances, and proofs checked by TLAPS. `PROJECT.json`
maps every definition to the lines it models.

Paths below are relative to the repository; `new/` stands for
`vitis_1019/new/src/`, `rtl/` for `shake_sha2/rtl/`.

## 1. The system

```
 sign.c -- fors.c, merkle.c                  keys, signatures
     |       utilsx1.c, wotsx1.c, wots.c     trees, one-time signatures
 thash, prf_addr, hash_message               addresses, hash bindings
     |-- fips202.c / sha2.c, incremental     in software, for messages
     | shake256(), sha256(), sha512()        redirected to the accelerator
 fpga_sha_driver.c                           one core, polling, no interrupts
     | Xil_Out32 / Xil_In32                  AXI4-Lite, one access at a time
 shakesha2_axi.v      registers, flags       one clock for all that follows
     |
 shake_sha2_top.v     selects engine, lays out the digest
     |-- shake_top.v -- keccak_top.v         SHAKE and SHA-3
     '-- sha2_top.v  -- sha256.v, sha512.v   SHA-2
```

| component | state it keeps | operations | how it interacts | what is hard |
|---|---|---|---|---|
| Sponge engine, `rtl/shake/shake_top.v`, `keccak_top.v` | FSM, mode, byte counter, shift buffer (block in, digest out), lanes, round counter, edge detectors | start, take a word, pad, permute, squeeze, drain, hold | ports; `din_ready` is not brought out, so the client cannot wait for it; the digest is shown for one clock | every clocked block acts at once; start and hold at any clock; the buffer is shared between input and output; block boundaries; a pulse that can be lost |
| SHA-2 engines, `rtl/sha2/sha256.v`, `sha512.v` | front-end FSM, byte counters, block buffer, a pipeline of message words, schedule, round constants, working variables | take a byte, 0x80, zeros, length, compress, result | `tvalid/tready/tlast`; the result pulse comes when the front end may be in the next message | five pipeline stages with overlapping blocks and messages; padding boundaries; bytes taken by rising edge |
| Register file, `rtl/shakesha2_axi.v`, `shake_sha2_top.v`, `sha2/sha2_top.v` | control registers, busy / ready / captured flags, status, 42 result registers, engine select | register write and read, capture of the first output | levels of registers drive ports; pulses of engines set flags | level against pulse, flags one clock ahead of the status register, engines left over from an earlier call |
| Driver, `new/fpga_sha_driver.c` | local variables of one call | `shake256_hw`, `sha256_hw`, `sha512_hw` | register accesses, polls with a limit | what the accelerator was left in by earlier calls; stale flags; time-outs |
| Keccak round, `rtl/shake/keccak_round*.v` | none (combinational) | one round | instance of `keccak_top.v` | rotation offsets and constants unrolled bit by bit |
| Software SHAKE / SHA-3, `new/fips202.c` | 25 words of Keccak state and one count | init, absorb, finalize, squeeze; one-shot functions | `gen_message_random` and `hash_message` use it; `shake256` is redirected to the driver | one count with two meanings, carried across calls of any length |
| Software SHA-2, `new/sha2.c`, `hash_sha2.c`, `thash_sha2_simple.c` | chaining value, byte count; a seeded state kept for `thash` | inc_init, inc_blocks, inc_finalize, mgf1, HMAC, thash | `sha256` and `sha512` are redirected to the driver | tail block, length field over several calls, blocks filled by hand |
| Addresses and bindings, `new/address.c`, `shake_offsets.h`, `hash_shake.c`, `thash_shake_simple.c` | 32 bytes, some with two meanings | setters, copies, tweaked hash | handed down through every part above | what earlier use leaves in them; separation of hashes |
| Tree hashing, `new/utilsx1.c`, `utils.c` | a stack of one node per level | treehashx1, compute_root | calls `thash` and a leaf generator | index arithmetic, offsets of several trees, the path and the verifier must agree |
| WOTS and FORS, `new/wots.c`, `wotsx1.c`, `fors.c` | addresses | chain lengths, chains, indices | leaf generators of trees; called by merkle.c and sign.c | checksum shift, hash addresses of two walkers of one chain, bit order |
| Signing interface, `new/sign.c`, `merkle.c` | local indices and addresses | keypair, sign, open | composition of the above | indices from layer to layer: a key that is used twice shows in no test |
| `new/randombytes.c`, `haraka.c` | a counter; none | | the second is called by nothing | |

What makes each correct, and the properties stated so far:

* sponge engine: the lanes absorb exactly the FIPS 202 padding of the message
  (`AbsorbsPaddedMessage`), each permutation is whole (`RoundsComplete`), no
  word is lost (`NeverDropsAWord`), the digest is shown once and untouched
  (`PulseShowsWholeBlock`, `PulseAfterWholeMessage`), and shown at all
  (`DigestComes`);
* SHA-2 engines: each result is the FIPS 180-4 hash of the oldest message
  without one (`ResultIsTheHash`), and it comes (`ResultComes`);
* register file and driver: what is read is the digest of this call, whatever
  was done before (`RegistersHoldTheDigest`, `ShakeReturnsDigest`), no call
  times out (`NoTimeOut`), every call returns (`CallReturns`);
* software sponge: calls cut anywhere give the blocks and the output of the
  one-shot functions (`AbsorbsAsOneShot`, `SqueezesAsOneShot`), which rests on
  a count below the rate (`CountBelowRate`);
* software SHA-2: each caller gets the hash, HMAC or MGF1 of all its input
  (`ReturnsThePromised`), the counted length is that of the blocks
  (`CountsItsBlocks`);
* trees: what the stack holds are nodes of the tree (`StackHoldsTheTree`), the
  root is its root (`ReturnsTheRoot`), and the path leads there (`PathVerifies`);
* one-time signatures: the verifier finds the public key (`PkFromSigIsPk`), and
  no message dominates another (`ChecksumDominates`);
* signing interface: a signature opens under its key and no other
  (`OpensUnderItsKey`), whatever is signed each one-time key signs one root
  (`OneTimeKeysSignOnce`), each secret given away belongs to one place
  (`SecretsStayApart`), and no address is hashed with two inputs
  (`AddressesUsedOnce`).

## 2. Modules

| module | models | extends |
|---|---|---|
| `ShakeCore` | `shake_top.v` with `keccak_top.v`, clock by clock, under any inputs | |
| `ShakeStream` | the engine with a client that sends messages; properties of digests | `ShakeCore` |
| `SpongeSpec` | what the sponge promises at its ports, in three actions | |
| `Sha2Core` | `sha256.v` and `sha512.v`, clock by clock | |
| `Sha2Stream` | a SHA-2 engine with a client that sends messages back to back | `Sha2Core` |
| `HashIp` | user logic of the AXI slave, engine selection, engines as their ports show them | |
| `HashDriver` | the driver's three functions, access by access, on `HashIp` | `HashIp` |
| `SoftSponge` | the incremental and one-shot interfaces of `fips202.c` | |
| `SoftSha2` | the incremental SHA-2 and its callers, HMAC, MGF1, `thash` | |
| `SphincsAddress` | `address.c`, symbolic tweaked hash | |
| `MerkleTree` | a hash tree by its definition; `compute_root` | `SphincsAddress` |
| `TreeHash` | `treehashx1`, turn by turn | `MerkleTree` |
| `Wots` | digits, checksum, chains | `SphincsAddress` |
| `WotsSign` | a leaf generated and verified, chain by chain | `Wots` |
| `Fors` | the few-time signature | `MerkleTree` |
| `Sphincs` | key generation, signing, opening, layer by layer | `Fors`, `Wots` |
| `ShakeProofs` | theorems about `ShakeCore` and `ShakeStream`, and the refinement | `ShakeStream` |
| `Sha2Proofs` | theorems about `Sha2Core` and `Sha2Stream` | `Sha2Stream` |
| `HashDriverProofs`, `SoftSpongeProofs`, `SoftSha2Proofs` | theorems about the module named | it |
| `SphincsLemmas` | induction, powers of two, what trees and chains compute | `MerkleTree`, `Wots` |
| `TreeWotsProofs` | theorems about `TreeHash` and `WotsSign` | both, and `SphincsLemmas` |
| `SphincsProofs` | theorems about `Sphincs` | it, and `SphincsLemmas` |
| `MC*` | values of constants for TLC | |

### ShakeCore

A step is one rising edge of `clk_i`. `Cycle(in)` is the conjunction of one
operator per clocked block: `StepFsm` (`state`, `mode_reg`), `StepBuffer`
(`data_buf`), `StepCount` (`byte_cnt`), `StepLast` (the three registers about
the last word), `StepOutput` (`dout_buf_available` and both edge detectors),
`StepLanes` and `StepRounds` (`keccak_top`). Wires are operators with the
wire's name (`BufEn`, `SampledDin`, `KeccakStart`, ...) of the ports `in`.

Data is symbolic. A word of `data_buf` says where it comes from: the message,
the delimiter, zeros, or word *i* of the lanes after *n* permutations. The lanes
are the history of what was XORed into them, and the number of rounds applied
after each. `byte_cnt` is counted in words, because it only moves by 8. The
initial state is the reset; reset in operation is not modelled (it puts back
the initial state).

### ShakeStream and SpongeSpec

The client is what the AXI slave's registers do to the ports when the driver
writes them: `Start`/`Release`, `Raise`/`Lower` around each word, `Ask`/`Stop`
for `dout_ready`, `Pause`/`Resume` for hold, which comes between the rising
edges of two words any number of times. `Raise` is the n-th word on the
bus, with `last` and its byte count. Messages are restarted at any time.
`dout_ready` is raised after the last word and kept up until the output that is
wanted has been seen.
`PaddedBlock` is FIPS 202's padding, written from the message alone.

`SpongeSpec` has a job, the number of words given, and the number of output
blocks delivered; it shows block after block of the output of that job, once
each, and only when the whole message was given. `ImplementsSponge` is the
refinement: `delivered` is the number of permutations beyond those of the
padded message, and `Shown` reads `dout_full_o` through the symbolic lanes, as
garbage when they are not what FIPS 202 says they should be.

### Sha2Core and Sha2Stream

The two files differ only in sizes: bytes of a block, of a word, of the length
field, and rounds. `rounds` is picked at the start from `RoundCounts`, so that
one run has both shapes: as many rounds as bytes of a block (SHA-256: 64 and
64), where the pipeline never idles, and fewer (SHA-512: 80 and 128). `FrontIdle` ... `FrontDone` are the branches of the FSM that
turns bytes into padded blocks (`status`, `cnt`, `tcnt`); `StepBuff`, `StepM`,
`StepW`, `StepWk`, `StepH` are the stages of the pipeline. A chaining value is
the sequence of blocks compressed into it, each with its (word, constant) pairs
and the chain it started from; so a word taken from a buffer already
overwritten, a round with the wrong constant or a sum with the wrong chain
shows in `ResultIsTheHash`.

The client polls `tready`, raises `tvalid` for one clock or longer, and may be
one message ahead of the results (`MaxOutstanding = 2`).

### HashIp and HashDriver

`Clock(write, emit)` is one clock of the accelerator; `write` is the register
access that falls on it, if any, and `emit` the engines that move on by
themselves: how long they take is left open. `StepFlags`, `StepStatus`,
`StepResult`, `StepMode` are the clocked blocks of the user logic.
`result_regs` hold which word of which digest each register shows; the zeros
beside a digest are told apart from it.

Each register access of the driver is an action; `pc` is the next one. Between
two accesses the clock ticks `MinGap` times or more. The loop of a million
polls is an unbounded loop whose time-out (`TimeOut`) can happen only when
nothing in the accelerator is about to change: a million polls outlast any hash.
`Begin` is a call by the application with any function, message and length.

Abstracted: the engines are reduced to what the other two parts check of them;
`sha3_hold`, `tid`, `olen` and `oid`, which the driver never uses, and the bit
fields of the registers; the order of bytes within a 32-bit register.

### SoftSponge

One step is one call's entry or one turn of its loop: `AbsorbCall`,
`AbsorbBlock`, `AbsorbRest`, `Finalize`, `SqueezeCall`, `SqueezeBlock`,
`SqueezeReturn`. A byte of the Keccak state is the set of bytes XORed into it
since the last permutation, so a byte XORed twice vanishes and one in the wrong
place is in another set; `blocks` is what was in the state at each permutation.
`AbsorbOnce` and `SqueezeOnce` are `keccak_absorb` and `shake256_sw_ref`, which
pad in a buffer of their own and start from zero.

### SoftSha2

`IncInit`, `IncBlocks` and `IncFinalize` are the three incremental functions,
of either width. Each step is one call of them, so that the state between
calls is visible: `GenMessageRandom` and `HashMessage` start, `FillShort` or
`FillBlock` and `FinalizeRest` are the two ways the message meets the first
block, `OuterRandom`, `OuterMessage` and `Mgf1Turn` the rest. `Sha2` is FIPS
180-4 by its definition; it stands for `sha256` and `sha512` too, which call
the driver: that the driver does not deliver it is shown by `HashDriver`.

### SphincsAddress, MerkleTree, TreeHash

An address is a record of the fields of `shake_offsets.h`; byte 27 is one field
(chain, tree height), and bytes 28 to 31 another (tree index, of which the hash
address is the low byte). A hash value is the call that made it: seed, address
and inputs. So two values are equal only if everything that went into them is.
`TreeHash` is `treehashx1` with one action for each way through the inner loop:
`Push` (a left child), `Combine` (a right child), `Return`. `TreeLevels` and
`ComputeRoot` are what a tree is and how verification climbs it; the modules
above use them, `TreeHash` shows that the code builds them.

### Wots, WotsSign, Fors

`BaseW`, `WotsChecksum` and `ChainLengths` compute on bits, as the code does,
with the size of a byte as a parameter. `GenChain` walks a chain. `WotsSign`
has one action per chain of the signer and of the verifier, with the address
that each leaves for the next; its `ownLeaf` is `leaf_idx` and its `chain` is `i`. `Fors` are the functions of `fors.c`.

### Sphincs

A call is `Sign`, `SignFors`, then a `SignLayer` for each layer; `Open`,
`OpenFors`, `OpenLayer`, `Compare`. `wotsAddr` and `treeAddr` are carried from
layer to layer with all that was written into them. `hash_message` is any
function to the digests of the instance, the same each time it is computed
(`digestOf`); what bits a root has is a parameter too (`BytesOf`). `certified`
and `revealed` remember, beside the state of the program, what has been signed
with each one-time key and which few-time secrets have been given away.
Signing twice and opening under the wrong key happen in any order.

## 3. Runs

| run | instance | shows |
|---|---|---|
| `shake_core` | 2 modes with rates 3 and 2 of a 3-word buffer, 4 rounds, all inputs, up to 2 permutations after a start | the four state invariants hold whatever the ports do |
| `shake_stream` | 2 modes, messages of up to 5 full words and a last one of 3 or 8 bytes (1 to 4 blocks), 5 rounds, restart at any time, hold between words, 2 output blocks | absorption, no word lost, refinement of `SpongeSpec`, the digest comes |
| `sha2` | blocks of 8 bytes, length field 2, 4 words, 8 and 5 rounds, messages of 1 to 14 bytes, 2 in flight | each result is its message's hash, no byte lost, every result comes |
| `driver` | 4 result registers with digests of 1, 2 and 3 words, words of 2 bytes, messages of 0 to 3 bytes of two contents, 2 output blocks | the digest that is read is this call's, no time-out, every call returns |
| `soft_sponge` | rate 4, calls of 0 to 5 and 9 bytes, messages and outputs of up to 12 | blocks and output as in one shot, however they are cut |
| `soft_sha2` | blocks of 8 bytes, length field 2, digests of 4, `N` 2, messages of 0 to 19 bytes, 1 to 4 inputs, digests of 3 to 8 bytes | each caller gets the hash of all its input |
| `tree` | heights 1 to 4, each leaf and `~0`, three trees numbered on | stack, path and root are those of the tree; the loops end |
| `wots` | messages of two 4-bit bytes, `W` 4, 4 + 3 chains: all 256 | public key found again, checksum dominates |
| `sphincs` | 3 layers of height 1, 2 few-time trees of height 1, 2 keys, 2 messages, 4 digests, 2 signatures and any number of openings | the four properties of the scheme |

The bounds contain the cases that differ: a message that ends before, at and
after a block boundary, one and several blocks, and every relation of the last
word to the delimiter; rates smaller than and equal to the buffer; restart from
a larger rate to a smaller; SHA-2 messages whose padding fits in the block,
just fits, and needs another one; two calls of each function in each order and
with equal or different contents. The driver's words of two bytes give partial
and whole last words and messages of one and two words.
For the software: calls that end before, on and after a block boundary and that
span two; SHA-2 inputs on each side of both boundaries of the padding, with and
without a first block filled; every leaf of trees with three levels of inner
nodes, with an offset whose halves stay distinct; a checksum that fills its
digits and needs the shift (`Len2 * LogW` is 6 bits of 8). The four digests are
the same few-time key opened at different leaves, its neighbour in the tree,
and one in another tree with bits above the masks: two signatures are what it
takes to violate any of the properties of `sphincs`.

Two things a client can do are left out of the passing runs because the code
does not support them and the driver does not do them: hold while output is
drained (the byte counter is cleared, `shake_top.v:254`, while the buffer
stands still), and `dout_ready` raised only in the clock of the next squeeze
(the new block then has no pulse, `shake_top.v:443`). `ClientPause` and
`ClientAsk` rule them out. In the same way `Sha2Stream`'s client lowers
`tvalid` between two bytes, as the driver does.

Timing constants. `ShakeStream.MinGap` is the least number of clocks between
two words. `NeverDropsAWord` needs the clocks of `Rate` words to cover the
permutation. The engine has a rate of 9 words or more and 24 rounds, so three
clocks between words are enough; the driver makes four register writes per word
over AXI4-Lite, where one takes three clocks or more. The instance has the
same tightness: two words at 3 clocks for 5 rounds. `HashDriver.MinGap = 2`:
the slave accepts an access every three clocks at most. With 1 the status
register would still show the last call's RESULT_READY when it is polled, and
`RegistersHoldTheDigest` fails; with 2 it holds, and with it for any slower
bus, since more clocks may pass. `Prompt`: `tvalid` is lowered before the
digest is out, as the two writes are adjacent and the last block alone takes
64 clocks or more. It is a real condition: the user logic clears the flags in
every clock in which `tvalid` is up, while `result_regs` capture the digest
regardless (`shakesha2_axi.v:506`, `544`), so with `Prompt` FALSE a digest can
be stored without RESULT_READY and the call times out.

Fairness. The clock never stops: weak fairness of the clock tick in which the
client does nothing (`Wait`), so that nothing is gained from a client that
happens to act. A client that holds the
engine releases it (`Resume`). In `HashDriver`: the processor executes the
next access, the poll loops are bounded (`TimeOut`), clocks tick, and each
engine that has something to finish finishes. No client has to send
its next word or to start over: `DigestComes` starts once the message is sent,
and allows for a restart but does not force one.

`TreeHash` has weak fairness of its steps: a function that runs, runs on.

`shake_core` disables the deadlock check because its bound on permutations
makes states without successor, `tree` and `wots` because the functions return.

## 4. Where the code differs from what it says

Each is a run that TLC ends with a counterexample, to a property that states a
comment, a port description or a declared purpose.

| run | property | what happens |
|---|---|---|
| `shake_empty_last` | `AbsorbsPaddedMessage` | a last word of zero bytes, which the driver sends for the empty message, is not padded correctly (`shake_top.v:262`) |
| `driver_sha2_layout` | `Sha2ReturnsDigest` | `sha256_hw` and `sha512_hw` read the registers at the wrong end (`fpga_sha_driver.c:108`) |
| `driver_stale` | `NoStaleDigest` | SHA-2 of the empty message returns the previous result (`fpga_sha_driver.c:72`) |

The passing runs avoid them by name: last words of 1 to 8 bytes, `call.len > 0`.
They also stay clear of uses the driver never makes, at which the hardware
would fail, listed as hazards: a hold in the clock of the output pulse or of a
word's rising edge (`shake_top.v:449`, `103`), bytes with `tvalid` kept up
(`sha256.v:196`), outputs longer than a block (`fpga_sha_driver.c:18`; `OutLen`
is within one), and a digest that comes before `tvalid` is lowered (`Prompt`).

## 5. Proofs

The first part of `ShakeProofs` proves of `ShakeCore`, for all modes, rates,
buffers, numbers of rounds, data and input sequences:

* `TypeCorrect`: every register keeps its type;
* `CounterSafe`: the word counter stays below the rate of the mode in use;
* `PermutationSafe`: every permutation but the running one has had all its
  rounds, and that one as many as the round counter says;
* `PulseSafe`: at the output pulse the buffer holds a whole squeezed block.

Assumptions: those of `ShakeCore` on its constants: rates between 1 and the
buffer, `BufWords < Rounds` (21 and 24), byte counts within 0..8.

None of the four is inductive alone. `CoreInv` adds `Handshake`: an idle
permutation has its round counter at 0, a busy one has something to permute,
and output is available only in S_SQUEEZE. `CounterBelowRate` needs the last
one: the counter is moved by words in S_ABSORB, by padding in S_APPEND and by
draining in S_SQUEEZE, and each must find the same rate; `RoundsComplete` needs
the first, for a new entry starts with no rounds; `PulseShowsWholeBlock` needs
that a buffer not available in one clock and available in the next was filled
by a squeeze, not by a shift. `InitCoreInv` and `CycleCoreInv` are the base
and the step, with a lemma per conjunct; `CoreInvariant` is `[]CoreInv`.

The TLC run `shake_core` checks the same four properties on an instance.

Its second part proves of `ShakeStream`, for all messages, rates, numbers
of rounds and spacings of the words, and every restart and pause:

* `AbsorbsRightly`: the lanes absorb the padding of the message and nothing else;
* `NeverDrops`: no word finds the engine unable to take it;
* `PulseRightly`: the pulse comes after the whole message, with a squeeze of it;
* `SpongeRefinement`: `Spec => ImplementsSponge`, every step of the engine and
  its client being a step of `SpongeSpec` or a stutter.

They need two hypotheses besides the constants' types. `PaceAssumption`: the
words of a block take longer than a permutation (`Rounds < Rate * MinGap`; in
the hardware 24 against at least 9 * 3), and a block has two words or more.
`0 \notin LastBytes`: the last word has a byte, as the driver's words have; with
an empty last word `AbsorbsPaddedMessage` is false (section 4), so this one is
a hypothesis of the theorems and not an assumption of the module, whose run
`shake_empty_last` breaks it.

`StreamInv` is inductive, with `CoreInv`. While the engine hashes, `Progress`
says for each state of the FSM how much of the padded message is absorbed, and
that the newest `word_cnt` words of the shift buffer are those that follow
(`Holds`): in S_ABSORB the words taken are `Rate * Len(absorbed) + word_cnt`,
in S_FULL one block more, in S_APPEND and S_LAST_FULL the delimiter is in the
block under way (`Ends`), and `first_append` tells whether it is still owed.
`KeepsAhead` is the timing argument: a permutation in round r started at most
as many clocks ago as the words that have come since allow, so
`r + 2 >= (Presented - 1) * MinGap + gap`; at the last word of the next block
that contradicts r < Rounds (`ReadyInTime`). `DrainsInTime` is the same for the
output: a block is drained word by word while the permutation counts rounds, so
the next squeeze always finds the buffer free, and each block has its pulse
(`ShownOnce`). That is where the refinement would fail if `dout_ready` came
late. There is one lemma for a clock in each state of the FSM (`AbsorbStep`,
`FullStep`, `AppendStep`, ...), and `PaddedBlocks` enters only by what
`Ceiling` proves of rounding up.

`Sha2Proofs` proves of `Sha2Stream`, for every size of block, word and length
field, any numbers of rounds, messages and pauses:

* `TypeCorrect`: every register keeps its type;
* `HashesRightly`: each result is the hash of the oldest message without one;
* `NeverDrops`: no byte that follows a poll of `tready` is lost.

Their assumptions are those of the constants: a block has a whole number of
words, a length field that leaves room for two bytes, and no fewer bytes than
there are rounds, of which there are at least as many as words to load, and at
least three (64 and 80 in the code). Three, because `hsave` is set in the first
round of a block and read in the last.

`StreamInv` is inductive, and TLC has checked it on five instances of other
sizes before the proof (blocks of 3 to 8 bytes, 3 to 8 rounds). It names the
message `y` that the client sends, the message `z` before it, and the number
`n` of blocks of `y` handed on. `FrontInv` places the front end in the padded
message, byte by byte: `Waits` says what the buffer has got of block `n + 1`,
`InMessage` and `InPadding` how the counters and the state follow from that.
The pipeline is followed by round: if a stage has round r of a block, the stage
after it has round r - 1, and `h` the rounds before (`MHolds`, `WHolds`,
`WkHolds`, `HashedTo`); at the end of a block the stages may be empty instead
(`WReady`, `WkReady`). Three things overlap there, and `PipeInv` tells them
apart. Within a message one block is compressed while the next one fills the
same buffer: `MHolds` demands only the bytes not read yet. Between two
messages the last block of `z` drains while the first bytes of `y` come in, and
those must stay behind the word being read: `Behind`, `Given < mcnt`, holds
because a byte takes a clock or more, and a word is a clock. The chain is
reset for `y` when its block is nearly full (`Starts`), which must come after
the last round of `z` and before the first of `y`. `Leaves` and `Queue` give
each end of a message in the pipeline its entry of `due`: at most two are ever
outstanding. `NeverDrops` needs of all this only that the state is IDLE or RUN
when a byte arrives (`BusInv`), but that needs the rest of the front end.
Each stage has a lemma for one clock (`HStep`, `WkStep`, `WStep`, `MStep`), each
branch of the FSM another (`RunStep`, `Add8Step`, ...); `FrontStep` leaves four
cases for the pipeline: nothing is under way, a message begins, goes on, ends
(`RestPipe`, `BeginPipe`, `GoPipe`, `EndPipe`).

`HashDriverProofs` proves three properties of `HashDriver`, the whole way from a
register write to the caller's buffer, for every size of message, word, digest
and register file, any calls in any order, and engines that take any time:

* `HoldsTheDigest`: the registers hold this call's digest while they are read;
* `ReturnsTheDigest`: `shake256_hw` returns it, word for word;
* `NeverGivesUp`: a call with something to hash is never timed out.

Their hypotheses are the two timing conditions of section 3, `MinGap >= 2` and
`Prompt`: with `MinGap` 1 the first is false, without `Prompt` the last.
`DriverInv` is inductive. What the driver has done (`pc`, `pos`) fixes what is in the ports (`PortsInv`), and
ports and clocks since the last access (`Settled`) fix what the engine in use
has taken: a byte or a word is on the bus when `tvalid` or `din_valid` is
raised, and taken at the next clock and at no other (`BytesTaken`,
`WordsTaken`). Every other SHA-2 engine is idle and owes nothing (`Clean`),
which is what keeps an earlier digest from appearing. From the last byte on one
of three things is true: the digest is still owed and the flags are clear
(`Hashes`), it is on `dout` and will be captured at this clock (`Shows`), or it
is captured and the engine clean (`Captured`). RESULT_READY of an earlier
call is excluded because the flags were cleared when the message began, and the
status register follows them by one clock (`ResultInv`). The same three stages
show that nothing is about to change only if the digest is there (`NotQuiet`).
`Sha2Turn` and `SpongeTurn` are one clock of each engine; `Advance` puts a clock
and what the driver does in it together; each access has a lemma that meets its
conditions (`Sha2Link`, `SpongeLink`, `ResultLink`).

`SoftSpongeProofs` proves `CountSafe`, `AbsorbSafe` and `SqueezeSafe` of
`SoftSponge` for every rate, every set of lengths and every bound. `SpongeInv`
is inductive: while absorbing, `taken` is the number of blocks times the rate
plus `count`, each block is a full block of the message, and the state holds
exactly the bytes of the rest; while squeezing, the output is the one-shot
output of its length, and `count` says how far its last block has been read.
The count alone is inductive neither way, because finalizing changes what it
means. The lemmas are about quotients and remainders (`p = q * Rate + f`) and
about one byte of a block; every action then has one step per conjunct.

`SoftSha2Proofs` proves `PromiseSafe` and `CountSafe` of `SoftSha2` for every
size of block, length field, digest, address and message. The heart is the
lemma `Finalize`: finishing with the rest of a message, after its whole blocks,
gives the hash of the message. It rests on `BlocksConcat` (blocks can be cut off
at a multiple of their size), `ZerosFill` (the zeros of FIPS 180-4 are those
that fill the one or two blocks the code chooses) and `PaddedText`. A byte holds
the blocks it was made from, so no set holds all bytes: `IsSeq` says that
something is a sequence of whatever is in it, and the first lemmas restate what
is known of sequences for it. `IInv` is inductive: at each step there is a `p`
that the state has taken in (`Holds(state, p)`), and `p` and what is left of the
message are together the input that the call promises to hash; the result alone
says nothing of the calls under way. Because of that `p` TLC cannot evaluate
`IInv`; it checks both properties in `soft_sha2`.

`SphincsLemmas` is what the three modules of SPHINCS+ share. The definitions
are recursive functions (a level of a tree from the one below, a chain from its
last value), of which the provers know nothing until the function is shown to
exist; `LevelsExist`, `ClimbExists`, `ChainExists` and `SumExists` do that, by
induction on the number of values. Induction is over a set of numbers, from the
well-foundedness of the naturals (`LeastNat`, `Induction`), because a rule over
a predicate cannot be instantiated here. That a power of two is a number and
doubles comes from counting subsets (`Doubles`). On these rest `PathLeadsToRoot`
(climbing with the siblings of a leaf ends at the root), `RootOfTree`,
`ChainsJoin` (n steps and then m are n + m steps) and `LengthsType` (every
digit, of the message and of the checksum, is below `W`). The last part is
about digits and the order of numbers: a number with every digit at or above
another's is at or above it (`DigitsOrder`), the digits cut out of bytes are the
digits of the number (`DigitOfMessage`, `DigitOfChecksum`, which needs the shift
to the byte boundary), and the checksum falls as digits rise (`ChecksumLess`).

The first part of `TreeWotsProofs` proves `StackHolds` and `PathLeads` of `TreeHash` for every
height, offset and leaf. `TreeInv`: the node under way is the one that ends
with leaf `idx` (`NodeUnderWay`: `idx + 1` is a multiple of `2 ^ h`), each level
where `idx` has a 1 bit holds the left sibling that waits there (`LeftOnStack`),
and the path has the neighbours whose turn has been and no others
(`PathSoFar`). A path written by a wrong node, or overwritten, is what the last
excludes. `NoLeaf` (`~0`) has to stay apart from every leaf at every height;
`TreeHashAssumption` says so and 32 bits give it.

Its second part proves `PkFromSig` of `WotsSign` for every message, size of
digit and number of chains. `ChainInv` says what the addresses hold between two
chains and that the buffers hold the values of the chains done; the step for the
verifier is `ChainsJoin` with the digit as the place where the walkers meet.
`ChecksumHolds` proves `ChecksumDominates`: if another message had all its chains
at or above those of the one signed, its checksum would be no less, and as a sum
it would be less, unless the messages are the same (`NoOtherAbove`). It needs
what the table of `SPX_WOTS_LEN2` in the parameter files is made for, that
`SPX_WOTS_LEN2` digits hold the greatest checksum; `ChecksumAssumption` in `Wots`
says so, TLC evaluates it, and each entry of the table meets it
(16 * 15 < 16^2, 272 * 15 < 16^3, 512 * 15 < 16^4, 255 < 256, 256 * 255 < 256^2).

`SphincsProofs` proves the four properties of `Sphincs` for all numbers of layers,
heights, trees, keys, messages and digests, and any number of signatures.

`OneTime` and `SecretsApart` rest on `SignInv`: every variable that carries an
index or an address is a function of the place in the hypertree: after `layer`
turns the root in hand is the root of the subtree just signed, its place being
the leaf about to sign it; and what `certified` and `revealed` hold was made
that way. So a one-time key meets the same root whenever its place comes up,
since a subtree is a function of its place (`SubtreeOfPlace`), and the places of
two layers differ. `SecretsApart` needs that `index + tree * 2^A` determines
both (`IndexApart`), and that addresses keep all fields apart (`AddrInjective`).

`OpensRightly` is the correctness of the scheme: what `crypto_sign` returns,
`crypto_sign_open` accepts under the signer's key and under no other. `OpenInv`
adds to `SignInv` the keys (`PublicKeys`), what the signature in hand holds so
far (`SignatureInHand`), and that opening has, layer by layer, the root that was
signed there if the key is the signer's (`OpensRight`), and one of another seed
otherwise (`OpensWrong`). Its hypothesis `BytesOfRoots` says that the bytes of
a root that is signed are `N` bytes: they are a parameter of the model.

`AddressesApart` proves `AddressesUsedOnce`. An address tells the hash made under
it: `CallOf(k, a)` reads back from the type, layer, tree, keypair and the last
two words of `a` which start or step of a chain, leaf, node or root it belongs
to, the number of a few-time node telling its tree as well (`NodeNumber`). A
value is `Made` if it is what its own address says. Everything the model hashes
is made, and so is everything hashed on the way to it (`InputsMade`, one case per
type of address; `CallsAllMade`, by induction on the number of hashes); two made
values of one seed with one address are then the same value. A counting argument
makes that the equality of cardinalities the property states, so the sets must be
finite, which `FewKept` says of what was signed, published and revealed.

Assumptions of the four modules: `N`, `K`, `A`, `D`, `H` positive, digits that
divide a byte, `2 ^ LogW <= ByteSize` (a place in a chain is one byte of the
address), a checksum that fits its digits, and digests whose bits are bits.

Only model-checked: liveness (`DigestComes`, `ResultComes`, `CallReturns`,
`ReturnsTheRoot`), which the proof system does not reach. Every other property
of a passing run is a theorem.

## 6. Not modelled

* The arithmetic of the rounds (Keccak, SHA-2): symbolic. `keccak_round.v` is
  combinational, without state, unrolled bit by bit.
* Hash values that collide or are forged: a value is the call that made it.
  That an altered message or signature is rejected depends on that alone, so no
  property states it.
* The AXI4-Lite channels of the slave (a vendor template): a register access is
  one step, and the driver has one under way at a time. With them `sha3_hold`,
  `tid` and the length registers, which the driver does not use.
* `treehash` of `utils.c`: nothing calls it. `haraka.c`: nothing calls it, no
  binding for it is in the directory. `randombytes.c`: one step.
* Sizes in memory: buffers, `SPX_VLA`, and overlaps of `m` and `sm`.
* Test programs and testbenches; first-stage boot loader, board support
  package, and what Vivado and Vitis generate, which are nearly all of the
  repository's lines; copies of the sources in project archives.
* `data_buf[192:0]` and `[512:0]` (`shake_top.v:209`, `213`), which zero one
  bit too many, outside the digest: words are not split into bits.

## 7. Plan

Done: the modules above, with the proofs of section 5.

Left, by importance:

1. `AxiSlave`: the write and read channels (`shakesha2_axi.v:142-442`),
   refining an atomic register file; then `HashIp` with hold, tid and lengths.
2. The composition of `thash` with the driver: its calls are never empty and
   never longer than a block of output, which is where the driver fails.
