---------------------------- MODULE Sha2Proofs ----------------------------
(***************************************************************************)
(* For every size of block, word and length field, every number of rounds  *)
(* and every sequence of messages with any pauses: each result of a SHA-2  *)
(* engine is the hash of the oldest message without one, and no byte is    *)
(* dropped.  The argument follows a block through the stages: what each    *)
(* stage holds is a round of a block, the stage after it holds the round   *)
(* before, and h the rounds before that.                                   *)
(***************************************************************************)
EXTENDS Sha2Stream, SequenceTheorems, TLAPS

(* What is where: y is a message, b a block of it, r a round *)

Last(y) == PaddedBlocks(y.len)

\* s is what the first n blocks of y make.
Chain(s, y, n) ==
  /\ s = [i \in 1..n |-> s[i]]
  /\ \A i \in 1..n : s[i] = [from |-> SubSeq(s, 1, i - 1), rounds |-> BlockRounds(y, i)]

\* h has the blocks before b, and r rounds of b.
HashedTo(y, b, r) ==
  /\ h = [blocks |-> h.blocks, rounds |-> [q \in 1..r |-> BlockRounds(y, b)[q]]]
  /\ Chain(h.blocks, y, b - 1)

\* The last stage before h has round r of block b, and h the rounds before.
WkHolds(y, b, r) ==
  /\ wken /\ ~wkinit /\ wk = BlockRounds(y, b)[r]
  /\ wkstart = (r = 1) /\ wklast = (r = rounds /\ b = Last(y))
  /\ b = Last(y) => wkid = y.tid /\ wklen = y.len
  /\ HashedTo(y, b, r - 1)
  /\ r > 1 => hsave = [blocks |-> h.blocks, rounds |-> << >>]
  /\ hadder = IF r = rounds THEN hsave ELSE NoAdder

\* With what this stage has, h will be ready for block b.
WkReady(y, b) ==
  \/ ~wken /\ ~wkinit /\ HashedTo(y, b, 0)
  \/ ~wken /\ wkinit /\ b = 1
  \/ b > 1 /\ WkHolds(y, b - 1, rounds)

WHolds(y, b, r) ==
  /\ wen /\ ~winit /\ << w0, wadder >> = BlockRounds(y, b)[r]
  /\ wstart = (r = 1) /\ wfinal = (r = rounds) /\ wlast = (r = rounds /\ b = Last(y))
  /\ b = Last(y) => wid = y.tid /\ wlen = y.len
  /\ IF r = 1 THEN WkReady(y, b) ELSE WkHolds(y, b, r - 1)

WReady(y, b) ==
  \/ ~wen /\ ~winit /\ WkReady(y, b)
  \/ ~wen /\ winit /\ b = 1 /\ ~wken
  \/ b > 1 /\ WHolds(y, b - 1, rounds)

\* The bytes that are still to be read are in the buffer.
MHolds(y, b) ==
  /\ men /\ ~minit /\ mcnt \in 0..(rounds - 1) /\ icnt <= mcnt
  /\ mlast = (b = Last(y))
  /\ b = Last(y) => mid = y.tid /\ mlen = y.len
  /\ \A p \in (mcnt * WordBytes)..(BlockBytes - 1) :
       buff[p] = PaddedByte(y, (b - 1) * BlockBytes + p)
  /\ IF mcnt = 0 THEN WReady(y, b) ELSE WHolds(y, b, mcnt)

-----------------------------------------------------------------------------
(* The invariant *)

\* A byte that is taken at this clock.
Pending == bus.tvalid /\ ~tvalid_d

\* The message of job is not wholly in the buffer yet.
Feeding == status # "IDLE" \/ Pending

\* A block is complete.
Full == ivalid /\ icnt = BlockBytes - 1

Given == icnt + IF ivalid THEN 1 ELSE 0

\* The bytes of a message in n blocks, in the buffer and on their way there.
Handed(n) == n * BlockBytes + Given

\* n blocks of y are handed on to the pipeline, and more bytes wait here.
Waits(y, n) ==
  /\ \A p \in 0..(icnt - 1) : buff[p] = PaddedByte(y, n * BlockBytes + p)
  /\ ivalid => idata = PaddedByte(y, n * BlockBytes + icnt)
  /\ tcnt = (icnt + 1) % BlockBytes /\ iid = y.tid /\ ilast = (status = "DONE")
  /\ ifirst => n = 0 /\ icnt <= BlockBytes - 2
  /\ n = 0 /\ icnt < BlockBytes - 2 => ifirst

\* Where in the padded message y the front end is.
InMessage(y, n) ==
  /\ cnt = Handed(n)
  /\ IF Pending THEN sent = cnt + 1 ELSE sent = cnt /\ cnt < y.len

InPadding(y, n) ==
  /\ cnt = y.len /\ sent = y.len /\ ~Pending /\ ivalid
  /\ \/ status = "ADD8" /\ cnt = Handed(n)
     \/ status = "ADD0" /\ cnt < Handed(n) /\ Handed(n) < Last(y) * BlockBytes - LenBytes
     \/ /\ status = "ADDLEN" /\ n = Last(y) - 1
        /\ Given < BlockBytes /\ Given >= BlockBytes - LenBytes
     \/ status = "DONE" /\ n = Last(y) - 1 /\ icnt = BlockBytes - 1 /\ ilen = y.len

FrontInv(y, n) ==
  IF status = "IDLE"
  THEN /\ n = 0 /\ icnt = 0 /\ cnt = 0 /\ ~ivalid /\ ~ilast /\ ~ifirst
       /\ sent = IF Pending THEN 1 ELSE y.len
  ELSE Waits(y, n) /\ IF status = "RUN" THEN InMessage(y, n) ELSE InPadding(y, n)

\* The first byte of a message is far enough behind the block being read.
Behind ==
  IF status = "IDLE" THEN Pending => mcnt >= 1 ELSE Given < mcnt

WkDrains(z) == ~wkinit /\ (wken => WkHolds(z, Last(z), rounds))

WDrains(z) == ~winit /\ IF wen THEN WHolds(z, Last(z), rounds) ELSE WkDrains(z)

\* The last block of z is on its way, or gone.
Drains(z) ==
  IF men THEN MHolds(z, Last(z)) /\ Behind ELSE ~minit /\ WDrains(z)

\* h is being set for the first block of y, behind what is left of z.
Starts(z, y) ==
  /\ ~men
  /\ \/ minit /\ WDrains(z) /\ (icnt = BlockBytes - 1 => ~wen)
     \/ ~minit /\ winit /\ ~wen /\ WkDrains(z)
     \/ ~minit /\ ~winit /\ ~wen /\ WkReady(y, 1)

\* Block n of y is on its way, or added.
Goes(y, n) == MHolds(y, n) \/ (~men /\ ~minit /\ WReady(y, n + 1))

PipeInv(n, z, y) ==
  IF n > 0 THEN Goes(y, n)
  ELSE IF status = "IDLE" \/ ifirst THEN Drains(z) ELSE Starts(z, y)

\* The stage that has the end of a message has that of z, and no other has one.
Leaves(z) ==
  /\ mlast => MHolds(z, Last(z)) /\ ~wlast /\ ~wklast
  /\ wlast => WHolds(z, Last(z), rounds) /\ ~wklast
  /\ wklast => WkHolds(z, Last(z), rounds)

\* The results to come after this clock.
Queue(z, y) ==
  IF mlast \/ wlast \/ wklast
  THEN IF Feeding THEN << z, y >> ELSE << z >>
  ELSE IF Feeding THEN << y >> ELSE << >>

BusInv ==
  /\ sent <= job.len
  /\ Pending =>
       /\ status \in {"IDLE", "RUN"}
       /\ bus = [tvalid |-> TRUE, tlast |-> sent = job.len, tid |-> job.tid,
                 tdata |-> << job.tid, sent >>]

StreamInv ==
  /\ TypeOK /\ ResultIsTheHash /\ BusInv /\ DOMAIN buff = 0..(BlockBytes - 1)
  /\ \E n \in Nat, z \in Job :
       /\ FrontInv(job, n) /\ PipeInv(n, z, job)
       /\ Leaves(z) /\ Due = Queue(z, job)

-----------------------------------------------------------------------------
(* Sizes and sequences *)

LEMMA Sizes ==
  /\ BlockBytes \in Nat /\ BlockBytes >= 3
  /\ LenBytes \in Nat /\ LenBytes >= 1 /\ LenBytes + 2 <= BlockBytes
  /\ WordBytes \in Nat /\ WordBytes >= 1
  /\ LoadWords \in Nat /\ LoadWords * WordBytes = BlockBytes
  /\ \A r \in RoundCounts : r \in Nat /\ r >= 3 /\ r >= LoadWords /\ r <= BlockBytes
<1>1. /\ BlockBytes \in Nat /\ LenBytes \in Nat \ {0} /\ WordBytes \in Nat \ {0}
      /\ LenBytes + 2 <= BlockBytes /\ BlockBytes % WordBytes = 0
      /\ RoundCounts \subseteq LoadWords..BlockBytes /\ \A r \in RoundCounts : r >= 3
  BY Sha2Assumption
<1>2. LoadWords \in Nat /\ LoadWords * WordBytes = BlockBytes
  BY <1>1 DEF LoadWords
<1>. QED  BY <1>1, <1>2

\* A function on 1..n is a sequence.
LEMMA FunSeq ==
  ASSUME NEW n \in Nat, NEW s, s = [i \in 1..n |-> s[i]], NEW S, \A i \in 1..n : s[i] \in S
  PROVE  s \in Seq(S) /\ Len(s) = n
<1>1. s \in [1..n -> S]
  BY Zenon
<1>. QED  BY <1>1

LEMMA AppendTo ==
  ASSUME NEW n \in Nat, NEW s, s = [i \in 1..n |-> s[i]], NEW e
  PROVE  Append(s, e) = [i \in 1..(n + 1) |-> IF i <= n THEN s[i] ELSE e]
<1>. DEFINE S == {s[i] : i \in 1..n} \cup {e}
            t == Append(s, e)
            u == [i \in 1..(n + 1) |-> IF i <= n THEN s[i] ELSE e]
<1>1. \A i \in 1..n : s[i] \in S
  OBVIOUS
<1>2. e \in S
  OBVIOUS
<1>. HIDE DEF S
<1>3. s \in Seq(S) /\ Len(s) = n
  BY <1>1, FunSeq
<1>4. /\ t \in Seq(S) /\ Len(t) = n + 1
      /\ \A i \in 1..n : t[i] = s[i]
      /\ t[n + 1] = e
  BY <1>2, <1>3, AppendProperties
<1>. HIDE DEF t
<1>5. t = [i \in 1..(n + 1) |-> t[i]]
  BY <1>4
<1>6. ASSUME NEW i \in 1..(n + 1) PROVE t[i] = IF i <= n THEN s[i] ELSE e
  <2>1. i <= n \/ i = n + 1
    OBVIOUS
  <2>. QED  BY <1>4, <2>1
<1>7. t = u
  BY <1>5, <1>6
<1>. QED  BY <1>7 DEF t

LEMMA SubTo ==
  ASSUME NEW n \in Nat, NEW s, s = [i \in 1..n |-> s[i]], NEW m \in 0..n
  PROVE  SubSeq(s, 1, m) = [i \in 1..m |-> s[i]]
<1>. DEFINE S == {s[i] : i \in 1..n}
            t == SubSeq(s, 1, m)
<1>1. \A i \in 1..n : s[i] \in S
  OBVIOUS
<1>. HIDE DEF S
<1>2. s \in Seq(S) /\ Len(s) = n
  BY <1>1, FunSeq
<1>3. t \in Seq(S) /\ Len(t) = m /\ \A i \in 1..m : t[i] = s[i]
  BY <1>2
<1>. HIDE DEF t
<1>4. t = [i \in 1..m |-> t[i]]
  BY <1>3
<1>5. t = [i \in 1..m |-> s[i]]
  BY <1>3, <1>4
<1>. QED  BY <1>5 DEF t

\* The blocks of a message and one more.
LEMMA ChainGrows ==
  ASSUME NEW n \in Nat, NEW y, NEW s, Chain(s, y, n)
  PROVE  Chain(Append(s, [from |-> s, rounds |-> BlockRounds(y, n + 1)]), y, n + 1)
<1>. DEFINE e == [from |-> s, rounds |-> BlockRounds(y, n + 1)]
            t == Append(s, e)
<1>1. s = [i \in 1..n |-> s[i]]
  BY DEF Chain
<1>. HIDE DEF e
<1>2. t = [i \in 1..(n + 1) |-> IF i <= n THEN s[i] ELSE e]
  BY <1>1, AppendTo
<1>. HIDE DEF t
<1>3. t = [i \in 1..(n + 1) |-> t[i]] /\ n + 1 \in Nat
  BY <1>2
<1>4. (\A i \in 1..n : t[i] = s[i]) /\ t[n + 1] = e
  BY <1>2
<1>5. ASSUME NEW i \in 1..(n + 1)
      PROVE  t[i] = [from |-> SubSeq(t, 1, i - 1), rounds |-> BlockRounds(y, i)]
  <2>1. i - 1 \in 0..n /\ i - 1 \in 0..(n + 1)
    OBVIOUS
  <2>2. SubSeq(t, 1, i - 1) = [j \in 1..(i - 1) |-> t[j]]
    BY <1>3, <2>1, SubTo
  <2>3. SubSeq(s, 1, i - 1) = [j \in 1..(i - 1) |-> s[j]]
    BY <1>1, <2>1, SubTo
  <2>4. [j \in 1..(i - 1) |-> t[j]] = [j \in 1..(i - 1) |-> s[j]]
    <3>1. \A j \in 1..(i - 1) : t[j] = s[j]
      BY <1>4, <2>1
    <3>. QED  BY <3>1
  <2>5. CASE i = n + 1
    <3>1. i - 1 = n
      BY <2>5
    <3>2. SubSeq(t, 1, n) = [j \in 1..n |-> s[j]]
      BY <2>2, <2>4, <3>1
    <3>3. SubSeq(t, 1, n) = s
      BY <1>1, <3>2, Zenon
    <3>. QED  BY <1>4, <2>5, <3>1, <3>3 DEF e
  <2>6. CASE i # n + 1
    <3>1. i \in 1..n
      BY <2>6
    <3>2. s[i] = [from |-> SubSeq(s, 1, i - 1), rounds |-> BlockRounds(y, i)]
      BY <3>1 DEF Chain
    <3>. QED  BY <1>4, <2>2, <2>3, <2>4, <3>1, <3>2
  <2>. QED  BY <2>5, <2>6
<1>6. Chain(t, y, n + 1)
  BY <1>3, <1>5 DEF Chain
<1>. QED  BY <1>6 DEF t, e

\* A block cannot be mistaken for nothing to add.
LEMMA NotNoAdder ==
  ASSUME NEW n \in Nat, NEW y, NEW s, Chain(s, y, n), NEW x
  PROVE  [blocks |-> s, rounds |-> x] # NoAdder
<1>. SUFFICES ASSUME s = << [zero |-> 0] >> PROVE FALSE
  BY DEF NoAdder
<1>1. DOMAIN s = 1..1 /\ s[1] = [zero |-> 0]
  OBVIOUS
<1>2. DOMAIN s = 1..n
  BY DEF Chain
<1>3. 1 \in 1..n
  BY <1>1, <1>2
<1>4. s[1] = [from |-> SubSeq(s, 1, 1 - 1), rounds |-> BlockRounds(y, 1)]
  BY <1>3 DEF Chain
<1>5. DOMAIN s[1] = {"zero"} /\ DOMAIN s[1] = {"from", "rounds"}
  <2>1. DOMAIN [zero |-> 0] = {"zero"}
    OBVIOUS
  <2>2. \A a, b : DOMAIN [from |-> a, rounds |-> b] = {"from", "rounds"}
    OBVIOUS
  <2>. QED  BY <1>1, <1>4, <2>1, <2>2, Zenon
<1>6. "from" # "zero"
  OBVIOUS
<1>. QED  BY <1>5, <1>6, Zenon

\* A chain of all the blocks of a message is its hash.
LEMMA HashDone ==
  ASSUME NEW y, NEW v, v.rounds = << >>, NEW n \in Nat, n = Last(y), Chain(v.blocks, y, n)
  PROVE  IsHashOf(v, y)
<1>. DEFINE s == v.blocks
<1>1. n \in Nat /\ n = PaddedBlocks(y.len) /\ v.rounds = << >>
  BY DEF Last
<1>3. Chain(s, y, n)
  OBVIOUS
<1>. HIDE DEF s
<1>4. s = [i \in 1..n |-> s[i]]
  BY <1>3 DEF Chain
<1>5. Len(s) = n
  <2>. DEFINE S == {s[i] : i \in 1..n}
  <2>1. \A i \in 1..n : s[i] \in S
    OBVIOUS
  <2>. HIDE DEF S
  <2>. QED  BY <1>1, <1>4, <2>1, FunSeq
<1>6. ASSUME NEW i \in 1..n
      PROVE  s[i].from = SubSeq(s, 1, i - 1) /\ s[i].rounds = BlockRounds(y, i)
  <2>. DEFINE a == SubSeq(s, 1, i - 1)
              b == BlockRounds(y, i)
  <2>1. s[i] = [from |-> a, rounds |-> b]
    BY <1>3, Zenon DEF Chain
  <2>. HIDE DEF a, b
  <2>2. s[i].from = a /\ s[i].rounds = b
    BY <2>1
  <2>. QED  BY <2>2 DEF a, b
<1>. QED  BY <1>1, <1>5, <1>6 DEF IsHashOf, s

-----------------------------------------------------------------------------
(* The pipeline, stage by stage *)

LEMMA SameRounds ==
  ASSUME rounds' = rounds, NEW y, NEW b
  PROVE  BlockRounds(y, b)' = BlockRounds(y, b)
  BY DEF BlockRounds

LEMMA SameChain ==
  ASSUME rounds' = rounds, NEW s, NEW y, NEW n
  PROVE  Chain(s, y, n)' <=> Chain(s, y, n)
<1>1. \A i : BlockRounds(y, i)' = BlockRounds(y, i)
  BY SameRounds
<1>. QED  BY <1>1, Zenon DEF Chain

LEMMA RoundsType ==
  ASSUME TypeOK
  PROVE  rounds \in Nat /\ rounds >= 3 /\ rounds >= LoadWords /\ rounds <= BlockBytes
  BY Sizes DEF TypeOK

\* A round is done, and the last one closes the block.
LEMMA HStep ==
  ASSUME TypeOK, rounds' = rounds, StepH, NEW y, NEW b \in Nat \ {0}, NEW r \in 1..rounds,
         WkHolds(y, b, r)
  PROVE  /\ r < rounds => /\ HashedTo(y, b, r)'
                          /\ hsave' = [blocks |-> h'.blocks, rounds |-> << >>]
         /\ r = rounds => HashedTo(y, b + 1, 0)'
<1>. DEFINE B == BlockRounds(y, b)
            s == h.blocks
            f == [q \in 1..(r - 1) |-> B[q]]
<1>1. rounds \in Nat /\ rounds >= 3 /\ r \in Nat /\ r >= 1 /\ b - 1 \in Nat
  BY RoundsType
<1>2. /\ wken /\ ~wkinit /\ wk = B[r] /\ wkstart = (r = 1)
      /\ h = [blocks |-> s, rounds |-> f] /\ Chain(s, y, b - 1)
      /\ r > 1 => hsave = [blocks |-> s, rounds |-> << >>]
      /\ hadder = IF r = rounds THEN hsave ELSE NoAdder
  BY DEF WkHolds, HashedTo
<1>3. h' = Compress(h, hadder, wk) /\ hsave' = IF wkstart THEN h ELSE hsave
  BY <1>2 DEF StepH
<1>4. Append(f, B[r]) = [q \in 1..r |-> B[q]]
  <2>1. r - 1 \in Nat /\ (r - 1) + 1 = r /\ f = [q \in 1..(r - 1) |-> f[q]]
    BY <1>1
  <2>2. Append(f, B[r]) = [q \in 1..((r - 1) + 1) |-> IF q <= r - 1 THEN f[q] ELSE B[r]]
    <3>. HIDE DEF f, B
    <3>. QED  BY <2>1, AppendTo
  <2>3. \A q \in 1..r : (IF q <= r - 1 THEN f[q] ELSE B[r]) = B[q]
    <3>. HIDE DEF B
    <3>. QED  BY <1>1
  <2>. HIDE DEF f, B
  <2>. QED  BY <2>1, <2>2, <2>3
<1>5. B' = B
  BY SameRounds
<1>6. CASE r < rounds
  <2>1. hadder = NoAdder
    BY <1>1, <1>2, <1>6
  <2>2. h' = [h EXCEPT !.rounds = Append(@, wk)]
    BY <1>3, <2>1 DEF Compress
  <2>3. h' = [blocks |-> s, rounds |-> Append(f, B[r])]
    <3>. HIDE DEF s, f, B
    <3>. QED  BY <1>2, <2>2
  <2>. HIDE DEF s
  <2>4. h'.blocks = s /\ h' = [blocks |-> s, rounds |-> [q \in 1..r |-> B[q]]]
    BY <1>4, <2>3
  <2>5. HashedTo(y, b, r)'
    <3>1. ASSUME NEW x, Chain(x, y, b - 1) PROVE Chain(x, y, b - 1)'
      BY <3>1, SameChain
    <3>2. \A x : Chain(x, y, b - 1) => Chain(x, y, b - 1)'
      BY <3>1
    <3>3. Chain(h.blocks, y, b - 1)'
      BY <1>2, <2>4, <3>2
    <3>. QED  BY <1>5, <2>4, <3>3 DEF HashedTo
  <2>6. hsave' = [blocks |-> h'.blocks, rounds |-> << >>]
    <3>1. CASE r = 1
      <4>1. f = << >>
        BY <3>1
      <4>. QED  BY <1>2, <1>3, <2>4, <3>1, <4>1
    <3>2. CASE r > 1
      <4>1. ~wkstart
        <5>1. r # 1
          BY <3>2
        <5>. QED  BY <1>2, <5>1, Zenon
      <4>. QED  BY <1>2, <1>3, <2>4, <3>2, <4>1
    <3>. QED  BY <1>1, <3>1, <3>2
  <2>. QED  BY <1>6, <2>5, <2>6
<1>7. CASE r = rounds
  <2>. DEFINE e == [from |-> s, rounds |-> B]
  <2>1. hadder = [blocks |-> s, rounds |-> << >>]
    BY <1>1, <1>2, <1>7
  <2>2. hadder # NoAdder
    BY <1>1, <1>2, <2>1, NotNoAdder
  <2>3. h' = [blocks |-> Append(hadder.blocks, [from |-> h.blocks,
                                                rounds |-> Append(h.rounds, wk)]),
              rounds |-> hadder.rounds]
    BY <1>3, <2>2 DEF Compress
  <2>4. Append(f, B[r]) = B
    <3>1. B = [q \in 1..rounds |-> B[q]]
      BY DEF BlockRounds
    <3>. HIDE DEF B, f
    <3>. QED  BY <1>4, <1>7, <3>1
  <2>5. h.rounds = f /\ hadder.blocks = s /\ hadder.rounds = << >>
    <3>. HIDE DEF s, f
    <3>. QED  BY <1>2, <2>1
  <2>6. h' = [blocks |-> Append(s, e), rounds |-> << >>]
    <3>. HIDE DEF f, B
    <3>. QED  BY <1>2, <2>3, <2>4, <2>5
  <2>7. Chain(Append(s, e), y, b)
    <3>1. (b - 1) + 1 = b
      OBVIOUS
    <3>2. Chain(Append(s, [from |-> s, rounds |-> BlockRounds(y, (b - 1) + 1)]), y, (b - 1) + 1)
      <4>. HIDE DEF s
      <4>. QED  BY <1>1, <1>2, ChainGrows
    <3>. QED  BY <3>1, <3>2
  <2>8. HashedTo(y, b + 1, 0)'
    <3>1. \A x : Chain(x, y, b) => Chain(x, y, b)'
      BY SameChain
    <3>. HIDE DEF e, s
    <3>2. h'.blocks = Append(s, e) /\ (b + 1) - 1 = b
      BY <2>6
    <3>3. Chain(h.blocks, y, b)'
      BY <2>7, <3>1, <3>2
    <3>4. Chain(h.blocks, y, (b + 1) - 1)'
      BY <3>2, <3>3
    <3>5. [q \in 1..0 |-> BlockRounds(y, b + 1)[q]]' = << >>
      OBVIOUS
    <3>6. h' = [blocks |-> h'.blocks, rounds |-> << >>]
      BY <2>6, <3>2
    <3>. QED  BY <3>4, <3>5, <3>6 DEF HashedTo
  <2>. QED  BY <1>7, <2>8
<1>8. r <= rounds
  BY <1>1
<1>. QED  BY <1>1, <1>6, <1>7, <1>8

LEMMA HReady ==
  ASSUME TypeOK, rounds' = rounds, StepH, NEW y, NEW b \in Nat \ {0}, WkReady(y, b)
  PROVE  HashedTo(y, b, 0)'
<1>1. CASE ~wken /\ ~wkinit /\ HashedTo(y, b, 0)
  <2>1. h' = h
    BY <1>1 DEF StepH
  <2>2. h = [blocks |-> h.blocks, rounds |-> << >>] /\ Chain(h.blocks, y, b - 1)
    <3>1. [q \in 1..0 |-> BlockRounds(y, b)[q]] = << >>
      OBVIOUS
    <3>. QED  BY <1>1, <3>1 DEF HashedTo
  <2>3. \A x : Chain(x, y, b - 1) => Chain(x, y, b - 1)'
    BY SameChain
  <2>4. Chain(h.blocks, y, b - 1)'
    BY <2>1, <2>2, <2>3
  <2>5. [q \in 1..0 |-> BlockRounds(y, b)[q]]' = << >>
    OBVIOUS
  <2>6. h' = [blocks |-> h'.blocks, rounds |-> << >>]
    BY <2>1, <2>2
  <2>. QED  BY <2>4, <2>5, <2>6 DEF HashedTo
<1>2. CASE ~wken /\ wkinit /\ b = 1
  <2>1. h' = [blocks |-> << >>, rounds |-> << >>]
    BY <1>2 DEF StepH, HashIV
  <2>2. \A x : Chain(x, y, 0) => Chain(x, y, 0)'
    BY SameChain
  <2>3. Chain(<< >>, y, 0)
    BY DEF Chain
  <2>4. h'.blocks = << >> /\ b - 1 = 0
    BY <1>2, <2>1
  <2>5. Chain(h.blocks, y, b - 1)'
    BY <2>2, <2>3, <2>4
  <2>6. [q \in 1..0 |-> BlockRounds(y, b)[q]]' = << >>
    OBVIOUS
  <2>7. h' = [blocks |-> h'.blocks, rounds |-> << >>]
    BY <2>1, <2>4
  <2>. QED  BY <2>5, <2>6, <2>7 DEF HashedTo
<1>3. CASE b > 1 /\ WkHolds(y, b - 1, rounds)
  <2>1. b - 1 \in Nat \ {0} /\ rounds \in 1..rounds /\ (b - 1) + 1 = b
    BY <1>3, RoundsType
  <2>2. ASSUME NEW c \in Nat \ {0}, WkHolds(y, c, rounds) PROVE HashedTo(y, c + 1, 0)'
    BY <2>1, <2>2, HStep
  <2>. QED  BY <1>3, <2>1, <2>2
<1>. QED  BY <1>1, <1>2, <1>3 DEF WkReady

\* What the w stage has is what the wk stage will have.
LEMMA WkStep ==
  ASSUME TypeOK, rounds' = rounds, StepWk, StepH,
         NEW y, NEW b \in Nat \ {0}, NEW r \in 1..rounds, WHolds(y, b, r)
  PROVE  WkHolds(y, b, r)'
<1>1. rounds \in Nat /\ rounds >= 3 /\ r \in Nat /\ r >= 1 /\ r <= rounds
  BY RoundsType
<1>2. /\ wen /\ ~winit /\ << w0, wadder >> = BlockRounds(y, b)[r]
      /\ wstart = (r = 1) /\ wfinal = (r = rounds) /\ wlast = (r = rounds /\ b = Last(y))
      /\ b = Last(y) => wid = y.tid /\ wlen = y.len
  BY DEF WHolds
<1>3. /\ wken' /\ ~wkinit' /\ wk' = BlockRounds(y, b)[r]'
      /\ wkstart' = (r = 1) /\ wklast' = (r = rounds /\ b = Last(y))
      /\ b = Last(y) => wkid' = y.tid /\ wklen' = y.len
  <2>1. BlockRounds(y, b)' = BlockRounds(y, b)
    BY SameRounds
  <2>. QED  BY <1>2, <2>1, Zenon DEF StepWk
<1>4. (Last(y)' = Last(y)) /\ ((r = rounds)' = (r = rounds))
  BY DEF Last, PaddedBlocks
<1>5. HashedTo(y, b, r - 1)'
  <2>1. CASE r = 1
    <3>1. WkReady(y, b)
      BY <2>1 DEF WHolds
    <3>2. HashedTo(y, b, 0)'
      BY <3>1, HReady
    <3>. QED  BY <2>1, <3>2
  <2>2. CASE r # 1
    <3>1. WkHolds(y, b, r - 1) /\ r - 1 \in 1..rounds /\ r - 1 < rounds
      BY <1>1, <2>2 DEF WHolds
    <3>2. ASSUME NEW t \in 1..rounds, WkHolds(y, b, t), t < rounds PROVE HashedTo(y, b, t)'
      BY <3>2, HStep
    <3>. QED  BY <3>1, <3>2
  <2>. QED  BY <2>1, <2>2
<1>6. r > 1 => hsave' = [blocks |-> h'.blocks, rounds |-> << >>]
  <2>. SUFFICES ASSUME r > 1 PROVE hsave' = [blocks |-> h'.blocks, rounds |-> << >>]
    OBVIOUS
  <2>1. r # 1
    BY <1>1
  <2>2. WkHolds(y, b, r - 1) /\ r - 1 \in 1..rounds /\ r - 1 < rounds
    BY <1>1, <2>1 DEF WHolds
  <2>. QED  BY <2>2, HStep
<1>7. hadder' = IF r = rounds THEN hsave' ELSE NoAdder
  <2>1. CASE r = rounds
    <3>1. r # 1 /\ r - 1 # 1
      BY <1>1, <2>1
    <3>2. WkHolds(y, b, r - 1)
      BY <3>1 DEF WHolds
    <3>3. ~wkstart
      BY <3>1, <3>2, Zenon DEF WkHolds
    <3>4. wfinal
      BY <1>2, <2>1, Zenon
    <3>. QED  BY <2>1, <3>3, <3>4 DEF StepH
  <2>2. CASE r # rounds
    <3>1. ~wfinal
      BY <1>2, <2>2, Zenon
    <3>. QED  BY <2>2, <3>1 DEF StepH
  <2>. QED  BY <2>1, <2>2
<1>. QED  BY <1>3, <1>4, <1>5, <1>6, <1>7, Zenon DEF WkHolds

LEMMA WkReadyStep ==
  ASSUME TypeOK, rounds' = rounds, StepWk, StepH,
         NEW y, NEW b \in Nat \ {0}, WReady(y, b)
  PROVE  WkReady(y, b)'
<1>1. CASE ~wen /\ ~winit /\ WkReady(y, b)
  <2>1. HashedTo(y, b, 0)'
    BY <1>1, HReady
  <2>2. ~wken' /\ ~wkinit'
    BY <1>1, Zenon DEF StepWk
  <2>. QED  BY <2>1, <2>2 DEF WkReady
<1>2. CASE ~wen /\ winit /\ b = 1 /\ ~wken
  <2>1. ~wken' /\ wkinit'
    BY <1>2, Zenon DEF StepWk
  <2>. QED  BY <1>2, <2>1 DEF WkReady
<1>3. CASE b > 1 /\ WHolds(y, b - 1, rounds)
  <2>1. b - 1 \in Nat \ {0} /\ rounds \in 1..rounds
    BY <1>3, RoundsType
  <2>2. ASSUME NEW c \in Nat \ {0}, WHolds(y, c, rounds), NEW r \in 1..rounds, r = rounds
        PROVE  WkHolds(y, c, rounds)'
    <3>1. WHolds(y, c, r)
      BY <2>2
    <3>2. WkHolds(y, c, r)'
      BY <3>1, WkStep
    <3>. QED  BY <2>2, <3>2
  <2>3. WkHolds(y, b - 1, rounds)'
    BY <1>3, <2>1, <2>2
  <2>. QED  BY <1>3, <2>3 DEF WkReady
<1>. QED  BY <1>1, <1>2, <1>3 DEF WReady


\* A word that is read is the message's.
LEMMA WordRead ==
  ASSUME TypeOK, NEW y, NEW b \in Nat \ {0}, MHolds(y, b)
  PROVE  << IF mcnt < LoadWords
            THEN [j \in 1..WordBytes |-> buff[mcnt * WordBytes + j - 1]]
            ELSE Expanded,
            mcnt >> = BlockRounds(y, b)[mcnt + 1]
<1>1. /\ rounds \in Nat /\ mcnt \in Nat /\ mcnt <= rounds - 1
      /\ WordBytes \in Nat /\ WordBytes >= 1 /\ LoadWords \in Nat
      /\ BlockBytes \in Nat /\ LoadWords * WordBytes = BlockBytes
  BY Sizes, RoundsType DEF MHolds
<1>2. \A p \in (mcnt * WordBytes)..(BlockBytes - 1) :
         buff[p] = PaddedByte(y, (b - 1) * BlockBytes + p)
  BY DEF MHolds
<1>3. /\ mcnt + 1 \in 1..rounds /\ (mcnt + 1) - 1 = mcnt
      /\ mcnt + 1 <= LoadWords <=> mcnt < LoadWords
  BY <1>1
<1>4. BlockRounds(y, b)[mcnt + 1] =
        << IF mcnt + 1 <= LoadWords
           THEN [j \in 1..WordBytes |->
                   PaddedByte(y, (b - 1) * BlockBytes + ((mcnt + 1) - 1) * WordBytes + j - 1)]
           ELSE Expanded,
           (mcnt + 1) - 1 >>
  BY <1>3 DEF BlockRounds
<1>5. CASE mcnt < LoadWords
  <2>. DEFINE at == mcnt * WordBytes
              start == (b - 1) * BlockBytes
  <2>1. at \in Nat /\ start \in Nat /\ at + WordBytes <= BlockBytes
    <3>1. mcnt + 1 <= LoadWords
      BY <1>1, <1>5
    <3>2. (mcnt + 1) * WordBytes <= LoadWords * WordBytes
      BY <1>1, <3>1
    <3>3. (mcnt + 1) * WordBytes = at + WordBytes
      BY <1>1
    <3>4. at \in Nat /\ start \in Nat
      BY <1>1
    <3>. QED  BY <1>1, <3>2, <3>3, <3>4
  <2>2. ((mcnt + 1) - 1) * WordBytes = at
    BY <1>3
  <2>3. \A p \in at..(BlockBytes - 1) : buff[p] = PaddedByte(y, start + p)
    BY <1>2
  <2>. HIDE DEF at, start
  <2>4. ASSUME NEW j \in 1..WordBytes
        PROVE  buff[at + j - 1] = PaddedByte(y, start + at + j - 1)
    <3>1. /\ at + j - 1 \in at..(BlockBytes - 1)
          /\ start + (at + j - 1) = start + at + j - 1
      BY <1>1, <2>1
    <3>. QED  BY <2>3, <3>1
  <2>5. [j \in 1..WordBytes |-> buff[at + j - 1]]
          = [j \in 1..WordBytes |-> PaddedByte(y, start + at + j - 1)]
    BY <2>4
  <2>6. BlockRounds(y, b)[mcnt + 1] =
          << [j \in 1..WordBytes |-> PaddedByte(y, start + at + j - 1)], mcnt >>
    <3>1. BlockRounds(y, b)[mcnt + 1] =
            << [j \in 1..WordBytes |->
                  PaddedByte(y, start + ((mcnt + 1) - 1) * WordBytes + j - 1)],
               mcnt >>
      BY <1>3, <1>4, <1>5 DEF start
    <3>. QED  BY <2>2, <3>1
  <2>. QED  BY <1>5, <2>5, <2>6 DEF at
<1>6. CASE ~(mcnt < LoadWords)
  BY <1>3, <1>4, <1>6
<1>. QED  BY <1>5, <1>6

\* What the m stage points at is what the w stage will have.
LEMMA WStep ==
  ASSUME TypeOK, rounds' = rounds, StepW, StepWk, StepH,
         NEW y, NEW b \in Nat \ {0}, MHolds(y, b), NEW r, r = mcnt + 1
  PROVE  r \in 1..rounds /\ WHolds(y, b, r)'
<1>1. /\ rounds \in Nat /\ mcnt \in Nat /\ mcnt <= rounds - 1
      /\ r \in 1..rounds /\ r - 1 = mcnt /\ ((r = 1) <=> (mcnt = 0))
      /\ ((r = rounds) <=> (mcnt = rounds - 1))
  BY RoundsType DEF MHolds
<1>2. /\ men /\ ~minit /\ mlast = (b = Last(y)) /\ (b = Last(y) => mid = y.tid /\ mlen = y.len)
      /\ IF mcnt = 0 THEN WReady(y, b) ELSE WHolds(y, b, mcnt)
  BY DEF MHolds
<1>3. << w0', wadder' >> = BlockRounds(y, b)[r]
  BY <1>1, WordRead DEF StepW
<1>4. /\ wen' /\ ~winit' /\ << w0', wadder' >> = BlockRounds(y, b)[r]'
      /\ wstart' = (r = 1) /\ wfinal' = (r = rounds)
      /\ wlast' = (r = rounds /\ b = Last(y))
      /\ b = Last(y) => wid' = y.tid /\ wlen' = y.len
  <2>1. BlockRounds(y, b)' = BlockRounds(y, b)
    BY SameRounds
  <2>2. wstart' = (r = 1) /\ wfinal' = (r = rounds)
    BY <1>1, <1>2, Zenon DEF StepW
  <2>3. wlast' = (r = rounds /\ b = Last(y))
    BY <1>1, <1>2, Zenon DEF StepW
  <2>4. wen' /\ ~winit' /\ (b = Last(y) => wid' = y.tid /\ wlen' = y.len)
    BY <1>2, Zenon DEF StepW
  <2>. QED  BY <1>3, <2>1, <2>2, <2>3, <2>4, Zenon
<1>5. (Last(y)' = Last(y)) /\ ((r = rounds)' = (r = rounds))
  BY DEF Last, PaddedBlocks
<1>6. r = 1 => WkReady(y, b)'
  <2>1. r = 1 => WReady(y, b)
    BY <1>1, <1>2
  <2>. QED  BY <2>1, WkReadyStep
<1>7. r # 1 => WkHolds(y, b, r - 1)'
  <2>. SUFFICES ASSUME r # 1 PROVE WkHolds(y, b, r - 1)'
    OBVIOUS
  <2>1. r - 1 \in 1..rounds
    BY <1>1
  <2>2. WHolds(y, b, r - 1)
    BY <1>1, <1>2
  <2>. QED  BY <2>1, <2>2, WkStep
<1>. QED  BY <1>1, <1>4, <1>5, <1>6, <1>7, Zenon DEF WHolds

\* With nothing in the m stage, the w stage will be ready too.
LEMMA WReadyStep ==
  ASSUME TypeOK, rounds' = rounds, StepW, StepWk, StepH, ~men, ~minit,
         NEW y, NEW b \in Nat \ {0}, WReady(y, b)
  PROVE  WReady(y, b)'
<1>1. WkReady(y, b)'
  BY WkReadyStep
<1>2. ~wen' /\ ~winit'
  BY Zenon DEF StepW
<1>. QED  BY <1>1, <1>2 DEF WReady


\* The last round of a block is read.
LEMMA MDone ==
  ASSUME TypeOK, rounds' = rounds, StepW, StepWk, StepH,
         NEW y, NEW b \in Nat \ {0}, MHolds(y, b), mcnt = rounds - 1
  PROVE  WHolds(y, b, rounds)' /\ WReady(y, b + 1)'
<1>1. PICK r : r = mcnt + 1
  OBVIOUS
<1>2. r = rounds /\ r = rounds' /\ b + 1 > 1 /\ (b + 1) - 1 = b
  BY <1>1, RoundsType
<1>3. WHolds(y, b, r)'
  BY <1>1, WStep
<1>4. WHolds(y, b, rounds)'
  BY <1>2, <1>3
<1>. QED  BY <1>2, <1>4 DEF WReady

\* The buffer is written behind the word that is read.
LEMMA MStep ==
  ASSUME TypeOK, rounds' = rounds, DOMAIN buff = 0..(BlockBytes - 1),
         StepBuff(bus), StepM, StepW, StepWk, StepH, ~Minit, ~Full,
         NEW y, NEW b \in Nat \ {0}, MHolds(y, b), mcnt # rounds - 1
  PROVE  MHolds(y, b)' /\ mcnt' = mcnt + 1 /\ men'
<1>1. /\ rounds \in Nat /\ mcnt \in Nat /\ mcnt + 1 <= rounds - 1 /\ rounds <= BlockBytes
      /\ WordBytes \in Nat /\ WordBytes >= 1 /\ BlockBytes \in Nat
      /\ icnt \in Nat /\ icnt <= BlockBytes - 1 /\ icnt <= mcnt
  <2>1. mcnt \in 0..(rounds - 1) /\ icnt <= mcnt
    BY DEF MHolds
  <2>2. icnt \in 0..(BlockBytes - 1)
    BY DEF TypeOK
  <2>3. rounds \in Nat /\ rounds <= BlockBytes
    BY RoundsType
  <2>4. WordBytes \in Nat /\ WordBytes >= 1 /\ BlockBytes \in Nat
    BY Sizes
  <2>. QED  BY <2>1, <2>2, <2>3, <2>4
<1>2. /\ men /\ ~minit /\ mlast = (b = Last(y)) /\ (b = Last(y) => mid = y.tid /\ mlen = y.len)
      /\ \A p \in (mcnt * WordBytes)..(BlockBytes - 1) :
            buff[p] = PaddedByte(y, (b - 1) * BlockBytes + p)
  BY DEF MHolds
<1>3. /\ ~minit' /\ men' /\ mlast' = mlast /\ mid' = mid /\ mlen' = mlen
      /\ mcnt' = (mcnt + 1) % BlockBytes
  <2>1. mlast \in BOOLEAN
    BY DEF TypeOK
  <2>. QED  BY <1>2, <2>1 DEF StepM, Full
<1>4. mcnt' = mcnt + 1 /\ mcnt' \in 0..(rounds - 1) /\ mcnt' # 0
  BY <1>1, <1>3
<1>5. icnt' <= mcnt'
  <2>1. icnt' \in {0, (icnt + 1) % BlockBytes, icnt}
    BY DEF StepBuff
  <2>2. (icnt + 1) % BlockBytes <= mcnt + 1
    <3>1. CASE icnt = BlockBytes - 1
      BY <1>1, <3>1
    <3>2. CASE icnt # BlockBytes - 1
      <4>1. icnt + 1 \in 0..(BlockBytes - 1)
        BY <1>1, <3>2
      <4>2. (icnt + 1) % BlockBytes = icnt + 1
        BY <1>1, <4>1
      <4>. QED  BY <1>1, <4>2
    <3>. QED  BY <3>1, <3>2
  <2>. QED  BY <1>1, <1>4, <2>1, <2>2
<1>6. \A p \in (mcnt' * WordBytes)..(BlockBytes - 1) :
         buff'[p] = PaddedByte(y, (b - 1) * BlockBytes + p)
  <2>. DEFINE m1 == (mcnt + 1) * WordBytes
              m0 == mcnt * WordBytes
  <2>1. m1 >= mcnt + 1 /\ m1 >= m0 /\ m1 \in Nat /\ m0 \in Nat
    <3>1. m1 = m0 + WordBytes /\ m0 >= mcnt /\ m0 \in Nat
      BY <1>1
    <3>. HIDE DEF m1, m0
    <3>. QED  BY <1>1, <3>1
  <2>2. mcnt' * WordBytes = m1
    BY <1>4
  <2>. HIDE DEF m1, m0
  <2>3. ASSUME NEW p \in m1..(BlockBytes - 1)
        PROVE  buff'[p] = PaddedByte(y, (b - 1) * BlockBytes + p)
    <3>1. p \in m0..(BlockBytes - 1) /\ p \in 0..(BlockBytes - 1) /\ p # icnt
      BY <1>1, <2>1
    <3>2. buff' = buff \/ buff' = [buff EXCEPT ![icnt] = idata]
      BY DEF StepBuff
    <3>3. buff'[p] = buff[p]
      BY <3>1, <3>2
    <3>4. buff[p] = PaddedByte(y, (b - 1) * BlockBytes + p)
      BY <1>2, <3>1 DEF m0
    <3>. QED  BY <3>3, <3>4
  <2>. QED  BY <2>2, <2>3
<1>7. WHolds(y, b, mcnt)'
  <2>1. PICK r : r = mcnt + 1
    OBVIOUS
  <2>2. WHolds(y, b, r)'
    BY <2>1, WStep
  <2>. QED  BY <1>4, <2>1, <2>2
<1>8. (Last(y)' = Last(y)) /\ (\A p : PaddedByte(y, p)' = PaddedByte(y, p))
  BY DEF Last, PaddedBlocks, PaddedByte
<1>9. \A p \in (mcnt' * WordBytes)..(BlockBytes - 1) :
         buff'[p] = PaddedByte(y, (b - 1) * BlockBytes + p)'
  BY <1>6, <1>8, Zenon
<1>. QED  BY <1>2, <1>3, <1>4, <1>5, <1>7, <1>8, <1>9 DEF MHolds

\* A complete block begins.
LEMMA MBegins ==
  ASSUME TypeOK, rounds' = rounds, DOMAIN buff = 0..(BlockBytes - 1),
         StepBuff(bus), StepM, ~Minit, Full, status # "IDLE",
         NEW y, NEW b \in Nat \ {0}, WReady(y, b)', Waits(y, b - 1),
         ilast = (b = Last(y)), b = Last(y) => ilen = y.len
  PROVE  MHolds(y, b)' /\ mcnt' = 0 /\ men' /\ icnt' = 0
<1>1. /\ rounds \in Nat /\ rounds >= 3 /\ WordBytes \in Nat /\ BlockBytes \in Nat
      /\ BlockBytes >= 3
  BY Sizes, RoundsType
<1>2. icnt = BlockBytes - 1 /\ ivalid
  BY DEF Full
<1>3. ~minit' /\ men' /\ mlast' = ilast /\ mcnt' = 0 /\ mid' = iid /\ mlen' = ilen
  BY <1>2 DEF StepM
<1>4. icnt' = 0 /\ buff' = [buff EXCEPT ![icnt] = idata]
  BY <1>1, <1>2 DEF StepBuff, Iinit
<1>5. /\ \A p \in 0..(icnt - 1) : buff[p] = PaddedByte(y, (b - 1) * BlockBytes + p)
      /\ idata = PaddedByte(y, (b - 1) * BlockBytes + icnt) /\ iid = y.tid
  BY <1>2 DEF Waits
<1>6. ASSUME NEW p \in 0..(BlockBytes - 1)
      PROVE  buff'[p] = PaddedByte(y, (b - 1) * BlockBytes + p)
  <2>1. CASE p = icnt
    BY <1>4, <1>5, <2>1
  <2>2. CASE p # icnt
    <3>1. p \in 0..(icnt - 1)
      BY <1>1, <1>2, <2>2
    <3>2. buff'[p] = buff[p]
      BY <1>4, <2>2
    <3>. QED  BY <1>5, <3>1, <3>2
  <2>. QED  BY <2>1, <2>2
<1>7. (Last(y)' = Last(y)) /\ (\A p : PaddedByte(y, p)' = PaddedByte(y, p))
  BY DEF Last, PaddedBlocks, PaddedByte
<1>8. \A p \in (mcnt' * WordBytes)..(BlockBytes - 1) :
         buff'[p] = PaddedByte(y, (b - 1) * BlockBytes + p)'
  <2>1. mcnt' * WordBytes = 0
    BY <1>1, <1>3
  <2>2. \A p \in 0..(BlockBytes - 1) :
           buff'[p] = PaddedByte(y, (b - 1) * BlockBytes + p)'
    BY <1>6, <1>7, Zenon
  <2>. QED  BY <2>1, <2>2, Zenon
<1>9. mcnt' \in 0..(rounds - 1) /\ icnt' <= mcnt' /\ (b = Last(y) => mid' = y.tid /\ mlen' = y.len)
  BY <1>1, <1>3, <1>4, <1>5
<1>. QED  BY <1>3, <1>4, <1>7, <1>8, <1>9 DEF MHolds


LEMMA LastType ==
  ASSUME NEW y \in Job
  PROVE  y.len \in Nat /\ y.len >= 1 /\ Last(y) \in Nat \ {0}
<1>1. y.len \in Nat /\ y.len >= 1
  BY StreamAssumption DEF Job
<1>2. y.len + LenBytes \in Nat /\ BlockBytes \in Nat /\ BlockBytes > 0
  BY <1>1, Sizes
<1>3. (y.len + LenBytes) \div BlockBytes \in Nat
  <2>. DEFINE k == y.len + LenBytes
  <2>. HIDE DEF k
  <2>1. k \in Nat => k \div BlockBytes \in Nat
    BY <1>2
  <2>. QED  BY <1>2, <2>1 DEF k
<1>. QED  BY <1>1, <1>3 DEF Last, PaddedBlocks

LEMMA SameLast ==
  ASSUME NEW y
  PROVE  Last(y)' = Last(y) /\ \A p : PaddedByte(y, p)' = PaddedByte(y, p)
  BY DEF Last, PaddedBlocks, PaddedByte

LEMMA GoesOn ==
  ASSUME TypeOK, rounds' = rounds, DOMAIN buff = 0..(BlockBytes - 1),
         StepBuff(bus), StepM, StepW, StepWk, StepH, ~Minit, ~Full,
         NEW y, NEW n \in Nat \ {0}, Goes(y, n)
  PROVE  Goes(y, n)'
<1>1. CASE MHolds(y, n) /\ mcnt # rounds - 1
  BY <1>1, MStep DEF Goes
<1>2. CASE MHolds(y, n) /\ mcnt = rounds - 1
  <2>1. WReady(y, n + 1)'
    BY <1>2, MDone
  <2>2. ~men' /\ ~minit'
    BY <1>2 DEF StepM, Full
  <2>. QED  BY <2>1, <2>2 DEF Goes
<1>3. CASE ~men /\ ~minit /\ WReady(y, n + 1)
  <2>1. WReady(y, n + 1)'
    BY <1>3, WReadyStep
  <2>2. ~men' /\ ~minit'
    BY <1>3 DEF StepM, Full
  <2>. QED  BY <2>1, <2>2 DEF Goes
<1>. QED  BY <1>1, <1>2, <1>3 DEF Goes

\* The pipeline has read block n when the next one is complete.
LEMMA GoesFull ==
  ASSUME TypeOK, rounds' = rounds, StepW, StepWk, StepH, Full,
         NEW y, NEW n \in Nat \ {0}, Goes(y, n)
  PROVE  WReady(y, n + 1)'
<1>1. CASE MHolds(y, n)
  <2>1. mcnt \in 0..(rounds - 1) /\ icnt <= mcnt
    BY <1>1 DEF MHolds
  <2>2. mcnt = rounds - 1
    BY <2>1, RoundsType, Sizes DEF Full
  <2>. QED  BY <1>1, <2>2, MDone
<1>2. CASE ~men /\ ~minit /\ WReady(y, n + 1)
  BY <1>2, WReadyStep
<1>. QED  BY <1>1, <1>2 DEF Goes

LEMMA WDrainsStep ==
  ASSUME TypeOK, rounds' = rounds, StepWk, StepH, NEW z \in Job, WDrains(z)
  PROVE  WkDrains(z)'
<1>. PICK n : n = Last(z)
  OBVIOUS
<1>1. n \in Nat \ {0} /\ rounds \in 1..rounds /\ Last(z)' = n
  BY LastType, RoundsType, SameLast
<1>2. ~winit /\ (wen => WHolds(z, n, rounds))
  BY DEF WDrains
<1>3. ~wkinit' /\ wken' = wen
  BY <1>2, Zenon DEF StepWk
<1>4. wen => WkHolds(z, n, rounds)'
  <2>1. ASSUME NEW r \in 1..rounds, WHolds(z, n, r) PROVE WkHolds(z, n, r)'
    BY <1>1, <2>1, WkStep
  <2>2. PICK r : r = rounds
    OBVIOUS
  <2>3. wen => WkHolds(z, n, r)'
    BY <1>1, <1>2, <2>1, <2>2
  <2>. QED  BY <2>2, <2>3
<1>. QED  BY <1>1, <1>3, <1>4 DEF WkDrains

LEMMA DrainsOn ==
  ASSUME TypeOK, rounds' = rounds, DOMAIN buff = 0..(BlockBytes - 1),
         StepBuff(bus), StepM, StepW, StepWk, StepH, ~Minit, ~Full,
         NEW z \in Job, Drains(z), Behind /\ mcnt' = mcnt + 1 => Behind'
  PROVE  Drains(z)'
<1>. PICK n : n = Last(z)
  OBVIOUS
<1>1. n \in Nat \ {0} /\ Last(z)' = n
  BY LastType, SameLast
<1>2. CASE men /\ mcnt # rounds - 1
  <2>1. MHolds(z, n)' /\ men' /\ mcnt' = mcnt + 1
    BY <1>1, <1>2, MStep DEF Drains
  <2>. QED  BY <1>1, <1>2, <2>1 DEF Drains
<1>3. CASE men /\ mcnt = rounds - 1
  <2>1. WHolds(z, n, rounds)'
    BY <1>1, <1>3, MDone DEF Drains
  <2>2. ~men' /\ ~minit' /\ ~winit'
    <3>1. ~minit
      BY <1>3 DEF Drains, MHolds
    <3>. QED  BY <1>3, <3>1 DEF StepM, StepW, Full
  <2>3. wen'
    BY <2>1 DEF WHolds
  <2>. QED  BY <1>1, <2>1, <2>2, <2>3 DEF Drains, WDrains
<1>4. CASE ~men
  <2>1. WkDrains(z)'
    BY <1>4, WDrainsStep DEF Drains
  <2>2. ~men' /\ ~minit' /\ ~winit' /\ ~wen'
    <3>1. ~minit
      BY <1>4 DEF Drains
    <3>. QED  BY <1>4, <3>1 DEF StepM, StepW, Full
  <2>. QED  BY <2>1, <2>2 DEF Drains, WDrains
<1>. QED  BY <1>2, <1>3, <1>4

\* When h is to be set, all of the message before is read.
LEMMA DrainsEnds ==
  ASSUME TypeOK, rounds' = rounds, StepBuff(bus), StepM, StepW, StepWk, StepH,
         Minit, status # "IDLE", NEW z \in Job, NEW y, Drains(z)
  PROVE  Starts(z, y)' /\ (men => mcnt = rounds - 1)
<1>. PICK n : n = Last(z)
  OBVIOUS
<1>1. n \in Nat \ {0} /\ Last(z)' = n
  BY LastType, SameLast
<1>2. icnt = BlockBytes - 2 /\ ~men' /\ minit'
  BY DEF Minit, StepM
<1>3. CASE men
  <2>1. MHolds(z, n) /\ Given < mcnt
    BY <1>3 DEF Drains, Behind
  <2>2. mcnt \in 0..(rounds - 1) /\ icnt <= mcnt /\ ~minit
    BY <2>1 DEF MHolds
  <2>3. ~ivalid /\ mcnt = rounds - 1
    <3>1. rounds \in Nat /\ rounds <= BlockBytes /\ BlockBytes \in Nat
      BY RoundsType, Sizes
    <3>2. CASE ivalid
      <4>1. Given = icnt + 1
        BY <3>2 DEF Given
      <4>. QED  BY <1>2, <2>1, <2>2, <3>1, <4>1
    <3>3. CASE ~ivalid
      <4>1. Given = icnt
        BY <1>2, <3>1, <3>3 DEF Given
      <4>. QED  BY <1>2, <2>1, <2>2, <3>1, <3>3, <4>1
    <3>. QED  BY <3>2, <3>3
  <2>4. WHolds(z, n, rounds)'
    BY <1>1, <2>1, <2>3, MDone
  <2>5. ~winit' /\ wen'
    BY <1>3, <2>2 DEF StepW
  <2>6. icnt' = BlockBytes - 2
    BY <1>2, <2>3 DEF StepBuff, Iinit
  <2>7. icnt' # BlockBytes - 1
    BY <2>6, Sizes
  <2>. QED  BY <1>1, <1>2, <2>3, <2>4, <2>5, <2>7 DEF Starts, WDrains
<1>4. CASE ~men
  <2>1. WkDrains(z)' /\ ~winit' /\ ~wen'
    BY <1>4, WDrainsStep DEF Drains, StepW
  <2>. QED  BY <1>2, <1>4, <2>1 DEF Starts, WDrains
<1>. QED  BY <1>3, <1>4

LEMMA StartsOn ==
  ASSUME TypeOK, rounds' = rounds, StepM, StepW, StepWk, StepH, ~Minit, ~Full,
         NEW z \in Job, NEW y, Starts(z, y)
  PROVE  Starts(z, y)'
<1>1. ~men /\ ~men' /\ ~minit' /\ ~wen'
  <2>1. ~men
    BY DEF Starts
  <2>. QED  BY <2>1 DEF StepM, StepW, Full
<1>2. CASE minit /\ WDrains(z)
  <2>1. WkDrains(z)' /\ winit'
    BY <1>2, WDrainsStep DEF StepW
  <2>. QED  BY <1>1, <2>1 DEF Starts
<1>3. CASE ~minit /\ winit /\ ~wen
  <2>1. ~winit' /\ wkinit' /\ ~wken'
    BY <1>3, Zenon DEF StepW, StepWk
  <2>2. WkReady(y, 1)'
    BY <2>1 DEF WkReady
  <2>. QED  BY <1>1, <2>1, <2>2 DEF Starts
<1>4. CASE ~minit /\ ~winit /\ ~wen /\ WkReady(y, 1)
  <2>1. ~winit' /\ ~wkinit' /\ ~wken'
    BY <1>4, Zenon DEF StepW, StepWk
  <2>2. WkReady(y, 1)'
    <3>1. HashedTo(y, 1, 0)'
      BY <1>4, HReady
    <3>. QED  BY <2>1, <3>1 DEF WkReady
  <2>. QED  BY <1>1, <2>1, <2>2 DEF Starts
<1>. QED  BY <1>2, <1>3, <1>4 DEF Starts

LEMMA StartsFull ==
  ASSUME TypeOK, rounds' = rounds, StepW, StepWk, StepH, Full,
         NEW z, NEW y, Starts(z, y)
  PROVE  WReady(y, 1)'
<1>1. ~men /\ ~wen' /\ winit' = minit /\ wken' = wen /\ wkinit' = winit
  BY Zenon DEF Starts, StepW, StepWk
<1>2. CASE minit /\ (icnt = BlockBytes - 1 => ~wen)
  BY <1>1, <1>2 DEF WReady, Full
<1>3. CASE ~minit /\ winit /\ ~wen
  <2>1. WkReady(y, 1)'
    BY <1>1, <1>3 DEF WkReady
  <2>. QED  BY <1>1, <1>3, <2>1 DEF WReady
<1>4. CASE ~minit /\ ~winit /\ ~wen /\ WkReady(y, 1)
  <2>1. HashedTo(y, 1, 0)'
    BY <1>4, HReady
  <2>2. WkReady(y, 1)'
    BY <1>1, <1>4, <2>1 DEF WkReady
  <2>. QED  BY <1>1, <1>4, <2>2 DEF WReady
<1>. QED  BY <1>2, <1>3, <1>4 DEF Starts


LEMMA LeavesOn ==
  ASSUME TypeOK, rounds' = rounds, DOMAIN buff = 0..(BlockBytes - 1),
         StepBuff(bus), StepM, StepW, StepWk, StepH, Full => ~ilast,
         NEW z \in Job, Leaves(z)
  PROVE  Leaves(z)'
<1>. PICK n : n = Last(z)
  OBVIOUS
<1>1. n \in Nat \ {0} /\ Last(z)' = n
  BY LastType, SameLast
<1>2. /\ mlast => MHolds(z, n) /\ ~wlast /\ ~wklast
      /\ wlast => WHolds(z, n, rounds) /\ ~wklast
  BY DEF Leaves
<1>3. wlast' = (mlast /\ mcnt = rounds - 1) /\ wklast' = wlast
  BY Zenon DEF StepW, StepWk
<1>4. ASSUME mlast' PROVE MHolds(z, n)' /\ ~wlast' /\ ~wklast'
  <2>1. ~Minit /\ ~Full /\ mlast /\ mcnt # rounds - 1
    BY <1>4 DEF StepM, Full
  <2>2. MHolds(z, n)'
    BY <1>1, <1>2, <2>1, MStep
  <2>. QED  BY <1>2, <1>3, <2>1, <2>2, Zenon
<1>5. ASSUME wlast' PROVE WHolds(z, n, rounds)' /\ ~wklast'
  <2>1. mlast /\ mcnt = rounds - 1
    BY <1>3, <1>5, Zenon
  <2>2. WHolds(z, n, rounds)'
    BY <1>1, <1>2, <2>1, MDone
  <2>. QED  BY <1>2, <1>3, <2>1, <2>2, Zenon
<1>6. ASSUME wklast' PROVE WkHolds(z, n, rounds)'
  <2>1. PICK r : r = rounds
    OBVIOUS
  <2>2. r \in 1..rounds /\ WHolds(z, n, r)
    BY <1>2, <1>3, <1>6, <2>1, RoundsType
  <2>3. WkHolds(z, n, r)'
    BY <1>1, <2>2, WkStep
  <2>. QED  BY <2>1, <2>3
<1>. QED  BY <1>1, <1>4, <1>5, <1>6 DEF Leaves

LEMMA LeavesNew ==
  ASSUME StepW, StepWk, ~mlast, ~wlast, NEW y, NEW n, n = Last(y), MHolds(y, n)'
  PROVE  Leaves(y)'
<1>1. ~wlast' /\ ~wklast'
  BY Zenon DEF StepW, StepWk
<1>2. Last(y)' = n
  BY SameLast
<1>. QED  BY <1>1, <1>2 DEF Leaves

\* No end of a message is before a block that is not the first.
LEMMA NoEndBefore ==
  ASSUME TypeOK, NEW z, Leaves(z), NEW y, NEW n \in Nat \ {0}, Goes(y, n),
         n # Last(y), n - 1 # Last(y)
  PROVE  ~mlast /\ ~wlast
<1>1. (mlast => men) /\ (wlast => wen)
  BY DEF Leaves, MHolds, WHolds
<1>2. ASSUME NEW b, b # Last(y), NEW r, WHolds(y, b, r) PROVE ~wlast
  BY <1>2, Zenon DEF WHolds
<1>3. CASE MHolds(y, n)
  <2>1. ~mlast
    BY <1>3, Zenon DEF MHolds
  <2>2. CASE mcnt = 0
    <3>1. WReady(y, n)
      BY <1>3, <2>2 DEF MHolds
    <3>. QED  BY <1>1, <1>2, <2>1, <3>1 DEF WReady
  <2>3. CASE mcnt # 0
    <3>1. WHolds(y, n, mcnt)
      BY <1>3, <2>3 DEF MHolds
    <3>. QED  BY <2>1, <3>1, Zenon DEF WHolds
  <2>. QED  BY <2>2, <2>3
<1>4. CASE ~men /\ WReady(y, n + 1)
  <2>1. WHolds(y, (n + 1) - 1, rounds) => ~wlast
    <3>1. (n + 1) - 1 = n
      OBVIOUS
    <3>2. WHolds(y, n, rounds) => ~wlast
      BY Zenon DEF WHolds
    <3>. QED  BY <3>1, <3>2
  <2>. QED  BY <1>1, <1>4, <2>1 DEF WReady
<1>. QED  BY <1>3, <1>4 DEF Goes


-----------------------------------------------------------------------------
(* Types *)

LEMMA TypeInit ==
  ASSUME Init
  PROVE  TypeOK
<1>1. /\ rounds \in RoundCounts /\ status \in Status /\ cnt = 0 /\ tcnt = 0
      /\ icnt = 0 /\ mcnt = 0 /\ sent = 1 /\ iid \in Id
      /\ bus = [tvalid |-> FALSE, tlast |-> FALSE, tid |-> iid, tdata |-> << iid, 1 >>]
      /\ job = [tid |-> iid, len |-> 1]
  BY DEF Init, Sha2Init, Status
<1>2. BlockBytes \in Nat /\ BlockBytes >= 1 /\ MaxCnt \in Nat /\ MaxLen \in Nat /\ MaxLen >= 1
  BY Sizes, Sha2Assumption, StreamAssumption
<1>3. 1 \in 1..MaxLen
  BY <1>2
<1>4. bus \in Input /\ job \in Job
  <2>1. << iid, 1 >> \in MsgByte
    BY <1>1, <1>3, StreamAssumption
  <2>. QED  BY <1>1, <1>3, <2>1 DEF Input, Job
<1>5. {tvalid_d, ifirst, ivalid, ilast, minit, men, mlast, winit, wen, wlast,
       wstart, wfinal, wkinit, wken, wklast, wkstart, ovalid} \subseteq BOOLEAN
  BY Zenon DEF Init, Sha2Init
<1>6. {iid, mid, wid, wkid, oid} \subseteq Id /\ {ilen, mlen, wlen, wklen, olen} \subseteq 0..MaxCnt
  BY <1>2 DEF Init, Sha2Init
<1>. QED  BY <1>1, <1>2, <1>3, <1>4, <1>5, <1>6 DEF TypeOK

LEMMA FrontType ==
  ASSUME TypeOK,
         \/ FrontIdle(bus) \/ FrontRun(bus) \/ FrontAdd8 \/ FrontAdd0 \/ FrontAddLen \/ FrontDone
  PROVE  /\ status' \in Status /\ cnt' \in 0..MaxCnt /\ tcnt' \in 0..(BlockBytes - 1)
         /\ ifirst' \in BOOLEAN /\ ivalid' \in BOOLEAN /\ ilast' \in BOOLEAN
         /\ iid' \in Id /\ ilen' \in 0..MaxCnt
<1>1. /\ BlockBytes \in Nat /\ BlockBytes >= 1 /\ MaxCnt \in Nat /\ MaxCnt >= 1
      /\ status \in Status /\ cnt \in 0..MaxCnt /\ tcnt \in 0..(BlockBytes - 1)
      /\ iid \in Id /\ bus.tid \in Id /\ 0 \in 0..MaxCnt /\ 1 \in 0..MaxCnt
  BY Sizes, Sha2Assumption, StreamAssumption DEF TypeOK, Input
<1>2. \A k \in Nat : k % BlockBytes \in 0..(BlockBytes - 1)
  BY <1>1
<1>3. /\ (cnt + 1) % BlockBytes \in 0..(BlockBytes - 1)
      /\ (tcnt + 1) % BlockBytes \in 0..(BlockBytes - 1)
  <2>1. cnt + 1 \in Nat /\ tcnt + 1 \in Nat
    BY <1>1
  <2>. QED  BY <1>2, <2>1
<1>4. ifirst \in BOOLEAN /\ Posedge(bus) \in BOOLEAN
  BY DEF TypeOK, Posedge, Input
<1>5. CASE FrontIdle(bus)
  <2>1. status' \in Status /\ ivalid' \in BOOLEAN /\ ilast' \in BOOLEAN
    BY <1>4, <1>5 DEF FrontIdle, TakeByte, Status
  <2>2. tcnt' = (cnt + 1) % BlockBytes /\ ifirst' = Posedge(bus) /\ iid' = bus.tid /\ ilen' = cnt
    BY <1>5 DEF FrontIdle, TakeByte
  <2>3. cnt' \in {1, cnt}
    BY <1>5 DEF FrontIdle
  <2>. QED  BY <1>1, <1>3, <1>4, <2>1, <2>2, <2>3
<1>6. CASE FrontRun(bus)
  <2>1. status' \in Status /\ ivalid' \in BOOLEAN /\ ilast' \in BOOLEAN
    BY <1>4, <1>6 DEF FrontRun, TakeByte, Status
  <2>2. tcnt' = (cnt + 1) % BlockBytes /\ iid' = iid /\ ilen' = cnt /\ ifirst' \in BOOLEAN
    BY <1>6 DEF FrontRun, TakeByte, FirstOver
  <2>3. cnt' = cnt \/ (cnt' = cnt + 1 /\ cnt < MaxCnt)
    BY <1>6 DEF FrontRun
  <2>4. cnt' \in 0..MaxCnt
    BY <1>1, <2>3
  <2>. QED  BY <1>1, <1>3, <1>4, <2>1, <2>2, <2>4
<1>7. CASE FrontAdd8
  BY <1>1, <1>3, <1>7 DEF FrontAdd8, FirstOver, Status
<1>8. CASE FrontAdd0
  BY <1>1, <1>3, <1>8 DEF FrontAdd0, FirstOver, Status
<1>9. CASE FrontAddLen
  BY <1>1, <1>3, <1>9 DEF FrontAddLen, FirstOver, Status
<1>10. CASE FrontDone
  <2>1. 0 \in 0..(BlockBytes - 1)
    BY <1>1
  <2>2. /\ status' = "IDLE" /\ cnt' = 0 /\ tcnt' = 0 /\ iid' = iid /\ ilen' = 0
        /\ ivalid' = FALSE /\ ifirst' = FALSE /\ ilast' = FALSE
    BY <1>10 DEF FrontDone
  <2>. QED  BY <1>1, <2>1, <2>2 DEF Status
<1>. QED  BY <1>5, <1>6, <1>7, <1>8, <1>9, <1>10

LEMMA BuffType ==
  ASSUME TypeOK, StepBuff(bus)
  PROVE  /\ icnt' \in 0..(BlockBytes - 1)
         /\ DOMAIN buff = 0..(BlockBytes - 1) => DOMAIN buff' = 0..(BlockBytes - 1)
<1>1. BlockBytes \in Nat /\ BlockBytes >= 1 /\ icnt \in 0..(BlockBytes - 1)
  BY Sizes DEF TypeOK
<1>2. (icnt + 1) % BlockBytes \in 0..(BlockBytes - 1)
  <2>1. icnt + 1 \in Nat
    BY <1>1
  <2>. QED  BY <1>1, <2>1
<1>. QED  BY <1>1, <1>2 DEF StepBuff

LEMMA PipeType ==
  ASSUME TypeOK, StepM, StepW, StepWk, StepH, tvalid_d' = bus.tvalid
  PROVE  /\ mcnt' \in 0..(BlockBytes - 1)
         /\ {tvalid_d, minit, men, mlast, winit, wen, wlast,
             wstart, wfinal, wkinit, wken, wklast, wkstart, ovalid}' \subseteq BOOLEAN
         /\ {mid, wid, wkid, oid}' \subseteq Id
         /\ {mlen, wlen, wklen, olen}' \subseteq 0..MaxCnt
<1>1. BlockBytes \in Nat /\ BlockBytes >= 1 /\ mcnt \in 0..(BlockBytes - 1)
  BY Sizes DEF TypeOK
<1>2. (mcnt + 1) % BlockBytes \in 0..(BlockBytes - 1)
  <2>1. mcnt + 1 \in Nat
    BY <1>1
  <2>. QED  BY <1>1, <2>1
<1>3. mcnt' \in {0, (mcnt + 1) % BlockBytes, mcnt}
  BY DEF StepM
<1>4. mcnt' \in 0..(BlockBytes - 1)
  BY <1>1, <1>2, <1>3
<1>5. tvalid_d' \in BOOLEAN /\ minit' \in BOOLEAN /\ men' \in BOOLEAN /\ mlast' \in BOOLEAN
  BY DEF TypeOK, StepM, Minit, Input
<1>6. /\ winit' \in BOOLEAN /\ wen' \in BOOLEAN /\ wlast' \in BOOLEAN
      /\ wstart' \in BOOLEAN /\ wfinal' \in BOOLEAN
  BY DEF TypeOK, StepW
<1>7. /\ wkinit' \in BOOLEAN /\ wken' \in BOOLEAN /\ wklast' \in BOOLEAN
      /\ wkstart' \in BOOLEAN /\ ovalid' \in BOOLEAN
  BY DEF TypeOK, StepWk, StepH
<1>8. {mid, wid, wkid, oid}' \subseteq Id /\ {mlen, wlen, wklen, olen}' \subseteq 0..MaxCnt
  BY DEF TypeOK, StepM, StepW, StepWk, StepH
<1>. QED  BY <1>4, <1>5, <1>6, <1>7, <1>8

LEMMA ClientType ==
  ASSUME TypeOK, ClientFirst \/ ClientNext \/ ClientLower \/ ClientWait
  PROVE  bus' \in Input /\ job' \in Job /\ sent' \in 1..MaxLen
<1>1. bus \in Input /\ job \in Job /\ sent \in 1..MaxLen /\ MaxLen \in Nat /\ MaxLen >= 1
  BY StreamAssumption DEF TypeOK
<1>2. ASSUME NEW x \in Job, NEW k \in 1..MaxLen, Present(x, k)
      PROVE  bus' \in Input /\ job' \in Job /\ sent' \in 1..MaxLen
  <2>1. << x.tid, k >> \in MsgByte /\ x.tid \in Id /\ (k = x.len) \in BOOLEAN
    BY <1>2, StreamAssumption DEF Job
  <2>. QED  BY <1>2, <2>1 DEF Present, Input
<1>3. CASE ClientFirst
  <2>1. 1 \in 1..MaxLen
    BY <1>1
  <2>. QED  BY <1>2, <1>3, <2>1 DEF ClientFirst
<1>4. CASE ClientNext
  <2>1. sent + 1 \in 1..MaxLen
    BY <1>1, <1>4 DEF ClientNext, Job
  <2>. QED  BY <1>1, <1>2, <1>4, <2>1 DEF ClientNext
<1>5. CASE ClientLower
  BY <1>1, <1>5 DEF ClientLower, Input
<1>6. CASE ClientWait
  BY <1>1, <1>6 DEF ClientWait
<1>. QED  BY <1>3, <1>4, <1>5, <1>6

\* A clock keeps the registers in their ranges.
LEMMA TypeStep ==
  ASSUME TypeOK, Next
  PROVE  TypeOK'
<1>1. Cycle(bus) /\ (ClientFirst \/ ClientNext \/ ClientLower \/ ClientWait)
  BY DEF Next, First, Byte, Lower, Wait
<1>2. rounds' \in RoundCounts
  BY <1>1 DEF Cycle, TypeOK
<1>3. /\ status' \in Status /\ cnt' \in 0..MaxCnt /\ tcnt' \in 0..(BlockBytes - 1)
      /\ ifirst' \in BOOLEAN /\ ivalid' \in BOOLEAN /\ ilast' \in BOOLEAN
      /\ iid' \in Id /\ ilen' \in 0..MaxCnt
  BY <1>1, FrontType DEF Cycle
<1>4. icnt' \in 0..(BlockBytes - 1)
  BY <1>1, BuffType DEF Cycle
<1>5. /\ mcnt' \in 0..(BlockBytes - 1)
      /\ {tvalid_d, minit, men, mlast, winit, wen, wlast,
          wstart, wfinal, wkinit, wken, wklast, wkstart, ovalid}' \subseteq BOOLEAN
      /\ {mid, wid, wkid, oid}' \subseteq Id
      /\ {mlen, wlen, wklen, olen}' \subseteq 0..MaxCnt
  BY <1>1, PipeType DEF Cycle
<1>6. bus' \in Input /\ job' \in Job /\ sent' \in 1..MaxLen
  BY <1>1, ClientType
<1>. QED  BY <1>2, <1>3, <1>4, <1>5, <1>6 DEF TypeOK


-----------------------------------------------------------------------------
(* Positions in the padded message *)

LEMMA TimesMono ==
  ASSUME NEW a \in Nat, NEW b \in Nat, NEW r \in Nat, a <= b
  PROVE  a * r \in Nat /\ b * r \in Nat /\ a * r <= b * r
<1>1. PICK d \in Nat : b = a + d
  <2>1. b - a \in Nat /\ b = a + (b - a)
    OBVIOUS
  <2>. QED  BY <2>1
<1>2. b * r = a * r + d * r /\ a * r \in Nat /\ d * r \in Nat
  BY <1>1
<1>. QED  BY <1>2

LEMMA Division ==
  ASSUME NEW a \in Nat, NEW r \in Nat \ {0}, NEW n \in Nat, NEW c \in 0..(r - 1), a = n * r + c
  PROVE  a \div r = n /\ a % r = c
<1>. DEFINE q == a \div r
            m == a % r
            qr == q * r
            nr == n * r
<1>1. q \in Nat /\ m \in 0..(r - 1) /\ qr + m = a
  <2>1. q \in Nat /\ m \in 0..(r - 1) /\ r * q + m = a /\ r * q = qr
    OBVIOUS
  <2>. QED  BY <2>1
<1>. HIDE DEF q, m
<1>2. nr \in Nat /\ qr \in Nat /\ a = nr + c
  BY <1>1
<1>3. (n + 1) * r = nr + r /\ (q + 1) * r = qr + r
  BY <1>1
<1>4. ASSUME q < n PROVE FALSE
  <2>1. (q + 1) * r <= n * r
    BY <1>1, <1>4, TimesMono
  <2>2. qr + r <= nr
    BY <1>3, <2>1
  <2>. HIDE DEF qr, nr
  <2>. QED  BY <1>1, <1>2, <2>2
<1>5. ASSUME n < q PROVE FALSE
  <2>1. (n + 1) * r <= q * r
    BY <1>1, <1>5, TimesMono
  <2>2. nr + r <= qr
    BY <1>3, <2>1
  <2>. HIDE DEF qr, nr
  <2>. QED  BY <1>1, <1>2, <2>2
<1>6. q = n
  BY <1>1, <1>4, <1>5
<1>7. m = c
  <2>1. qr = nr
    BY <1>6
  <2>. HIDE DEF qr, nr
  <2>. QED  BY <1>1, <1>2, <2>1
<1>. QED  BY <1>6, <1>7 DEF q, m

\* The last block is the one that holds the end of the length.
LEMMA LastBounds ==
  ASSUME NEW y \in Job
  PROVE  /\ (Last(y) - 1) * BlockBytes \in Nat
         /\ Last(y) * BlockBytes = (Last(y) - 1) * BlockBytes + BlockBytes
         /\ (Last(y) - 1) * BlockBytes <= y.len + LenBytes
         /\ y.len + LenBytes < Last(y) * BlockBytes
<1>. DEFINE a == y.len + LenBytes
            q == a \div BlockBytes
            m == a % BlockBytes
<1>1. y.len \in Nat /\ LenBytes \in Nat /\ BlockBytes \in Nat /\ BlockBytes >= 1
  BY LastType, Sizes
<1>2. a \in Nat
  BY <1>1
<1>3. q \in Nat /\ m \in 0..(BlockBytes - 1) /\ BlockBytes * q + m = a
  <2>. HIDE DEF a
  <2>. QED  BY <1>1, <1>2
<1>4. Last(y) = q + 1
  BY DEF Last, PaddedBlocks
<1>. HIDE DEF q, m, a
<1>5. Last(y) - 1 = q /\ (q + 1) * BlockBytes = q * BlockBytes + BlockBytes
      /\ q * BlockBytes = BlockBytes * q /\ q * BlockBytes \in Nat
  BY <1>1, <1>3, <1>4
<1>6. q * BlockBytes <= a /\ a < q * BlockBytes + BlockBytes
  <2>. DEFINE k == q * BlockBytes
  <2>1. k + m = a /\ k \in Nat
    BY <1>3, <1>5
  <2>. HIDE DEF k
  <2>2. k <= a /\ a < k + BlockBytes
    BY <1>1, <1>2, <1>3, <2>1
  <2>. QED  BY <2>2 DEF k
<1>. QED  BY <1>4, <1>5, <1>6 DEF a

\* A block that begins before the end of the last one and ends after its start.
LEMMA LastBlock ==
  ASSUME NEW y \in Job, NEW m \in Nat, (Last(y) - 1) * BlockBytes < m * BlockBytes + BlockBytes,
         m * BlockBytes < Last(y) * BlockBytes
  PROVE  m = Last(y) - 1
<1>. DEFINE total == Last(y) * BlockBytes
            past == (Last(y) - 1) * BlockBytes
            mb == m * BlockBytes
<1>1. /\ Last(y) - 1 \in Nat /\ m + 1 \in Nat /\ Last(y) \in Nat
      /\ BlockBytes \in Nat /\ (m + 1) * BlockBytes = mb + BlockBytes
  BY LastType, Sizes
<1>2. past \in Nat /\ total \in Nat /\ mb \in Nat
  BY <1>1
<1>3. past < mb + BlockBytes /\ mb < total
  OBVIOUS
<1>4. ASSUME m + 1 <= Last(y) - 1 PROVE FALSE
  <2>1. (m + 1) * BlockBytes <= past
    BY <1>1, <1>4, TimesMono
  <2>2. mb + BlockBytes <= past
    BY <1>1, <2>1
  <2>. HIDE DEF total, past, mb
  <2>. QED  BY <1>1, <1>2, <1>3, <2>2
<1>5. ASSUME Last(y) <= m PROVE FALSE
  <2>1. total <= mb
    BY <1>1, <1>5, TimesMono
  <2>. HIDE DEF total, past, mb
  <2>. QED  BY <1>2, <1>3, <2>1
<1>. HIDE DEF total, past, mb
<1>. QED  BY <1>1, <1>4, <1>5

\* The bytes of the length are counted from the start of its field.
LEMMA LengthByte ==
  ASSUME NEW t \in Nat, t >= BlockBytes - LenBytes, t < BlockBytes
  PROVE  t % LenBytes = t - (BlockBytes - LenBytes)
<1>1. BlockBytes \in Nat /\ LenBytes \in Nat \ {0} /\ LenBytes <= BlockBytes
      /\ BlockBytes % LenBytes = 0
  BY Sizes, Sha2Assumption
<1>. DEFINE q == BlockBytes \div LenBytes
            c == t - (BlockBytes - LenBytes)
            k == q * LenBytes
<1>2. q \in Nat /\ k = BlockBytes
  BY <1>1
<1>. HIDE DEF q
<1>3. q >= 1
  <2>1. CASE q = 0
    BY <1>1, <1>2, <2>1
  <2>. QED  BY <1>2, <2>1
<1>4. q - 1 \in Nat /\ (q - 1) * LenBytes = k - LenBytes
  BY <1>1, <1>2, <1>3
<1>5. c \in 0..(LenBytes - 1) /\ t = (q - 1) * LenBytes + c
  <2>. HIDE DEF k
  <2>. QED  BY <1>1, <1>2, <1>4
<1>. HIDE DEF c, k
<1>6. t % LenBytes = c
  BY <1>1, <1>4, <1>5, Division
<1>. QED  BY <1>6 DEF c

\* Where the front end will be: a byte further on if it has one to hand on.
LEMMA Moves ==
  ASSUME TypeOK, StepBuff(bus), status # "IDLE", NEW n \in Nat, NEW m,
         m = IF Full THEN n + 1 ELSE n
  PROVE  /\ m \in Nat /\ icnt' \in 0..(BlockBytes - 1) /\ Handed(n) \in Nat
         /\ m * BlockBytes + icnt' = Handed(n)
         /\ Full => icnt' = 0
         /\ ~Full => icnt' = Given
         /\ ivalid => icnt' = (icnt + 1) % BlockBytes
         /\ (Handed(n) + 1) % BlockBytes = (icnt' + 1) % BlockBytes
<1>1. /\ BlockBytes \in Nat /\ BlockBytes >= 3 /\ icnt \in 0..(BlockBytes - 1)
      /\ ivalid \in BOOLEAN
  BY Sizes DEF TypeOK
<1>. DEFINE k == n * BlockBytes
<1>2. k \in Nat /\ (n + 1) * BlockBytes = k + BlockBytes
  BY <1>1
<1>3. ~Iinit(bus)
  BY DEF Iinit
<1>4. ivalid => icnt' = (icnt + 1) % BlockBytes
  BY <1>3 DEF StepBuff
<1>5. ~ivalid => icnt' = icnt
  BY <1>3 DEF StepBuff
<1>6. Given = IF ivalid THEN icnt + 1 ELSE icnt
  BY <1>1 DEF Given
<1>7. ASSUME Full
      PROVE  /\ m \in Nat /\ icnt' \in 0..(BlockBytes - 1) /\ Handed(n) \in Nat
             /\ m * BlockBytes + icnt' = Handed(n) /\ icnt' = 0
  <2>1. icnt' = 0 /\ Given = BlockBytes
    <3>1. icnt + 1 = BlockBytes /\ ivalid
      BY <1>1, <1>7 DEF Full
    <3>2. BlockBytes % BlockBytes = 0
      BY <1>1
    <3>. QED  BY <1>4, <1>6, <3>1, <3>2
  <2>2. m * BlockBytes = k + BlockBytes /\ Handed(n) = k + BlockBytes
    BY <1>2, <1>7, <2>1 DEF Handed
  <2>. HIDE DEF k
  <2>. QED  BY <1>1, <1>2, <1>4, <1>7, <2>1, <2>2
<1>8. ASSUME ~Full
      PROVE  /\ m \in Nat /\ icnt' \in 0..(BlockBytes - 1) /\ Handed(n) \in Nat
             /\ m * BlockBytes + icnt' = Handed(n) /\ icnt' = Given
  <2>1. icnt' = Given /\ Given \in 0..(BlockBytes - 1)
    <3>1. CASE ivalid
      <4>1. icnt + 1 \in 0..(BlockBytes - 1)
        BY <1>1, <1>8, <3>1 DEF Full
      <4>2. (icnt + 1) % BlockBytes = icnt + 1
        BY <1>1, <4>1
      <4>. QED  BY <1>4, <1>6, <3>1, <4>1, <4>2
    <3>2. CASE ~ivalid
      BY <1>1, <1>5, <1>6, <3>2
    <3>. QED  BY <3>1, <3>2
  <2>2. m * BlockBytes = k /\ Handed(n) = k + Given
    BY <1>8 DEF Handed
  <2>. HIDE DEF k
  <2>. QED  BY <1>1, <1>2, <1>4, <1>8, <2>1, <2>2
<1>9. (Handed(n) + 1) % BlockBytes = (icnt' + 1) % BlockBytes
  <2>. DEFINE j == m * BlockBytes
              i == icnt'
              g == Handed(n)
  <2>0. BlockBytes \in Nat \ {0}
    BY <1>1
  <2>1. m \in Nat /\ i \in 0..(BlockBytes - 1) /\ g \in Nat /\ j + i = g
    BY <1>7, <1>8
  <2>2. j \in Nat /\ (m + 1) * BlockBytes = j + BlockBytes /\ m + 1 \in Nat
    BY <1>1, <2>1
  <2>. HIDE DEF g, i
  <2>3. CASE i = BlockBytes - 1
    <3>1. g + 1 = (m + 1) * BlockBytes + 0 /\ g + 1 \in Nat /\ 0 \in 0..(BlockBytes - 1)
      <4>. HIDE DEF j
      <4>. QED  BY <1>1, <2>1, <2>2, <2>3
    <3>2. (g + 1) % BlockBytes = 0
      BY <2>0, <2>2, <3>1, Division, Zenon
    <3>3. (i + 1) % BlockBytes = 0
      BY <1>1, <2>3
    <3>. QED  BY <3>2, <3>3 DEF g, i
  <2>4. CASE i # BlockBytes - 1
    <3>1. g + 1 = m * BlockBytes + (i + 1) /\ g + 1 \in Nat /\ i + 1 \in 0..(BlockBytes - 1)
      <4>1. g + 1 = j + (i + 1) /\ g + 1 \in Nat /\ i + 1 \in 0..(BlockBytes - 1)
        <5>. HIDE DEF j
        <5>. QED  BY <1>1, <2>1, <2>2, <2>4
      <4>. QED  BY <4>1
    <3>2. (g + 1) % BlockBytes = i + 1
      <4>. DEFINE c == i + 1
                  e == g + 1
      <4>1. e \in Nat /\ c \in 0..(BlockBytes - 1) /\ e = m * BlockBytes + c
        BY <3>1
      <4>. HIDE DEF c, e
      <4>2. e % BlockBytes = c
        BY <2>0, <2>1, <4>1, Division, Zenon
      <4>. QED  BY <4>2 DEF c, e
    <3>3. (i + 1) % BlockBytes = i + 1
      BY <1>1, <3>1
    <3>. QED  BY <3>2, <3>3 DEF g, i
  <2>. QED  BY <2>3, <2>4
<1>. QED  BY <1>4, <1>7, <1>8, <1>9


\* The buffer gets the byte that was handed on, and the next one is handed on.
LEMMA WaitsOn ==
  ASSUME TypeOK, DOMAIN buff = 0..(BlockBytes - 1), StepBuff(bus), status # "IDLE",
         NEW y, NEW n \in Nat, NEW m, m = IF Full THEN n + 1 ELSE n, Waits(y, n),
         ivalid' => idata' = PaddedByte(y, Handed(n)),
         tcnt' = (icnt' + 1) % BlockBytes, iid' = iid, ilast' = (status' = "DONE"), FirstOver
  PROVE  Waits(y, m)' /\ Handed(m)' = Handed(n) + IF ivalid' THEN 1 ELSE 0
<1>1. /\ BlockBytes \in Nat /\ BlockBytes >= 3 /\ icnt \in 0..(BlockBytes - 1)
      /\ ivalid \in BOOLEAN
  BY Sizes DEF TypeOK
<1>2. /\ m \in Nat /\ icnt' \in 0..(BlockBytes - 1) /\ Handed(n) \in Nat
      /\ m * BlockBytes + icnt' = Handed(n)
      /\ Full => icnt' = 0
      /\ ~Full => icnt' = Given
  BY Moves
<1>3. /\ \A p \in 0..(icnt - 1) : buff[p] = PaddedByte(y, n * BlockBytes + p)
      /\ ivalid => idata = PaddedByte(y, n * BlockBytes + icnt)
      /\ tcnt = (icnt + 1) % BlockBytes /\ iid = y.tid
      /\ ifirst => n = 0 /\ icnt <= BlockBytes - 2
      /\ n = 0 /\ icnt < BlockBytes - 2 => ifirst
  BY DEF Waits
<1>4. \A p : PaddedByte(y, p)' = PaddedByte(y, p)
  BY SameLast
<1>5. ASSUME NEW p \in 0..(icnt' - 1) PROVE buff'[p] = PaddedByte(y, m * BlockBytes + p)
  <2>1. ~Full /\ m = n /\ icnt' = Given
    <3>1. ~(0 \in 0..(0 - 1)) /\ ~(p \in 0..(0 - 1))
      OBVIOUS
    <3>2. (Full => icnt' = 0) /\ (~Full => icnt' = Given)
      BY <1>2
    <3>3. ~Full
      BY <3>1, <3>2
    <3>. QED  BY <3>2, <3>3
  <2>2. CASE ivalid
    <3>1. buff' = [buff EXCEPT ![icnt] = idata]
      BY <2>2 DEF StepBuff, Iinit
    <3>2. p = icnt \/ p \in 0..(icnt - 1)
      BY <1>1, <2>1, <2>2 DEF Given
    <3>3. p \in 0..(BlockBytes - 1)
      BY <1>1, <3>2
    <3>4. CASE p = icnt
      BY <1>3, <2>1, <2>2, <3>1, <3>3, <3>4
    <3>5. CASE p # icnt
      <4>1. buff'[p] = buff[p] /\ p \in 0..(icnt - 1)
        BY <3>1, <3>2, <3>3, <3>5
      <4>. QED  BY <1>3, <2>1, <4>1
    <3>. QED  BY <3>4, <3>5
  <2>3. CASE ~ivalid
    <3>1. buff' = buff
      BY <2>3 DEF StepBuff, Iinit
    <3>2. p \in 0..(icnt - 1)
      BY <1>1, <2>1, <2>3 DEF Given
    <3>. QED  BY <1>3, <2>1, <3>1, <3>2
  <2>. QED  BY <2>2, <2>3
<1>6. \A p \in 0..(icnt' - 1) : buff'[p] = PaddedByte(y, m * BlockBytes + p)'
  BY <1>4, <1>5, Zenon
<1>7. ivalid' => idata' = PaddedByte(y, m * BlockBytes + icnt)'
  <2>1. \A p : p = m * BlockBytes + icnt' => PaddedByte(y, p)' = PaddedByte(y, Handed(n))
    BY <1>2, <1>4, Zenon
  <2>. QED  BY <2>1
<1>8. (icnt + 1) % BlockBytes = IF icnt = BlockBytes - 1 THEN 0 ELSE icnt + 1
  <2>1. CASE icnt = BlockBytes - 1
    BY <1>1, <2>1
  <2>2. CASE icnt # BlockBytes - 1
    <3>1. icnt + 1 \in 0..(BlockBytes - 1)
      BY <1>1, <2>2
    <3>. QED  BY <1>1, <2>2, <3>1
  <2>. QED  BY <2>1, <2>2
<1>9. Given = IF ivalid THEN icnt + 1 ELSE icnt
  BY <1>1 DEF Given
<1>10. ifirst' => m = 0 /\ icnt' <= BlockBytes - 2
  <2>. SUFFICES ASSUME ifirst' PROVE m = 0 /\ icnt' <= BlockBytes - 2
    OBVIOUS
  <2>1. ifirst /\ tcnt # BlockBytes - 1
    BY DEF FirstOver
  <2>2. n = 0 /\ icnt <= BlockBytes - 2 /\ icnt + 1 # BlockBytes - 1
    BY <1>1, <1>3, <1>8, <2>1
  <2>3. ~Full
    BY <1>1, <2>2 DEF Full
  <2>. QED  BY <1>1, <1>2, <1>9, <2>2, <2>3
<1>11. m = 0 /\ icnt' < BlockBytes - 2 => ifirst'
  <2>. SUFFICES ASSUME m = 0, icnt' < BlockBytes - 2 PROVE ifirst'
    OBVIOUS
  <2>1. ~Full /\ n = 0
    BY <1>2
  <2>2. icnt < BlockBytes - 2
    BY <1>1, <1>2, <1>9, <2>1
  <2>3. ifirst /\ tcnt # BlockBytes - 1
    BY <1>1, <1>3, <1>8, <2>1, <2>2
  <2>. QED  BY <2>3 DEF FirstOver
<1>12. Waits(y, m)'
  BY <1>3, <1>6, <1>7, <1>10, <1>11 DEF Waits
<1>13. Handed(m)' = Handed(n) + IF ivalid' THEN 1 ELSE 0
  <2>. DEFINE k == m * BlockBytes
              v == IF ivalid' THEN 1 ELSE 0
  <2>1. k \in Nat /\ k + icnt' = Handed(n) /\ v \in Nat
    BY <1>1, <1>2
  <2>2. Handed(m)' = k + (icnt' + v)
    BY DEF Handed, Given
  <2>. HIDE DEF k, v
  <2>3. k + (icnt' + v) = Handed(n) + v
    BY <1>2, <2>1
  <2>. QED  BY <2>2, <2>3 DEF v
<1>. QED  BY <1>12, <1>13


LEMMA PaddedBytes ==
  ASSUME NEW y \in Job, NEW p \in Nat
  PROVE  /\ p < y.len => PaddedByte(y, p) = Data(<< y.tid, p + 1 >>)
         /\ p = y.len => PaddedByte(y, p) = PadByte("80")
         /\ y.len < p /\ p < Last(y) * BlockBytes - LenBytes => PaddedByte(y, p) = PadByte("00")
         /\ p >= Last(y) * BlockBytes - LenBytes =>
              PaddedByte(y, p) = LenByte(y.len, p - (Last(y) * BlockBytes - LenBytes))
<1>. DEFINE total == Last(y) * BlockBytes
<1>1. y.len \in Nat /\ LenBytes \in Nat
  BY LastType, Sizes
<1>2. total \in Nat /\ y.len + LenBytes < total
  <2>. DEFINE k == (Last(y) - 1) * BlockBytes
  <2>1. k \in Nat /\ total = k + BlockBytes /\ BlockBytes \in Nat
    BY LastBounds, Sizes
  <2>2. total \in Nat
    <3>. HIDE DEF k, total
    <3>. QED  BY <2>1
  <2>. QED  BY <2>2, LastBounds
<1>3. PaddedByte(y, p) =
        IF p < y.len THEN Data(<< y.tid, p + 1 >>)
        ELSE IF p = y.len THEN PadByte("80")
        ELSE IF p < total - LenBytes THEN PadByte("00")
        ELSE LenByte(y.len, p - (total - LenBytes))
  BY DEF PaddedByte, Last
<1>. HIDE DEF total
<1>4. p < y.len => PaddedByte(y, p) = Data(<< y.tid, p + 1 >>)
  BY <1>3
<1>5. p = y.len => PaddedByte(y, p) = PadByte("80")
  BY <1>1, <1>3
<1>6. y.len < p /\ p < total - LenBytes => PaddedByte(y, p) = PadByte("00")
  BY <1>1, <1>2, <1>3
<1>7. p >= total - LenBytes => PaddedByte(y, p) = LenByte(y.len, p - (total - LenBytes))
  <2>1. p >= total - LenBytes => ~(p < y.len) /\ p # y.len /\ ~(p < total - LenBytes)
    BY <1>1, <1>2
  <2>. QED  BY <1>3, <2>1
<1>. QED  BY <1>4, <1>5, <1>6, <1>7 DEF total

-----------------------------------------------------------------------------
(* The client *)

LEMMA ClientStep ==
  ASSUME TypeOK, BusInv, ClientFirst \/ ClientNext \/ ClientLower \/ ClientWait,
         tvalid_d' = bus.tvalid
  PROVE  /\ \/ ~Pending' /\ job' = job /\ sent' = sent /\ due' = Due
            \/ /\ Pending' /\ ~Pending /\ job' = job /\ sent' = sent + 1 /\ due' = Due
               /\ sent < job.len /\ status \in {"IDLE", "RUN"}
            \/ /\ Pending' /\ ~Pending /\ job' \in Job /\ sent' = 1 /\ due' = Append(Due, job')
               /\ sent = job.len /\ status \in {"IDLE", "RUN"}
         /\ sent' <= job'.len
         /\ Pending' => bus' = [tvalid |-> TRUE, tlast |-> sent' = job'.len, tid |-> job'.tid,
                                tdata |-> << job'.tid, sent' >>]
<1>1. sent \in Nat /\ sent <= job.len /\ job.len \in Nat /\ job \in Job
  BY LastType, StreamAssumption DEF TypeOK, BusInv
<1>2. ASSUME NEW x, NEW k, Present(x, k), ~bus.tvalid
      PROVE  /\ Pending' /\ ~Pending /\ job' = x /\ sent' = k
             /\ bus' = [tvalid |-> TRUE, tlast |-> sent' = job'.len, tid |-> job'.tid,
                        tdata |-> << job'.tid, sent' >>]
  <2>1. bus' = [tvalid |-> TRUE, tlast |-> k = x.len, tid |-> x.tid, tdata |-> << x.tid, k >>]
    BY <1>2 DEF Present
  <2>2. job' = x /\ sent' = k
    BY <1>2 DEF Present
  <2>3. bus'.tvalid
    BY <2>1
  <2>4. Pending' /\ ~Pending
    BY <1>2, <2>3, Zenon DEF Pending
  <2>. QED  BY <2>1, <2>2, <2>4
<1>3. CASE ClientFirst
  <2>1. PICK x \in Job : Present(x, 1) /\ due' = Append(Due, x)
    BY <1>3 DEF ClientFirst
  <2>2. sent = job.len /\ ~bus.tvalid /\ status \in {"IDLE", "RUN"}
    BY <1>3 DEF ClientFirst, MayRaise, Tready
  <2>3. /\ Pending' /\ ~Pending /\ job' = x /\ sent' = 1
        /\ bus' = [tvalid |-> TRUE, tlast |-> sent' = job'.len, tid |-> job'.tid,
                   tdata |-> << job'.tid, sent' >>]
    BY <1>2, <2>1, <2>2
  <2>4. sent' <= job'.len
    BY <2>3, LastType
  <2>. QED  BY <2>1, <2>2, <2>3, <2>4
<1>4. CASE ClientNext
  <2>1. Present(job, sent + 1) /\ due' = Due /\ sent < job.len /\ ~bus.tvalid
        /\ status \in {"IDLE", "RUN"}
    BY <1>4 DEF ClientNext, MayRaise, Tready
  <2>2. PICK x, k : x = job /\ k = sent + 1
    OBVIOUS
  <2>3. /\ Pending' /\ ~Pending /\ job' = x /\ sent' = k
        /\ bus' = [tvalid |-> TRUE, tlast |-> sent' = job'.len, tid |-> job'.tid,
                   tdata |-> << job'.tid, sent' >>]
    BY <1>2, <2>1, <2>2
  <2>4. sent' <= job'.len
    BY <1>1, <2>1, <2>2, <2>3
  <2>. QED  BY <2>1, <2>2, <2>3, <2>4
<1>5. CASE ClientLower \/ ClientWait
  <2>1. job' = job /\ sent' = sent /\ due' = Due
    BY <1>5 DEF ClientLower, ClientWait
  <2>2. ~Pending'
    <3>1. ~bus'.tvalid \/ bus' = bus
      BY <1>5 DEF ClientLower, ClientWait, TypeOK, Input
    <3>. QED  BY <3>1, Zenon DEF Pending
  <2>. QED  BY <1>1, <2>1, <2>2
<1>. QED  BY <1>3, <1>4, <1>5


-----------------------------------------------------------------------------
(* The front end, state by state *)

LEMMA RunStep ==
  ASSUME TypeOK, BusInv, DOMAIN buff = 0..(BlockBytes - 1), StepBuff(bus), FrontRun(bus),
         NEW y \in Job, y = job, NEW n \in Nat, NEW m, m = IF Full THEN n + 1 ELSE n,
         FrontInv(y, n),
         (~Pending' /\ sent' = sent)
           \/ (Pending' /\ ~Pending /\ sent' = sent + 1 /\ sent < y.len)
  PROVE  FrontInv(y, m)' /\ status' \in {"RUN", "ADD8"}
<1>1. /\ status = "RUN" /\ Waits(y, n) /\ cnt = Handed(n)
      /\ (Pending => sent = cnt + 1) /\ (~Pending => sent = cnt /\ cnt < y.len)
  BY DEF FrontInv, InMessage, FrontRun
<1>2. /\ Handed(n) \in Nat /\ (Handed(n) + 1) % BlockBytes = (icnt' + 1) % BlockBytes
  BY <1>1, Moves
<1>3. y.len \in Nat /\ sent <= y.len /\ cnt \in Nat
  BY <1>1, <1>2, LastType DEF BusInv
<1>4. /\ tcnt' = (icnt' + 1) % BlockBytes /\ iid' = iid /\ FirstOver
      /\ ivalid' = Pending /\ ilast' = FALSE /\ idata' = Data(bus.tdata)
      /\ cnt' = IF Pending THEN cnt + 1 ELSE cnt
      /\ status' = IF ~Pending THEN "RUN" ELSE IF bus.tlast THEN "ADD8" ELSE "RUN"
  BY <1>1, <1>2 DEF FrontRun, TakeByte, Posedge, Pending
<1>5. ASSUME Pending
      PROVE  /\ bus.tlast = (sent = y.len) /\ bus.tdata = << y.tid, sent >>
             /\ ~Pending' /\ sent' = sent /\ sent = cnt + 1
  BY <1>1, <1>5 DEF BusInv
<1>6. ivalid' => idata' = PaddedByte(y, Handed(n))
  <2>1. ASSUME ivalid' PROVE idata' = PaddedByte(y, cnt)
    <3>1. Pending
      BY <1>4, <2>1
    <3>2. idata' = Data(<< y.tid, cnt + 1 >>) /\ cnt < y.len
      BY <1>3, <1>4, <1>5, <3>1
    <3>3. PaddedByte(y, cnt) = Data(<< y.tid, cnt + 1 >>)
      BY <1>3, <3>2, PaddedBytes
    <3>. QED  BY <3>2, <3>3
  <2>. QED  BY <1>1, <2>1
<1>7. ilast' = (status' = "DONE")
  BY <1>4
<1>8. Waits(y, m)' /\ Handed(m)' = cnt + IF ivalid' THEN 1 ELSE 0
  <2>1. Waits(y, m)' /\ Handed(m)' = Handed(n) + IF ivalid' THEN 1 ELSE 0
    BY <1>1, <1>4, <1>6, <1>7, WaitsOn
  <2>. QED  BY <1>1, <2>1
<1>9. CASE Pending /\ sent = y.len
  <2>1. status' = "ADD8" /\ ivalid' /\ cnt' = y.len /\ sent' = y.len /\ ~Pending'
    BY <1>4, <1>5, <1>9
  <2>2. Handed(m)' = cnt'
    BY <1>4, <1>8, <1>9, <2>1
  <2>3. InPadding(y, m)'
    BY <2>1, <2>2 DEF InPadding
  <2>. QED  BY <1>8, <2>1, <2>3 DEF FrontInv
<1>10. CASE Pending /\ sent # y.len
  <2>1. status' = "RUN" /\ ivalid' /\ cnt' = cnt + 1 /\ sent' = cnt' /\ ~Pending'
    BY <1>4, <1>5, <1>10
  <2>2. Handed(m)' = cnt' /\ cnt' < y.len
    BY <1>3, <1>5, <1>8, <1>10, <2>1
  <2>3. InMessage(y, m)'
    BY <2>1, <2>2 DEF InMessage
  <2>. QED  BY <1>8, <2>1, <2>3 DEF FrontInv
<1>11. CASE ~Pending
  <2>1. status' = "RUN" /\ ~ivalid' /\ cnt' = cnt /\ sent = cnt /\ cnt < y.len
    BY <1>1, <1>4, <1>11
  <2>2. Handed(m)' = cnt'
    BY <1>2, <1>3, <1>8, <2>1
  <2>3. (Pending' /\ sent' = cnt' + 1) \/ (~Pending' /\ sent' = cnt' /\ cnt' < y.len)
    BY <2>1
  <2>4. InMessage(y, m)'
    BY <2>2, <2>3 DEF InMessage
  <2>. QED  BY <1>8, <2>1, <2>4 DEF FrontInv
<1>. QED  BY <1>9, <1>10, <1>11

LEMMA Add8Step ==
  ASSUME TypeOK, DOMAIN buff = 0..(BlockBytes - 1), StepBuff(bus), FrontAdd8,
         NEW y \in Job, NEW n \in Nat, NEW m, m = IF Full THEN n + 1 ELSE n,
         FrontInv(y, n), ~Pending', sent' = sent
  PROVE  FrontInv(y, m)' /\ status' \in {"ADD0", "ADDLEN"}
<1>1. /\ status = "ADD8" /\ Waits(y, n) /\ cnt = Handed(n) /\ cnt = y.len /\ sent = y.len
  BY DEF FrontInv, InPadding, FrontAdd8
<1>2. /\ Handed(n) \in Nat /\ (Handed(n) + 1) % BlockBytes = (icnt' + 1) % BlockBytes
      /\ m \in Nat /\ icnt' \in 0..(BlockBytes - 1) /\ m * BlockBytes + icnt' = Handed(n)
  BY <1>1, Moves
<1>3. /\ BlockBytes \in Nat \ {0} /\ LenBytes \in Nat /\ LenBytes >= 1
      /\ LenBytes + 2 <= BlockBytes /\ y.len \in Nat
  BY Sizes, LastType
<1>4. cnt % BlockBytes = icnt'
  <2>. DEFINE i == icnt'
              g == Handed(n)
  <2>1. g \in Nat /\ i \in 0..(BlockBytes - 1) /\ g = m * BlockBytes + i
    BY <1>2
  <2>. HIDE DEF g, i
  <2>2. g % BlockBytes = i
    BY <1>2, <1>3, <2>1, Division, Zenon
  <2>. QED  BY <1>1, <2>2 DEF g, i
<1>5. /\ tcnt' = (icnt' + 1) % BlockBytes /\ iid' = iid /\ FirstOver
      /\ ivalid' = TRUE /\ ilast' = FALSE /\ idata' = PadByte("80") /\ cnt' = cnt
      /\ status' = IF icnt' = BlockBytes - LenBytes - 1 THEN "ADDLEN" ELSE "ADD0"
  BY <1>1, <1>2, <1>4 DEF FrontAdd8
<1>6. idata' = PaddedByte(y, Handed(n))
  <2>1. PaddedByte(y, y.len) = PadByte("80")
    BY <1>3, PaddedBytes
  <2>. QED  BY <1>1, <1>5, <2>1
<1>7. ilast' = (status' = "DONE")
  BY <1>5
<1>8. Waits(y, m)' /\ Handed(m)' = y.len + 1
  <2>1. Waits(y, m)' /\ Handed(m)' = Handed(n) + IF ivalid' THEN 1 ELSE 0
    BY <1>1, <1>5, <1>6, <1>7, WaitsOn
  <2>. QED  BY <1>1, <1>5, <2>1
<1>9. cnt' = y.len /\ sent' = y.len /\ ~Pending' /\ ivalid'
  BY <1>1, <1>5
<1>. DEFINE total == Last(y) * BlockBytes
            past == (Last(y) - 1) * BlockBytes
            mb == m * BlockBytes
            l == y.len
            i == icnt'
<1>10. /\ past \in Nat /\ total = past + BlockBytes /\ past <= l + LenBytes
       /\ l + LenBytes < total /\ mb \in Nat /\ mb + i = l /\ i \in 0..(BlockBytes - 1)
       /\ l \in Nat
  BY <1>1, <1>2, <1>3, LastBounds
<1>11. Given' = i + 1
  BY <1>5 DEF Given
<1>12. CASE i = BlockBytes - LenBytes - 1
  <2>1. m = Last(y) - 1
    <3>1. past < mb + BlockBytes /\ mb < total
      <4>. HIDE DEF total, past, mb, l, i
      <4>. QED  BY <1>3, <1>10, <1>12
    <3>. QED  BY <1>2, <3>1, LastBlock
  <2>2. status' = "ADDLEN" /\ Given' < BlockBytes /\ Given' >= BlockBytes - LenBytes
    <3>1. status' = "ADDLEN"
      BY <1>5, <1>12
    <3>. HIDE DEF i
    <3>. QED  BY <1>3, <1>10, <1>11, <1>12, <3>1
  <2>3. InPadding(y, m)'
    <3>1. Last(y)' = Last(y)
      BY SameLast
    <3>. QED  BY <1>9, <2>1, <2>2, <3>1 DEF InPadding
  <2>. QED  BY <1>8, <2>2, <2>3 DEF FrontInv
<1>13. CASE i # BlockBytes - LenBytes - 1
  <2>1. status' = "ADD0"
    BY <1>5, <1>13
  <2>2. l + 1 < total - LenBytes
    <3>1. ASSUME l + 1 = total - LenBytes PROVE FALSE
      <4>1. /\ l = past + (BlockBytes - LenBytes - 1)
            /\ BlockBytes - LenBytes - 1 \in 0..(BlockBytes - 1)
        <5>. HIDE DEF total, past, mb, l, i
        <5>. QED  BY <1>3, <1>10, <3>1
      <4>2. l % BlockBytes = BlockBytes - LenBytes - 1
        <5>. DEFINE c == BlockBytes - LenBytes - 1
                    q == Last(y) - 1
        <5>1. q \in Nat /\ c \in 0..(BlockBytes - 1) /\ l = q * BlockBytes + c /\ l \in Nat
          BY <1>10, <4>1, LastType
        <5>. HIDE DEF c, q, l
        <5>2. l % BlockBytes = c
          BY <1>3, <5>1, Division, Zenon
        <5>. QED  BY <5>2 DEF c
      <4>. QED  BY <1>1, <1>4, <1>13, <4>2
    <3>. HIDE DEF total, past, mb, l, i
    <3>. QED  BY <1>3, <1>10, <3>1
  <2>3. cnt' < Handed(m)' /\ Handed(m)' < total - LenBytes
    BY <1>3, <1>8, <1>9, <2>2
  <2>4. InPadding(y, m)'
    <3>1. Last(y)' = Last(y)
      BY SameLast
    <3>. QED  BY <1>9, <2>1, <2>3, <3>1 DEF InPadding
  <2>. QED  BY <1>8, <2>1, <2>4 DEF FrontInv
<1>. QED  BY <1>12, <1>13


LEMMA Add0Step ==
  ASSUME TypeOK, DOMAIN buff = 0..(BlockBytes - 1), StepBuff(bus), FrontAdd0,
         NEW y \in Job, NEW n \in Nat, NEW m, m = IF Full THEN n + 1 ELSE n,
         FrontInv(y, n), ~Pending', sent' = sent
  PROVE  FrontInv(y, m)' /\ status' \in {"ADD0", "ADDLEN"}
<1>. DEFINE total == Last(y) * BlockBytes
            past == (Last(y) - 1) * BlockBytes
            mb == m * BlockBytes
            l == y.len
            i == icnt'
            g == Handed(n)
<1>1. /\ status = "ADD0" /\ Waits(y, n) /\ cnt = l /\ sent = l /\ ivalid
      /\ cnt < g /\ g < total - LenBytes
  BY DEF FrontInv, InPadding, FrontAdd0
<1>2. /\ g \in Nat /\ m \in Nat /\ i \in 0..(BlockBytes - 1) /\ mb + i = g
      /\ i = (icnt + 1) % BlockBytes
  BY <1>1, Moves
<1>3. /\ BlockBytes \in Nat \ {0} /\ LenBytes \in Nat /\ LenBytes >= 1
      /\ LenBytes + 2 <= BlockBytes /\ l \in Nat /\ mb \in Nat
  <2>1. BlockBytes \in Nat
    BY Sizes
  <2>2. mb \in Nat
    BY <1>2, <2>1
  <2>. QED  BY <2>2, Sizes, LastType
<1>4. tcnt = i
  BY <1>1, <1>2 DEF Waits
<1>5. /\ tcnt' = (icnt' + 1) % BlockBytes /\ iid' = iid /\ FirstOver
      /\ ivalid' = TRUE /\ ilast' = FALSE /\ idata' = PadByte("00") /\ cnt' = cnt
      /\ status' = IF i = BlockBytes - LenBytes - 1 THEN "ADDLEN" ELSE "ADD0"
  BY <1>4 DEF FrontAdd0
<1>6. idata' = PaddedByte(y, Handed(n))
  <2>1. PaddedByte(y, g) = PadByte("00")
    BY <1>1, <1>2, PaddedBytes
  <2>. QED  BY <1>5, <2>1
<1>7. ilast' = (status' = "DONE")
  BY <1>5
<1>8. Waits(y, m)' /\ Handed(m)' = g + 1
  <2>1. Waits(y, m)' /\ Handed(m)' = Handed(n) + IF ivalid' THEN 1 ELSE 0
    BY <1>1, <1>5, <1>6, <1>7, WaitsOn
  <2>. QED  BY <1>5, <2>1
<1>9. cnt' = y.len /\ sent' = y.len /\ ~Pending' /\ ivalid'
  BY <1>1, <1>5
<1>10. /\ past \in Nat /\ total = past + BlockBytes /\ past <= l + LenBytes
       /\ l + LenBytes < total
  BY LastBounds
<1>11. Given' = i + 1
  BY <1>5 DEF Given
<1>12. CASE i = BlockBytes - LenBytes - 1
  <2>1. m = Last(y) - 1
    <3>1. past < mb + BlockBytes /\ mb < total
      <4>. HIDE DEF total, past, mb, l, i, g
      <4>. QED  BY <1>1, <1>2, <1>3, <1>10, <1>12
    <3>. QED  BY <1>2, <3>1, LastBlock
  <2>2. status' = "ADDLEN" /\ Given' < BlockBytes /\ Given' >= BlockBytes - LenBytes
    <3>1. status' = "ADDLEN"
      BY <1>5, <1>12
    <3>. HIDE DEF i
    <3>. QED  BY <1>2, <1>3, <1>11, <1>12, <3>1
  <2>3. InPadding(y, m)'
    <3>1. Last(y)' = Last(y)
      BY SameLast
    <3>. QED  BY <1>9, <2>1, <2>2, <3>1 DEF InPadding
  <2>. QED  BY <1>8, <2>2, <2>3 DEF FrontInv
<1>13. CASE i # BlockBytes - LenBytes - 1
  <2>1. status' = "ADD0"
    BY <1>5, <1>13
  <2>2. g + 1 < total - LenBytes
    <3>1. ASSUME g + 1 = total - LenBytes PROVE FALSE
      <4>. DEFINE c == BlockBytes - LenBytes - 1
                  q == Last(y) - 1
      <4>1. g = past + c /\ c \in 0..(BlockBytes - 1)
        <5>. HIDE DEF total, past, mb, l, i, g
        <5>. QED  BY <1>1, <1>2, <1>3, <1>10, <3>1
      <4>2. /\ q \in Nat /\ g = q * BlockBytes + c /\ g \in Nat /\ c \in 0..(BlockBytes - 1)
            /\ BlockBytes \in Nat \ {0}
        BY <1>2, <1>3, <4>1, LastType
      <4>3. /\ m \in Nat /\ g = m * BlockBytes + i /\ g \in Nat /\ i \in 0..(BlockBytes - 1)
            /\ BlockBytes \in Nat \ {0}
        BY <1>2, <1>3
      <4>. HIDE DEF c, q, g, i
      <4>4. g % BlockBytes = c
        BY <4>2, Division, Zenon
      <4>5. g % BlockBytes = i
        BY <4>3, Division, Zenon
      <4>. QED  BY <1>13, <4>4, <4>5 DEF c
    <3>. HIDE DEF total, past, mb, l, i, g
    <3>. QED  BY <1>1, <1>2, <1>3, <1>10, <3>1
  <2>3. cnt' < Handed(m)' /\ Handed(m)' < total - LenBytes
    <3>. HIDE DEF total, g, l
    <3>. QED  BY <1>1, <1>2, <1>3, <1>5, <1>8, <2>2
  <2>4. InPadding(y, m)'
    <3>1. Last(y)' = Last(y)
      BY SameLast
    <3>. QED  BY <1>9, <2>1, <2>3, <3>1 DEF InPadding
  <2>. QED  BY <1>8, <2>1, <2>4 DEF FrontInv
<1>. QED  BY <1>12, <1>13

LEMMA AddLenStep ==
  ASSUME TypeOK, DOMAIN buff = 0..(BlockBytes - 1), StepBuff(bus), FrontAddLen,
         NEW y \in Job, NEW n \in Nat,
         FrontInv(y, n), ~Pending', sent' = sent
  PROVE  FrontInv(y, n)' /\ status' \in {"ADDLEN", "DONE"} /\ ~Full
<1>1. /\ status = "ADDLEN" /\ Waits(y, n) /\ cnt = y.len /\ sent = y.len /\ ivalid
      /\ n = Last(y) - 1 /\ Given < BlockBytes /\ Given >= BlockBytes - LenBytes
  BY DEF FrontInv, InPadding, FrontAddLen
<1>2. /\ BlockBytes \in Nat /\ LenBytes \in Nat /\ LenBytes + 2 <= BlockBytes
      /\ icnt \in 0..(BlockBytes - 1) /\ Given = icnt + 1
  BY <1>1, Sizes DEF TypeOK, Given
<1>3. ~Full
  BY <1>1, <1>2 DEF Full
<1>4. /\ Handed(n) \in Nat /\ n * BlockBytes + icnt' = Handed(n) /\ icnt' = Given
      /\ icnt' = (icnt + 1) % BlockBytes
  BY <1>1, <1>3, Moves
<1>5. tcnt = Given /\ Given \in Nat
  BY <1>1, <1>2, <1>4 DEF Waits
<1>6. /\ tcnt' = (icnt' + 1) % BlockBytes /\ iid' = iid /\ FirstOver
      /\ ivalid' = TRUE /\ ilast' = (Given = BlockBytes - 1) /\ cnt' = cnt /\ ilen' = cnt
      /\ idata' = LenByte(cnt, Given % LenBytes)
      /\ status' = IF Given = BlockBytes - 1 THEN "DONE" ELSE "ADDLEN"
  BY <1>4, <1>5 DEF FrontAddLen
<1>7. idata' = PaddedByte(y, Handed(n))
  <2>. DEFINE total == Last(y) * BlockBytes
              past == (Last(y) - 1) * BlockBytes
              g == Handed(n)
              v == Given
  <2>1. past \in Nat /\ total = past + BlockBytes /\ g = past + v /\ g \in Nat
    BY <1>1, <1>4, LastBounds
  <2>2. v % LenBytes = v - (BlockBytes - LenBytes)
    BY <1>1, <1>5, LengthByte
  <2>3. g >= total - LenBytes /\ g - (total - LenBytes) = v - (BlockBytes - LenBytes)
    <3>1. v \in Nat /\ v >= BlockBytes - LenBytes
      BY <1>1, <1>5
    <3>. HIDE DEF total, past, g, v
    <3>. QED  BY <1>2, <2>1, <3>1
  <2>4. PaddedByte(y, g) = LenByte(y.len, g - (total - LenBytes))
    BY <2>1, <2>3, PaddedBytes
  <2>. HIDE DEF total, past, v
  <2>5. idata' = LenByte(y.len, v % LenBytes)
    BY <1>1, <1>6 DEF v
  <2>. QED  BY <2>2, <2>3, <2>4, <2>5
<1>8. ilast' = (status' = "DONE")
  BY <1>6
<1>9. Waits(y, n)'
  BY <1>1, <1>3, <1>6, <1>7, <1>8, WaitsOn
<1>10. cnt' = y.len /\ sent' = y.len /\ ~Pending' /\ ivalid' /\ Last(y)' = Last(y)
  BY <1>1, <1>6, SameLast
<1>11. CASE Given = BlockBytes - 1
  <2>1. status' = "DONE" /\ icnt' = BlockBytes - 1 /\ ilen' = y.len
    BY <1>1, <1>4, <1>6, <1>11
  <2>2. InPadding(y, n)'
    BY <1>1, <1>10, <2>1 DEF InPadding
  <2>. QED  BY <1>3, <1>9, <2>1, <2>2 DEF FrontInv
<1>12. CASE Given # BlockBytes - 1
  <2>1. status' = "ADDLEN" /\ Given' = Given + 1
    BY <1>2, <1>4, <1>6, <1>12 DEF Given
  <2>2. Given' < BlockBytes /\ Given' >= BlockBytes - LenBytes
    BY <1>1, <1>2, <1>5, <1>12, <2>1
  <2>3. InPadding(y, n)'
    BY <1>1, <1>10, <2>1, <2>2 DEF InPadding
  <2>. QED  BY <1>3, <1>9, <2>1, <2>3 DEF FrontInv
<1>. QED  BY <1>11, <1>12


LEMMA DoneStep ==
  ASSUME TypeOK, StepBuff(bus), FrontDone, NEW y \in Job, NEW n \in Nat, FrontInv(y, n),
         ~Pending', sent' = sent
  PROVE  /\ FrontInv(y, 0)' /\ status' = "IDLE"
         /\ Full /\ ilast /\ ilen = y.len /\ n + 1 = Last(y)
<1>1. /\ status = "DONE" /\ sent = y.len /\ ivalid /\ n = Last(y) - 1
      /\ icnt = BlockBytes - 1 /\ ilen = y.len /\ ilast = (status = "DONE")
  BY DEF FrontInv, InPadding, Waits, FrontDone
<1>2. icnt' = 0
  <2>1. icnt' = (icnt + 1) % BlockBytes /\ BlockBytes \in Nat /\ BlockBytes >= 3
    BY <1>1, Sizes DEF StepBuff, Iinit
  <2>. QED  BY <1>1, <2>1
<1>3. /\ status' = "IDLE" /\ cnt' = 0 /\ ~ivalid' /\ ~ifirst' /\ ~ilast' /\ sent' = y.len
  BY <1>1 DEF FrontDone
<1>4. FrontInv(y, 0)'
  BY <1>2, <1>3 DEF FrontInv
<1>5. n + 1 = Last(y)
  BY <1>1, LastType
<1>. QED  BY <1>1, <1>3, <1>4, <1>5 DEF Full

LEMMA RestStep ==
  ASSUME StepBuff(bus), FrontIdle(bus), ~Pending, NEW y, NEW n, FrontInv(y, n),
         NEW w, (~Pending' /\ sent' = sent /\ w = y) \/ (Pending' /\ sent' = 1)
  PROVE  FrontInv(w, 0)' /\ status' = "IDLE" /\ n = 0 /\ ~Full
<1>1. /\ status = "IDLE" /\ n = 0 /\ icnt = 0 /\ cnt = 0 /\ ~ivalid /\ sent = y.len
  BY DEF FrontInv, FrontIdle
<1>2. ~Posedge(bus)
  BY DEF Pending, Posedge
<1>3. /\ status' = "IDLE" /\ cnt' = 0 /\ ~ivalid' /\ ~ifirst' /\ ~ilast'
  BY <1>1, <1>2 DEF FrontIdle, TakeByte
<1>4. icnt' = 0
  BY <1>1 DEF StepBuff
<1>5. sent' = IF Pending' THEN 1 ELSE w.len
  BY <1>1
<1>6. FrontInv(w, 0)'
  BY <1>3, <1>4, <1>5 DEF FrontInv
<1>. QED  BY <1>1, <1>3, <1>6 DEF Full

LEMMA FirstWaits ==
  ASSUME NEW y, icnt' = 0 /\ ivalid' /\ idata' = PaddedByte(y, 0) /\ tcnt' = 1
                /\ iid' = y.tid /\ ilast' = (status' = "DONE") /\ ifirst'
  PROVE  Waits(y, 0)'
<1>1. 0 * BlockBytes + 0 = 0 /\ (0 + 1) % BlockBytes = 1 /\ 0 <= BlockBytes - 2
  BY Sizes
<1>2. \A p \in 0..(0 - 1) : FALSE
  OBVIOUS
<1>. QED  BY <1>1, <1>2 DEF Waits, PaddedByte, PaddedBlocks

LEMMA BeginStep ==
  ASSUME TypeOK, BusInv, StepBuff(bus), FrontIdle(bus), Pending,
         NEW y \in Job, y = job, NEW n, FrontInv(y, n), ~Pending', sent' = sent
  PROVE  /\ FrontInv(y, 0)' /\ status' \in {"RUN", "ADD8"} /\ n = 0 /\ ~Full
         /\ ifirst' /\ Given' = 1
<1>1. /\ status = "IDLE" /\ n = 0 /\ cnt = 0 /\ ~ivalid /\ sent = 1
  BY DEF FrontInv, FrontIdle
<1>2. BlockBytes \in Nat /\ BlockBytes >= 3 /\ y.len \in Nat /\ y.len >= 1
  BY Sizes, LastType
<1>3. bus.tlast = (1 = y.len) /\ bus.tdata = << y.tid, 1 >> /\ bus.tid = y.tid
  BY <1>1 DEF BusInv
<1>4. Posedge(bus)
  BY DEF Pending, Posedge
<1>5. /\ tcnt' = 1 /\ iid' = y.tid /\ ifirst' = TRUE /\ ivalid' = TRUE /\ ilast' = FALSE
      /\ idata' = Data(<< y.tid, 1 >>) /\ cnt' = 1
      /\ status' = IF 1 = y.len THEN "ADD8" ELSE "RUN"
  <2>1. (0 + 1) % BlockBytes = 1
    BY <1>2
  <2>2. tcnt' = 1
    BY <1>1, <2>1 DEF FrontIdle, TakeByte
  <2>. QED  BY <1>3, <1>4, <2>2 DEF FrontIdle, TakeByte
<1>6. icnt' = 0
  BY <1>1, <1>4 DEF StepBuff, Iinit
<1>7. Given' = 1 /\ Handed(0)' = 1
  <2>1. Given' = 1
    BY <1>5, <1>6 DEF Given
  <2>2. 0 * BlockBytes = 0
    BY <1>2
  <2>. QED  BY <2>1, <2>2 DEF Handed
<1>8. Waits(y, 0)'
  <2>1. PaddedByte(y, 0) = Data(<< y.tid, 1 >>)
    <3>1. 0 < y.len => PaddedByte(y, 0) = Data(<< y.tid, 0 + 1 >>)
      BY PaddedBytes
    <3>. QED  BY <1>2, <3>1
  <2>2. idata' = PaddedByte(y, 0) /\ ilast' = (status' = "DONE")
    BY <1>5, <2>1
  <2>. QED  BY <1>5, <1>6, <2>2, FirstWaits
<1>9. CASE y.len = 1
  <2>1. status' = "ADD8"
    BY <1>5, <1>9
  <2>2. InPadding(y, 0)'
    BY <1>1, <1>5, <1>7, <1>9, <2>1 DEF InPadding
  <2>. QED  BY <1>1, <1>5, <1>7, <1>8, <2>1, <2>2 DEF FrontInv, Full
<1>10. CASE y.len # 1
  <2>1. status' = "RUN"
    BY <1>5, <1>10
  <2>2. InMessage(y, 0)'
    BY <1>1, <1>2, <1>5, <1>7, <1>10 DEF InMessage
  <2>. QED  BY <1>1, <1>5, <1>7, <1>8, <2>1, <2>2 DEF FrontInv, Full
<1>. QED  BY <1>9, <1>10

\* Only the block that the front end completes in DONE is the last one.
LEMMA NotLast ==
  ASSUME TypeOK, BusInv, NEW y \in Job, y = job, NEW n \in Nat, FrontInv(y, n), Full,
         status \notin {"IDLE", "DONE"}
  PROVE  n + 1 # Last(y) /\ ~ilast
<1>. DEFINE total == Last(y) * BlockBytes
            k == n * BlockBytes
            l == y.len
            g == Handed(n)
<1>1. ~ilast /\ Given = BlockBytes
  <2>1. BlockBytes \in Nat /\ ivalid /\ icnt = BlockBytes - 1
    BY Sizes DEF Full
  <2>2. Given = BlockBytes
    BY <2>1 DEF Given
  <2>3. ilast = (status = "DONE")
    BY DEF FrontInv, Waits
  <2>. QED  BY <2>2, <2>3
<1>2. l \in Nat /\ LenBytes \in Nat /\ LenBytes >= 1 /\ BlockBytes \in Nat /\ k \in Nat
  <2>1. BlockBytes \in Nat
    BY Sizes
  <2>. QED  BY <2>1, Sizes, LastType
<1>3. g = k + BlockBytes
  BY <1>1 DEF Handed
<1>4. ASSUME n + 1 = Last(y) PROVE FALSE
  <2>1. g = total /\ l + LenBytes < total
    <3>1. (n + 1) * BlockBytes = k + BlockBytes
      BY <1>2
    <3>. QED  BY <1>3, <1>4, <3>1, LastBounds
  <2>2. CASE status = "RUN"
    <3>1. cnt = g /\ (Pending => sent = cnt + 1) /\ (~Pending => cnt < l) /\ sent <= l
      BY <2>2 DEF FrontInv, InMessage, BusInv
    <3>. HIDE DEF total, k, l, g
    <3>. QED  BY <1>2, <1>3, <2>1, <3>1
  <2>3. CASE status # "RUN"
    <3>1. \/ l = g
          \/ g < total - LenBytes
          \/ Given < BlockBytes
      BY <2>3 DEF FrontInv, InPadding
    <3>. HIDE DEF total, k, l, g
    <3>. QED  BY <1>1, <1>2, <1>3, <2>1, <3>1
  <2>. QED  BY <2>2, <2>3
<1>. QED  BY <1>1, <1>4


-----------------------------------------------------------------------------
(* Results *)

LEMMA Pairs ==
  ASSUME NEW a, NEW b
  PROVE  /\ Append(<< >>, b) = << b >> /\ Append(<< a >>, b) = << a, b >>
         /\ Tail(<< a >>) = << >> /\ Tail(<< a, b >>) = << b >>
         /\ << a >> # << >> /\ << a, b >> # << >>
         /\ Head(<< a >>) = a /\ Head(<< a, b >>) = a
<1>1. Append(<< >>, b) = << b >>
  <2>1. Append(<< >>, b) = [i \in 1..(0 + 1) |-> IF i <= 0 THEN << >>[i] ELSE b]
    <3>1. << >> = [i \in 1..0 |-> << >>[i]]
      OBVIOUS
    <3>. QED  BY <3>1, AppendTo
  <2>. QED  BY <2>1
<1>2. Append(<< a >>, b) = << a, b >>
  <2>1. Append(<< a >>, b) = [i \in 1..(1 + 1) |-> IF i <= 1 THEN << a >>[i] ELSE b]
    <3>1. << a >> = [i \in 1..1 |-> << a >>[i]]
      OBVIOUS
    <3>. QED  BY <3>1, AppendTo
  <2>2. 1..(1 + 1) = 1..2 /\ << a, b >> = [i \in 1..2 |-> << a, b >>[i]]
    OBVIOUS
  <2>3. \A i \in 1..2 : (IF i <= 1 THEN << a >>[i] ELSE b) = << a, b >>[i]
    <3>1. \A i \in 1..2 : i = 1 \/ i = 2
      OBVIOUS
    <3>2. 1 <= 1 /\ ~(2 <= 1) /\ << a >>[1] = a /\ << a, b >>[1] = a /\ << a, b >>[2] = b
      OBVIOUS
    <3>. QED  BY <3>1, <3>2
  <2>. QED  BY <2>1, <2>2, <2>3
<1>3. << a >> # << >> /\ << a, b >> # << >> /\ Head(<< a >>) = a /\ Head(<< a, b >>) = a
  OBVIOUS
<1>4. Tail(<< a >>) = << >>
  OBVIOUS
<1>5. Tail(<< a, b >>) = << b >>
  OBVIOUS
<1>. QED  BY <1>1, <1>2, <1>3, <1>4, <1>5

\* The stages that have the end of a message: it goes on, or out.
LEMMA Flight ==
  ASSUME TypeOK, StepM, StepW, StepWk, NEW z, Leaves(z), ~(Full /\ ilast),
         Minit /\ men => mcnt = rounds - 1
  PROVE  (mlast' \/ wlast' \/ wklast') <=> (mlast \/ wlast)
<1>1. wlast' = (mlast /\ mcnt = rounds - 1) /\ wklast' = wlast
  BY Zenon DEF StepW, StepWk
<1>2. mlast' => mlast
  BY DEF StepM, Full
<1>3. ASSUME mlast PROVE mlast' \/ mcnt = rounds - 1
  <2>1. men /\ mcnt \in 0..(rounds - 1) /\ icnt <= mcnt
    BY <1>3 DEF Leaves, MHolds
  <2>2. CASE Minit \/ Full
    <3>1. Full => mcnt = rounds - 1
      BY <2>1, RoundsType, Sizes DEF Full
    <3>. QED  BY <2>1, <2>2, <3>1
  <2>3. CASE ~Minit /\ ~Full
    BY <1>3, <2>3 DEF StepM, Full
  <2>. QED  BY <2>2, <2>3
<1>. QED  BY <1>1, <1>2, <1>3

LEMMA QueueOn ==
  ASSUME StepH, NEW z, Leaves(z), NEW y, Due = Queue(z, y), NEW w,
         (mlast' \/ wlast' \/ wklast') <=> (mlast \/ wlast),
         \/ due' = Due /\ (Feeding' <=> Feeding) /\ w = y
         \/ due' = Append(Due, w) /\ ~Feeding /\ Feeding'
  PROVE  Due' = Queue(z, w)'
<1>1. /\ Append(<< >>, w) = << w >> /\ Append(<< z >>, w) = << z, w >>
      /\ Tail(<< z >>) = << >> /\ Tail(<< z, w >>) = << w >>
      /\ << z >> # << >> /\ << z, w >> # << >>
  BY Pairs
<1>2. ovalid' = wklast /\ (wklast => ~mlast /\ ~wlast)
  BY DEF StepH, Leaves
<1>3. Due' = IF ovalid' /\ due' # << >> THEN Tail(due') ELSE due'
  BY DEF Due
<1>4. due' = IF mlast \/ wlast \/ wklast
             THEN IF Feeding' THEN << z, w >> ELSE << z >>
             ELSE IF Feeding' THEN << w >> ELSE << >>
  <2>1. Due = IF mlast \/ wlast \/ wklast
              THEN IF Feeding THEN << z, y >> ELSE << z >>
              ELSE IF Feeding THEN << y >> ELSE << >>
    BY DEF Queue
  <2>. HIDE DEF Due
  <2>. QED  BY <1>1, <2>1, Zenon
<1>5. Queue(z, w)' = IF mlast' \/ wlast' \/ wklast'
                     THEN IF Feeding' THEN << z, w >> ELSE << z >>
                     ELSE IF Feeding' THEN << w >> ELSE << >>
  BY DEF Queue
<1>6. CASE wklast
  <2>1. due' = IF Feeding' THEN << z, w >> ELSE << z >>
    BY <1>4, <1>6
  <2>2. Queue(z, w)' = IF Feeding' THEN << w >> ELSE << >>
    BY <1>2, <1>5, <1>6
  <2>3. Due' = Tail(due')
    BY <1>1, <1>2, <1>3, <1>6, <2>1
  <2>. QED  BY <1>1, <2>1, <2>2, <2>3
<1>7. CASE ~wklast
  <2>1. Due' = due'
    BY <1>2, <1>3, <1>7
  <2>. QED  BY <1>4, <1>5, <1>7, <2>1
<1>. QED  BY <1>6, <1>7

\* What comes out is the hash of the oldest message that is due.
LEMMA ResultStep ==
  ASSUME TypeOK, rounds' = rounds, StepH, NEW z \in Job, Leaves(z), NEW y, Due = Queue(z, y),
         due' = Due \/ \E x : due' = Append(Due, x)
  PROVE  ResultIsTheHash'
<1>. SUFFICES ASSUME ovalid'
              PROVE  /\ due' # << >> /\ IsHashOf(h, Head(due))'
                     /\ oid' = Head(due').tid /\ olen' = Head(due').len
  BY DEF ResultIsTheHash
<1>. PICK n : n = Last(z)
  OBVIOUS
<1>1. wklast /\ n \in Nat \ {0} /\ rounds \in 1..rounds
  BY LastType, RoundsType DEF StepH
<1>2. WkHolds(z, n, rounds)
  BY <1>1 DEF Leaves
<1>3. HashedTo(z, n + 1, 0)'
  <2>1. ASSUME NEW r \in 1..rounds, r = rounds, WkHolds(z, n, r) PROVE HashedTo(z, n + 1, 0)'
    BY <1>1, <2>1, HStep
  <2>. QED  BY <1>1, <1>2, <2>1
<1>4. oid' = z.tid /\ olen' = z.len
  BY <1>1, <1>2 DEF WkHolds, StepH
<1>5. ASSUME NEW v, v = h' PROVE IsHashOf(v, z)
  <2>1. v.rounds = << >> /\ Chain(h.blocks, z, (n + 1) - 1)'
    BY <1>3, <1>5 DEF HashedTo
  <2>2. (n + 1) - 1 = n
    BY <1>1
  <2>3. \A x : Chain(x, z, n)' => Chain(x, z, n)
    BY SameChain
  <2>4. Chain(v.blocks, z, n)
    BY <1>5, <2>1, <2>2, <2>3
  <2>. QED  BY <1>1, <2>1, <2>4, HashDone
<1>6. IsHashOf(h, z)'
  <2>1. \A i : BlockRounds(z, i)' = BlockRounds(z, i)
    BY SameRounds
  <2>2. \A v : IsHashOf(v, z) => IsHashOf(v, z)'
    BY <2>1 DEF IsHashOf, PaddedBlocks
  <2>. QED  BY <1>5, <2>2
<1>7. due' # << >> /\ Head(due') = z
  <2>1. Due = << z, y >> \/ Due = << z >>
    BY <1>1 DEF Queue
  <2>. HIDE DEF Due
  <2>2. ASSUME NEW x, due' = Append(Due, x) PROVE due' # << >> /\ Head(due') = z
    <3>1. PICK k \in Nat : k >= 1 /\ Due = [i \in 1..k |-> Due[i]] /\ Due[1] = z
      <4>1. 1 \in Nat /\ 2 \in Nat
        OBVIOUS
      <4>2. << z >> = [i \in 1..1 |-> << z >>[i]] /\ << z, y >> = [i \in 1..2 |-> << z, y >>[i]]
        OBVIOUS
      <4>. QED  BY <2>1, <4>1, <4>2
    <3>2. due' = [i \in 1..(k + 1) |-> IF i <= k THEN Due[i] ELSE x]
      BY <2>2, <3>1, AppendTo
    <3>3. DOMAIN due' = 1..(k + 1) /\ due'[1] = z
      BY <3>1, <3>2
    <3>4. 1 \in DOMAIN due'
      BY <3>3
    <3>. QED  BY <3>3, <3>4
  <2>3. due' = Due => due' # << >> /\ Head(due') = z
    BY <2>1, Pairs
  <2>. QED  BY <2>2, <2>3
<1>8. IsHashOf(h, Head(due))'
  BY <1>6, <1>7
<1>. QED  BY <1>4, <1>7, <1>8


-----------------------------------------------------------------------------
(* One clock *)

\* What the front end and the client do at a clock; w is the job after it.
Rest(n, y, w) ==
  /\ status = "IDLE" /\ status' = "IDLE" /\ ~Pending /\ n = 0 /\ ~Full
  /\ FrontInv(w, 0)'
  /\ (due' = Due /\ w = y /\ ~Pending') \/ (due' = Append(Due, w) /\ Pending')

Begin(n, y, w) ==
  /\ status = "IDLE" /\ status' # "IDLE" /\ Pending /\ n = 0 /\ ~Full
  /\ FrontInv(y, 0)' /\ ifirst' /\ Given' = 1
  /\ due' = Due /\ w = y

Go(n, m, y, w) ==
  /\ status \notin {"IDLE", "DONE"} /\ status' # "IDLE"
  /\ FrontInv(y, m)' /\ FirstOver /\ (Full => n + 1 # Last(y) /\ ~ilast)
  /\ due' = Due /\ w = y

End(n, y, w) ==
  /\ status = "DONE" /\ status' = "IDLE" /\ ~Pending'
  /\ FrontInv(y, 0)' /\ Full /\ ilast /\ ilen = y.len /\ n + 1 = Last(y)
  /\ due' = Due /\ w = y

LEMMA FrontStep ==
  ASSUME TypeOK, BusInv, DOMAIN buff = 0..(BlockBytes - 1), Cycle(bus),
         ClientFirst \/ ClientNext \/ ClientLower \/ ClientWait,
         NEW y \in Job, y = job, NEW w, w = job', NEW n \in Nat, FrontInv(y, n),
         NEW m, m = IF Full THEN n + 1 ELSE n
  PROVE  /\ Rest(n, y, w) \/ Begin(n, y, w) \/ Go(n, m, y, w) \/ End(n, y, w)
         /\ BusInv'
<1>1. /\ StepBuff(bus) /\ tvalid_d' = bus.tvalid
      /\ \/ FrontIdle(bus) \/ FrontRun(bus) \/ FrontAdd8 \/ FrontAdd0 \/ FrontAddLen \/ FrontDone
  BY DEF Cycle
<1>2. /\ \/ ~Pending' /\ w = y /\ sent' = sent /\ due' = Due
         \/ /\ Pending' /\ ~Pending /\ w = y /\ sent' = sent + 1 /\ due' = Due
            /\ sent < y.len /\ status \in {"IDLE", "RUN"}
         \/ /\ Pending' /\ ~Pending /\ sent' = 1 /\ due' = Append(Due, w)
            /\ sent = y.len /\ status \in {"IDLE", "RUN"}
      /\ sent' <= job'.len
      /\ Pending' => bus' = [tvalid |-> TRUE, tlast |-> sent' = job'.len, tid |-> job'.tid,
                             tdata |-> << job'.tid, sent' >>]
  BY <1>1, ClientStep
<1>3. y.len \in Nat /\ sent \in Nat
  BY LastType, StreamAssumption DEF TypeOK
<1>4. CASE FrontIdle(bus) /\ ~Pending
  <2>1. status = "IDLE" /\ sent = y.len
    BY <1>4 DEF FrontInv, FrontIdle
  <2>2. \/ ~Pending' /\ w = y /\ sent' = sent /\ due' = Due
        \/ Pending' /\ sent' = 1 /\ due' = Append(Due, w)
    BY <1>2, <1>3, <2>1
  <2>3. FrontInv(w, 0)' /\ status' = "IDLE" /\ n = 0 /\ ~Full
    BY <1>1, <1>4, <2>2, RestStep
  <2>4. BusInv'
    BY <1>2, <2>3 DEF BusInv
  <2>. QED  BY <1>4, <2>1, <2>2, <2>3, <2>4 DEF Rest
<1>5. CASE FrontIdle(bus) /\ Pending
  <2>1. ~Pending' /\ w = y /\ sent' = sent /\ due' = Due
    BY <1>2, <1>5
  <2>2. /\ FrontInv(y, 0)' /\ status' \in {"RUN", "ADD8"} /\ n = 0 /\ ~Full
        /\ ifirst' /\ Given' = 1
    BY <1>1, <1>5, <2>1, BeginStep
  <2>3. BusInv'
    BY <1>2, <2>1 DEF BusInv
  <2>. QED  BY <1>5, <2>1, <2>2, <2>3 DEF Begin, FrontIdle
<1>6. CASE FrontRun(bus)
  <2>1. status = "RUN" /\ (~Pending => sent < y.len)
    BY <1>6 DEF FrontInv, InMessage, FrontRun
  <2>2. w = y /\ due' = Due
        /\ \/ ~Pending' /\ sent' = sent
           \/ Pending' /\ ~Pending /\ sent' = sent + 1 /\ sent < y.len
    BY <1>2, <1>3, <2>1
  <2>3. FrontInv(y, m)' /\ status' \in {"RUN", "ADD8"}
    BY <1>1, <1>6, <2>2, RunStep
  <2>4. Full => n + 1 # Last(y) /\ ~ilast
    BY <2>1, NotLast
  <2>5. Pending' => status' = "RUN"
    BY <2>1, <2>2, <1>6 DEF FrontRun, TakeByte, Posedge, Pending
  <2>6. BusInv'
    BY <1>2, <2>5 DEF BusInv
  <2>7. FirstOver
    BY <1>6 DEF FrontRun
  <2>. QED  BY <2>1, <2>2, <2>3, <2>4, <2>6, <2>7 DEF Go
<1>7. ASSUME status \notin {"IDLE", "RUN"}
      PROVE  ~Pending' /\ w = y /\ sent' = sent /\ due' = Due /\ BusInv'
  <2>1. ~Pending' /\ w = y /\ sent' = sent /\ due' = Due
    BY <1>2, <1>7
  <2>. QED  BY <1>2, <2>1 DEF BusInv
<1>8. CASE FrontAdd8
  <2>1. status = "ADD8" /\ FirstOver
    BY <1>8 DEF FrontAdd8
  <2>2. ~Pending' /\ w = y /\ sent' = sent /\ due' = Due /\ BusInv'
    BY <1>7, <2>1
  <2>3. FrontInv(y, m)' /\ status' \in {"ADD0", "ADDLEN"}
    BY <1>1, <1>8, <2>2, Add8Step
  <2>4. Full => n + 1 # Last(y) /\ ~ilast
    BY <2>1, NotLast
  <2>. QED  BY <2>1, <2>2, <2>3, <2>4 DEF Go
<1>9. CASE FrontAdd0
  <2>1. status = "ADD0" /\ FirstOver
    BY <1>9 DEF FrontAdd0
  <2>2. ~Pending' /\ w = y /\ sent' = sent /\ due' = Due /\ BusInv'
    BY <1>7, <2>1
  <2>3. FrontInv(y, m)' /\ status' \in {"ADD0", "ADDLEN"}
    BY <1>1, <1>9, <2>2, Add0Step
  <2>4. Full => n + 1 # Last(y) /\ ~ilast
    BY <2>1, NotLast
  <2>. QED  BY <2>1, <2>2, <2>3, <2>4 DEF Go
<1>10. CASE FrontAddLen
  <2>1. status = "ADDLEN" /\ FirstOver
    BY <1>10 DEF FrontAddLen
  <2>2. ~Pending' /\ w = y /\ sent' = sent /\ due' = Due /\ BusInv'
    BY <1>7, <2>1
  <2>3. FrontInv(y, n)' /\ status' \in {"ADDLEN", "DONE"} /\ ~Full
    BY <1>1, <1>10, <2>2, AddLenStep
  <2>. QED  BY <2>1, <2>2, <2>3 DEF Go
<1>11. CASE FrontDone
  <2>1. status = "DONE"
    BY <1>11 DEF FrontDone
  <2>2. ~Pending' /\ w = y /\ sent' = sent /\ due' = Due /\ BusInv'
    BY <1>7, <2>1
  <2>3. FrontInv(y, 0)' /\ status' = "IDLE" /\ Full /\ ilast /\ ilen = y.len /\ n + 1 = Last(y)
    BY <1>1, <1>11, <2>2, DoneStep
  <2>. QED  BY <2>1, <2>2, <2>3 DEF End
<1>. QED  BY <1>1, <1>4, <1>5, <1>6, <1>8, <1>9, <1>10, <1>11


LEMMA RestPipe ==
  ASSUME TypeOK, rounds' = rounds, DOMAIN buff = 0..(BlockBytes - 1),
         StepBuff(bus), StepM, StepW, StepWk, StepH, NEW z \in Job, NEW y, NEW w, NEW n,
         FrontInv(y, n), PipeInv(n, z, y), Leaves(z), Due = Queue(z, y), Rest(n, y, w)
  PROVE  PipeInv(0, z, w)' /\ Leaves(z)' /\ Due' = Queue(z, w)'
<1>1. /\ status = "IDLE" /\ status' = "IDLE" /\ ~Pending /\ n = 0 /\ ~Full
      /\ (due' = Due /\ w = y /\ ~Pending') \/ (due' = Append(Due, w) /\ Pending')
  BY DEF Rest
<1>2. Drains(z) /\ ~Minit
  BY <1>1 DEF PipeInv, FrontInv, Minit
<1>3. Behind /\ mcnt' = mcnt + 1 => Behind'
  <2>1. mcnt \in Nat
    BY Sizes DEF TypeOK
  <2>2. mcnt' = mcnt + 1 => mcnt' >= 1
    BY <2>1
  <2>. QED  BY <1>1, <2>2 DEF Behind
<1>4. Drains(z)'
  BY <1>1, <1>2, <1>3, DrainsOn
<1>5. PipeInv(0, z, w)'
  BY <1>1, <1>4 DEF PipeInv
<1>6. Leaves(z)'
  BY <1>1, LeavesOn
<1>7. (mlast' \/ wlast' \/ wklast') <=> (mlast \/ wlast)
  BY <1>1, <1>2, Flight
<1>8. Due' = Queue(z, w)'
  <2>1. \/ due' = Due /\ (Feeding' <=> Feeding) /\ w = y
        \/ due' = Append(Due, w) /\ ~Feeding /\ Feeding'
    BY <1>1 DEF Feeding
  <2>. QED  BY <1>7, <2>1, QueueOn
<1>. QED  BY <1>5, <1>6, <1>8

LEMMA BeginPipe ==
  ASSUME TypeOK, rounds' = rounds, DOMAIN buff = 0..(BlockBytes - 1),
         StepBuff(bus), StepM, StepW, StepWk, StepH, NEW z \in Job, NEW y, NEW w, NEW n,
         FrontInv(y, n), PipeInv(n, z, y), Leaves(z), Due = Queue(z, y), Begin(n, y, w)
  PROVE  PipeInv(0, z, w)' /\ Leaves(z)' /\ Due' = Queue(z, w)'
<1>1. /\ status = "IDLE" /\ status' # "IDLE" /\ Pending /\ n = 0 /\ ~Full
      /\ ifirst' /\ Given' = 1 /\ due' = Due /\ w = y
  BY DEF Begin
<1>2. Drains(z) /\ ~Minit
  BY <1>1 DEF PipeInv, FrontInv, Minit
<1>3. Behind /\ mcnt' = mcnt + 1 => Behind'
  <2>1. mcnt \in Nat
    BY Sizes DEF TypeOK
  <2>2. mcnt' = mcnt + 1 /\ mcnt >= 1 => Given' < mcnt'
    BY <1>1, <2>1
  <2>. QED  BY <1>1, <2>2 DEF Behind
<1>4. Drains(z)'
  BY <1>1, <1>2, <1>3, DrainsOn
<1>5. PipeInv(0, z, w)'
  BY <1>1, <1>4 DEF PipeInv
<1>6. Leaves(z)'
  BY <1>1, LeavesOn
<1>7. (mlast' \/ wlast' \/ wklast') <=> (mlast \/ wlast)
  BY <1>1, <1>2, Flight
<1>8. Due' = Queue(z, w)'
  <2>1. due' = Due /\ (Feeding' <=> Feeding) /\ w = y
    BY <1>1 DEF Feeding
  <2>. QED  BY <1>7, <2>1, QueueOn
<1>. QED  BY <1>5, <1>6, <1>8

\* A complete block goes to the pipeline, which is ready for it.
LEMMA FullPipe ==
  ASSUME TypeOK, rounds' = rounds, DOMAIN buff = 0..(BlockBytes - 1),
         StepBuff(bus), StepM, StepW, StepWk, StepH, NEW z, NEW y, NEW n \in Nat,
         status # "IDLE", FrontInv(y, n), PipeInv(n, z, y), Full,
         ilast = (n + 1 = Last(y)), n + 1 = Last(y) => ilen = y.len
  PROVE  MHolds(y, n + 1)' /\ men' /\ ~Minit /\ (n = 0 => Starts(z, y))
<1>1. icnt = BlockBytes - 1 /\ BlockBytes \in Nat /\ Waits(y, n)
  BY Sizes DEF Full, FrontInv
<1>2. ~ifirst /\ ~Minit
  BY <1>1 DEF Waits, Minit
<1>3. n = 0 => Starts(z, y)
  BY <1>2 DEF PipeInv
<1>4. WReady(y, n + 1)'
  <2>1. CASE n = 0
    <3>1. WReady(y, 1)'
      BY <1>3, <2>1, StartsFull
    <3>2. n + 1 = 1
      BY <2>1
    <3>. QED  BY <3>1, <3>2
  <2>2. CASE n # 0
    <3>1. n \in Nat \ {0} /\ Goes(y, n)
      BY <2>2 DEF PipeInv
    <3>. QED  BY <3>1, GoesFull
  <2>. QED  BY <2>1, <2>2
<1>5. PICK b : b = n + 1
  OBVIOUS
<1>6. b \in Nat \ {0} /\ b - 1 = n
  BY <1>5
<1>7. /\ WReady(y, b)' /\ Waits(y, b - 1) /\ ilast = (b = Last(y))
      /\ (b = Last(y) => ilen = y.len)
  BY <1>1, <1>4, <1>5, <1>6
<1>8. MHolds(y, b)' /\ men'
  BY <1>2, <1>6, <1>7, MBegins
<1>. QED  BY <1>2, <1>3, <1>5, <1>8

LEMMA GoPipe ==
  ASSUME TypeOK, rounds' = rounds, DOMAIN buff = 0..(BlockBytes - 1), ifirst' \in BOOLEAN,
         StepBuff(bus), StepM, StepW, StepWk, StepH, NEW z \in Job, NEW y \in Job, NEW w,
         NEW n \in Nat, NEW m, m = IF Full THEN n + 1 ELSE n,
         FrontInv(y, n), PipeInv(n, z, y), Leaves(z), Due = Queue(z, y), Go(n, m, y, w)
  PROVE  PipeInv(m, z, w)' /\ Leaves(z)' /\ Due' = Queue(z, w)'
<1>1. /\ status # "IDLE" /\ status' # "IDLE" /\ FirstOver
      /\ (Full => n + 1 # Last(y) /\ ~ilast) /\ due' = Due /\ w = y
  BY DEF Go
<1>2. /\ tcnt = (icnt + 1) % BlockBytes
      /\ ifirst => n = 0 /\ icnt <= BlockBytes - 2
      /\ n = 0 /\ icnt < BlockBytes - 2 => ifirst
  BY <1>1 DEF FrontInv, Waits
<1>3. Full => ilast = (n + 1 = Last(y)) /\ (n + 1 = Last(y) => ilen = y.len)
  <2>1. ilast \in BOOLEAN
    BY DEF TypeOK
  <2>. QED  BY <1>1, <2>1
<1>4. /\ BlockBytes \in Nat /\ BlockBytes >= 3 /\ icnt \in 0..(BlockBytes - 1)
      /\ mcnt \in Nat /\ ivalid \in BOOLEAN /\ ifirst \in BOOLEAN
  BY Sizes DEF TypeOK
<1>5. ASSUME n > 0
      PROVE  PipeInv(m, z, w)' /\ (Minit /\ men => mcnt = rounds - 1)
  <2>1. Goes(y, n) /\ n \in Nat \ {0} /\ ~Minit
    BY <1>2, <1>5 DEF PipeInv, Minit
  <2>2. Goes(y, m)' /\ m > 0
    <3>1. CASE Full
      <4>1. MHolds(y, n + 1)'
        BY <1>1, <3>1, <1>3, FullPipe
      <4>. QED  BY <1>5, <3>1, <4>1 DEF Goes
    <3>2. CASE ~Full
      <4>1. Goes(y, n)'
        BY <2>1, <3>2, GoesOn
      <4>. QED  BY <1>5, <3>2, <4>1
    <3>. QED  BY <3>1, <3>2
  <2>3. PipeInv(m, z, w)'
    BY <1>1, <2>2 DEF PipeInv
  <2>. QED  BY <2>1, <2>3
<1>6. ASSUME n = 0 /\ ifirst
      PROVE  PipeInv(m, z, w)' /\ (Minit /\ men => mcnt = rounds - 1)
  <2>1. Drains(z) /\ ~Full /\ m = 0 /\ icnt <= BlockBytes - 2
    BY <1>2, <1>4, <1>6 DEF PipeInv, Full
  <2>2. tcnt = icnt + 1
    <3>1. icnt + 1 \in 0..(BlockBytes - 1)
      BY <1>4, <2>1
    <3>. QED  BY <1>2, <1>4, <3>1
  <2>3. ifirst' <=> icnt # BlockBytes - 2
    <3>1. tcnt # BlockBytes - 1 <=> icnt # BlockBytes - 2
      BY <1>4, <2>2
    <3>. QED  BY <1>1, <1>6, <3>1, Zenon DEF FirstOver
  <2>4. CASE Minit
    <3>1. Starts(z, y)' /\ (men => mcnt = rounds - 1)
      BY <1>1, <2>1, <2>4, DrainsEnds
    <3>2. ~ifirst'
      BY <2>3, <2>4 DEF Minit
    <3>3. PipeInv(m, z, w)'
      BY <1>1, <2>1, <3>1, <3>2 DEF PipeInv
    <3>. QED  BY <3>1, <3>3
  <2>5. CASE ~Minit
    <3>1. ifirst'
      BY <1>6, <2>3, <2>5 DEF Minit
    <3>2. Behind /\ mcnt' = mcnt + 1 => Behind'
      <4>1. Given = icnt + (IF ivalid THEN 1 ELSE 0) /\ Given \in Nat
        BY <1>4 DEF Given
      <4>2. icnt' = Given
        BY <1>1, <2>1, Moves
      <4>3. Given' <= Given + 1
        BY <4>1, <4>2 DEF Given
      <4>4. Given' \in Nat
        BY <4>1, <4>2 DEF Given
      <4>5. mcnt' = mcnt + 1 /\ Given < mcnt => Given' < mcnt'
        BY <1>4, <4>1, <4>3, <4>4
      <4>. QED  BY <1>1, <4>5 DEF Behind
    <3>3. Drains(z)'
      BY <2>1, <2>5, <3>2, DrainsOn
    <3>4. PipeInv(m, z, w)'
      BY <1>1, <2>1, <3>1, <3>3 DEF PipeInv
    <3>. QED  BY <2>5, <3>4
  <2>. QED  BY <2>4, <2>5
<1>7. ASSUME n = 0 /\ ~ifirst
      PROVE  PipeInv(m, z, w)' /\ (Minit /\ men => mcnt = rounds - 1)
  <2>1. Starts(z, y) /\ ~Minit
    BY <1>1, <1>7 DEF PipeInv, Minit
  <2>2. CASE Full
    <3>1. MHolds(y, n + 1)'
      BY <1>1, <2>2, <1>3, FullPipe
    <3>2. m = n + 1 /\ m > 0
      BY <1>7, <2>2
    <3>3. PipeInv(m, z, w)'
      BY <1>1, <3>1, <3>2 DEF PipeInv, Goes
    <3>. QED  BY <2>1, <3>3
  <2>3. CASE ~Full
    <3>1. Starts(z, y)' /\ m = 0
      BY <1>7, <2>1, <2>3, StartsOn
    <3>2. ~ifirst'
      BY <1>1, <1>7 DEF FirstOver
    <3>3. PipeInv(m, z, w)'
      BY <1>1, <3>1, <3>2 DEF PipeInv
    <3>. QED  BY <2>1, <3>3
  <2>. QED  BY <2>2, <2>3
<1>8. PipeInv(m, z, w)' /\ (Minit /\ men => mcnt = rounds - 1)
  BY <1>5, <1>6, <1>7
<1>9. Leaves(z)'
  BY <1>1, LeavesOn
<1>10. (mlast' \/ wlast' \/ wklast') <=> (mlast \/ wlast)
  BY <1>1, <1>8, Flight
<1>11. Due' = Queue(z, w)'
  <2>1. due' = Due /\ (Feeding' <=> Feeding) /\ w = y
    BY <1>1 DEF Feeding
  <2>. QED  BY <1>10, <2>1, QueueOn
<1>. QED  BY <1>8, <1>9, <1>11

LEMMA EndPipe ==
  ASSUME TypeOK, rounds' = rounds, DOMAIN buff = 0..(BlockBytes - 1),
         StepBuff(bus), StepM, StepW, StepWk, StepH, NEW z, NEW y \in Job, NEW w,
         NEW n \in Nat, FrontInv(y, n), PipeInv(n, z, y), Leaves(z), Due = Queue(z, y),
         End(n, y, w)
  PROVE  PipeInv(0, y, w)' /\ Leaves(y)' /\ Due' = Queue(y, w)'
<1>1. /\ status = "DONE" /\ status' = "IDLE" /\ ~Pending' /\ Full /\ ilast /\ ilen = y.len
      /\ n + 1 = Last(y) /\ due' = Due /\ w = y
  BY DEF End
<1>2. ilast = (n + 1 = Last(y))
  BY <1>1 DEF FrontInv, Waits
<1>3. MHolds(y, n + 1)' /\ men' /\ ~Minit /\ (n = 0 => Starts(z, y))
  BY <1>1, <1>2, FullPipe
<1>4. PICK k : k = Last(y)
  OBVIOUS
<1>5. MHolds(y, k)' /\ Last(y)' = k
  BY <1>1, <1>3, <1>4, SameLast
<1>6. Drains(y)'
  BY <1>1, <1>3, <1>5 DEF Drains, Behind
<1>7. PipeInv(0, y, w)'
  BY <1>1, <1>6 DEF PipeInv
<1>8. ~mlast /\ ~wlast
  <2>1. CASE n = 0
    <3>1. ~men /\ (icnt = BlockBytes - 1 => ~wen)
      BY <1>3, <2>1 DEF Starts
    <3>2. (mlast => men) /\ (wlast => wen)
      BY DEF Leaves, MHolds, WHolds
    <3>. QED  BY <1>1, <3>1, <3>2 DEF Full
  <2>2. CASE n # 0
    <3>1. n \in Nat \ {0} /\ Goes(y, n) /\ n # Last(y) /\ n - 1 # Last(y)
      BY <1>1, <2>2 DEF PipeInv
    <3>. QED  BY <3>1, NoEndBefore
  <2>. QED  BY <2>1, <2>2
<1>9. Leaves(y)'
  BY <1>4, <1>5, <1>8, LeavesNew
<1>10. mlast'
  BY <1>1, <1>3 DEF StepM, Full
<1>11. Due' = Queue(y, w)'
  <2>1. Due = IF wklast THEN << z, y >> ELSE << y >>
    BY <1>1, <1>8 DEF Queue, Feeding
  <2>2. Queue(y, w)' = << y >>
    BY <1>1, <1>10 DEF Queue, Feeding
  <2>3. Due' = IF ovalid' /\ due' # << >> THEN Tail(due') ELSE due'
    BY DEF Due
  <2>4. due' = IF wklast THEN << z, y >> ELSE << y >>
    <3>. HIDE DEF Due
    <3>. QED  BY <1>1, <2>1
  <2>5. ovalid' = wklast
    BY DEF StepH
  <2>. QED  BY <2>2, <2>3, <2>4, <2>5, Pairs
<1>. QED  BY <1>7, <1>9, <1>11


-----------------------------------------------------------------------------
(* The invariant holds *)

LEMMA StreamInit == Init => StreamInv
<1>. SUFFICES ASSUME Init PROVE StreamInv
  OBVIOUS
<1>1. TypeOK
  BY TypeInit
<1>2. /\ status = "IDLE" /\ icnt = 0 /\ cnt = 0 /\ ~ivalid /\ ~ilast /\ ~ifirst /\ sent = 1
      /\ job.len = 1 /\ ~bus.tvalid /\ due = << >> /\ ~ovalid
      /\ ~men /\ ~minit /\ ~winit /\ ~wen /\ ~wkinit /\ ~wken /\ ~mlast /\ ~wlast /\ ~wklast
      /\ DOMAIN buff = 0..(BlockBytes - 1)
  BY DEF Init, Sha2Init
<1>3. ResultIsTheHash /\ BusInv /\ ~Pending /\ Due = << >>
  BY <1>2 DEF ResultIsTheHash, BusInv, Pending, Due
<1>4. FrontInv(job, 0)
  BY <1>2, <1>3 DEF FrontInv
<1>5. PipeInv(0, job, job)
  BY <1>2 DEF PipeInv, Drains, WDrains, WkDrains
<1>6. Leaves(job) /\ Due = Queue(job, job)
  BY <1>2, <1>3 DEF Leaves, Queue, Feeding
<1>7. job \in Job
  BY <1>1 DEF TypeOK
<1>. QED  BY <1>1, <1>2, <1>3, <1>4, <1>5, <1>6, <1>7 DEF StreamInv

LEMMA StreamNext == StreamInv /\ Next => StreamInv'
<1>. SUFFICES ASSUME StreamInv, Next PROVE StreamInv'
  OBVIOUS
<1>1. PICK n \in Nat, z \in Job :
        FrontInv(job, n) /\ PipeInv(n, z, job) /\ Leaves(z) /\ Due = Queue(z, job)
  BY DEF StreamInv
<1>2. TypeOK /\ BusInv /\ DOMAIN buff = 0..(BlockBytes - 1)
  BY DEF StreamInv
<1>3. /\ Cycle(bus) /\ (ClientFirst \/ ClientNext \/ ClientLower \/ ClientWait)
      /\ rounds' = rounds /\ StepBuff(bus) /\ StepM /\ StepW /\ StepWk /\ StepH
  BY DEF Next, First, Byte, Lower, Wait, Cycle
<1>4. TypeOK' /\ job \in Job /\ ifirst' \in BOOLEAN
  <2>1. TypeOK'
    BY <1>2, TypeStep
  <2>. QED  BY <1>2, <2>1 DEF TypeOK
<1>5. DOMAIN buff' = 0..(BlockBytes - 1)
  BY <1>2, <1>3, BuffType
<1>6. PICK y, w, m : y \in Job /\ y = job /\ w = job' /\ m = IF Full THEN n + 1 ELSE n
  BY <1>4
<1>7. FrontInv(y, n) /\ PipeInv(n, z, y) /\ Due = Queue(z, y)
  BY <1>1, <1>6
<1>8. (Rest(n, y, w) \/ Begin(n, y, w) \/ Go(n, m, y, w) \/ End(n, y, w)) /\ BusInv'
  BY <1>2, <1>3, <1>6, <1>7, FrontStep
<1>9. \E k \in Nat, x \in Job :
        FrontInv(w, k)' /\ PipeInv(k, x, w)' /\ Leaves(x)' /\ Due' = Queue(x, w)'
  <2>1. CASE Rest(n, y, w)
    <3>1. PipeInv(0, z, w)' /\ Leaves(z)' /\ Due' = Queue(z, w)'
      BY <1>1, <1>2, <1>3, <1>7, <2>1, RestPipe
    <3>2. FrontInv(w, 0)' /\ 0 \in Nat
      BY <2>1 DEF Rest
    <3>. QED  BY <3>1, <3>2
  <2>2. CASE Begin(n, y, w)
    <3>1. PipeInv(0, z, w)' /\ Leaves(z)' /\ Due' = Queue(z, w)'
      BY <1>1, <1>2, <1>3, <1>7, <2>2, BeginPipe
    <3>2. FrontInv(w, 0)' /\ 0 \in Nat
      BY <2>2 DEF Begin
    <3>. QED  BY <3>1, <3>2
  <2>3. CASE Go(n, m, y, w)
    <3>1. PipeInv(m, z, w)' /\ Leaves(z)' /\ Due' = Queue(z, w)'
      BY <1>1, <1>2, <1>3, <1>4, <1>6, <1>7, <2>3, GoPipe
    <3>2. FrontInv(w, m)' /\ m \in Nat
      BY <1>6, <2>3 DEF Go
    <3>. QED  BY <3>1, <3>2
  <2>4. CASE End(n, y, w)
    <3>1. PipeInv(0, y, w)' /\ Leaves(y)' /\ Due' = Queue(y, w)'
      BY <1>1, <1>2, <1>3, <1>6, <1>7, <2>4, EndPipe
    <3>2. FrontInv(w, 0)' /\ 0 \in Nat
      BY <2>4 DEF End
    <3>. QED  BY <1>6, <3>1, <3>2
  <2>. QED  BY <1>8, <2>1, <2>2, <2>3, <2>4
<1>10. \E k \in Nat, x \in Job :
         (FrontInv(job, k) /\ PipeInv(k, x, job) /\ Leaves(x) /\ Due = Queue(x, job))'
  BY <1>6, <1>9
<1>11. ResultIsTheHash'
  <2>1. due' = Due \/ \E x : due' = Append(Due, x)
    BY <1>3 DEF ClientFirst, ClientNext, ClientLower, ClientWait
  <2>. QED  BY <1>1, <1>2, <1>3, <1>7, <2>1, ResultStep
<1>. QED  BY <1>4, <1>5, <1>8, <1>10, <1>11 DEF StreamInv

LEMMA StreamStutter == StreamInv /\ UNCHANGED vars => StreamInv'
<1>. SUFFICES ASSUME StreamInv, UNCHANGED vars PROVE StreamInv'
  OBVIOUS
<1>. USE DEF vars, sha2Vars, frontVars, mVars, wVars, wkVars, hVars
<1>1. TypeOK'
  BY DEF StreamInv, TypeOK
<1>2. \A y, b : BlockRounds(y, b)' = BlockRounds(y, b)
  BY DEF BlockRounds
<1>3. ResultIsTheHash'
  BY <1>2 DEF StreamInv, ResultIsTheHash, IsHashOf
<1>4. BusInv' /\ DOMAIN buff' = 0..(BlockBytes - 1)
  BY DEF StreamInv, BusInv, Pending
<1>5. \A s, y, m : Chain(s, y, m)' <=> Chain(s, y, m)
  BY SameChain
<1>6. \A y, b, r : HashedTo(y, b, r)' <=> HashedTo(y, b, r)
  <2>. SUFFICES ASSUME NEW y, NEW b, NEW r PROVE HashedTo(y, b, r)' <=> HashedTo(y, b, r)
    OBVIOUS
  <2>. QED  BY <1>2, <1>5, Zenon DEF HashedTo
<1>7. \A y, b, r : WkHolds(y, b, r)' <=> WkHolds(y, b, r)
  <2>. SUFFICES ASSUME NEW y, NEW b, NEW r PROVE WkHolds(y, b, r)' <=> WkHolds(y, b, r)
    OBVIOUS
  <2>. QED  BY <1>2, <1>6 DEF WkHolds
<1>8. \A y, b : WkReady(y, b)' <=> WkReady(y, b)
  <2>. SUFFICES ASSUME NEW y, NEW b PROVE WkReady(y, b)' <=> WkReady(y, b)
    OBVIOUS
  <2>. QED  BY <1>6, <1>7 DEF WkReady
<1>9. \A y, b, r : WHolds(y, b, r)' <=> WHolds(y, b, r)
  <2>. SUFFICES ASSUME NEW y, NEW b, NEW r PROVE WHolds(y, b, r)' <=> WHolds(y, b, r)
    OBVIOUS
  <2>. QED  BY <1>2, <1>7, <1>8 DEF WHolds
<1>10. \A y, b : WReady(y, b)' <=> WReady(y, b)
  <2>. SUFFICES ASSUME NEW y, NEW b PROVE WReady(y, b)' <=> WReady(y, b)
    OBVIOUS
  <2>. QED  BY <1>8, <1>9 DEF WReady
<1>11. \A y, b : MHolds(y, b)' <=> MHolds(y, b)
  <2>. SUFFICES ASSUME NEW y, NEW b PROVE MHolds(y, b)' <=> MHolds(y, b)
    OBVIOUS
  <2>. QED  BY <1>9, <1>10 DEF MHolds
<1>12. (Pending' <=> Pending) /\ (Feeding' <=> Feeding) /\ Given' = Given /\ Due' = Due
  BY DEF Pending, Feeding, Given, Due
<1>13. \A y, n : FrontInv(y, n)' <=> FrontInv(y, n)
  <2>. SUFFICES ASSUME NEW y, NEW n PROVE FrontInv(y, n)' <=> FrontInv(y, n)
    OBVIOUS
  <2>1. Handed(n)' = Handed(n)
    BY <1>12 DEF Handed
  <2>2. Waits(y, n)' <=> Waits(y, n)
    BY DEF Waits
  <2>3. InMessage(y, n)' <=> InMessage(y, n)
    BY <1>12, <2>1 DEF InMessage
  <2>4. InPadding(y, n)' <=> InPadding(y, n)
    BY <1>12, <2>1 DEF InPadding
  <2>. QED  BY <1>12, <2>2, <2>3, <2>4 DEF FrontInv
<1>14. \A n, z, y : PipeInv(n, z, y)' <=> PipeInv(n, z, y)
  <2>. SUFFICES ASSUME NEW n, NEW z, NEW y PROVE PipeInv(n, z, y)' <=> PipeInv(n, z, y)
    OBVIOUS
  <2>1. Behind' <=> Behind
    BY <1>12 DEF Behind
  <2>2. WkDrains(z)' <=> WkDrains(z)
    BY <1>7 DEF WkDrains
  <2>3. WDrains(z)' <=> WDrains(z)
    BY <1>9, <2>2 DEF WDrains
  <2>4. Drains(z)' <=> Drains(z)
    BY <1>11, <2>1, <2>3 DEF Drains
  <2>5. Starts(z, y)' <=> Starts(z, y)
    BY <1>8, <2>2, <2>3 DEF Starts
  <2>6. Goes(y, n)' <=> Goes(y, n)
    BY <1>10, <1>11 DEF Goes
  <2>. QED  BY <2>4, <2>5, <2>6 DEF PipeInv
<1>15. \A z : Leaves(z)' <=> Leaves(z)
  <2>. SUFFICES ASSUME NEW z PROVE Leaves(z)' <=> Leaves(z)
    OBVIOUS
  <2>. QED  BY <1>7, <1>9, <1>11 DEF Leaves
<1>16. \A z, y : Queue(z, y)' = Queue(z, y)
  BY <1>12 DEF Queue
<1>17. PICK n, z, y : /\ n \in Nat /\ z \in Job /\ y = job /\ y = job'
                      /\ FrontInv(y, n) /\ PipeInv(n, z, y)
                      /\ Leaves(z) /\ Due = Queue(z, y)
  BY DEF StreamInv
<1>18. (FrontInv(y, n) /\ PipeInv(n, z, y) /\ Leaves(z) /\ Due = Queue(z, y))'
  BY <1>12, <1>13, <1>14, <1>15, <1>16, <1>17
<1>19. (FrontInv(job, n) /\ PipeInv(n, z, job) /\ Leaves(z) /\ Due = Queue(z, job))'
  BY <1>17, <1>18
<1>. QED  BY <1>1, <1>3, <1>4, <1>17, <1>19 DEF StreamInv

-----------------------------------------------------------------------------
(* What the engine promises *)

LEMMA StreamHolds == Spec => []StreamInv
<1>1. StreamInv /\ [Next]_vars => StreamInv'
  BY StreamNext, StreamStutter
<1>. QED  BY StreamInit, <1>1, PTL DEF Spec

\* The registers of the front end and of every stage keep their types: the
\* counters stay within a block, the lengths within cnt.
THEOREM TypeCorrect == Spec => []TypeOK
<1>1. StreamInv => TypeOK
  BY DEF StreamInv
<1>. QED  BY StreamHolds, <1>1, PTL

\* Whatever the pauses between the bytes, and with the next message on its way
\* behind it, each result is the hash of the padding of the oldest message
\* without one, with its tid and its length.
THEOREM HashesRightly == Spec => []ResultIsTheHash
<1>1. StreamInv => ResultIsTheHash
  BY DEF StreamInv
<1>. QED  BY StreamHolds, <1>1, PTL

\* No byte is dropped: where one is raised after tready was seen, the state is
\* IDLE or RUN, and both take it.
THEOREM NeverDrops == Spec => NeverDropsAByte
<1>1. ASSUME StreamInv, [Next]_vars
      PROVE  [Posedge(bus) => ivalid' /\ idata' = Data(bus.tdata)]_vars
  <2>1. CASE UNCHANGED vars
    BY <2>1
  <2>2. CASE Next
    <3>. SUFFICES ASSUME Posedge(bus) PROVE ivalid' /\ idata' = Data(bus.tdata)
      OBVIOUS
    <3>1. Pending /\ status \in {"IDLE", "RUN"}
      BY <1>1 DEF StreamInv, BusInv, Pending, Posedge
    <3>2. Cycle(bus)
      BY <2>2 DEF Next, First, Byte, Lower, Wait
    <3>. QED  BY <3>1, <3>2 DEF Cycle, FrontIdle, FrontRun, FrontAdd8, FrontAdd0, FrontAddLen,
                            FrontDone, TakeByte
  <2>. QED  BY <1>1, <2>1, <2>2
<1>. QED  BY StreamHolds, <1>1, PTL DEF Spec, NeverDropsAByte

=============================================================================
