----------------------------- MODULE SpongeSpec -----------------------------
(***************************************************************************)
(* What the sponge engine promises, whatever it is built from: a client    *)
(* starts a message, gives its words one by one, and after the last word   *)
(* the engine shows the blocks of that message's output, numbered 1, 2,    *)
(* ..., each exactly once and for one clock.  Starting over forgets the    *)
(* message in progress.                                                    *)
(***************************************************************************)
EXTENDS Integers

CONSTANTS Message, Mode

VARIABLES
  job,        \* the message being hashed and its mode
  given,      \* words of it given so far
  delivered,  \* output blocks shown so far
  shown       \* << >>, or << a block of output >> in the clock that shows it

spongeVars == << job, given, delivered, shown >>

Block(n) == [msg |-> job.msg, mode |-> job.mode, block |-> n]

Init ==
  /\ job.msg \in Message /\ job.mode \in Mode
  /\ given = job.msg.full + 1      \* nothing to give before the first start
  /\ delivered = 0 /\ shown = << >>

StartMessage ==
  /\ \E m \in Message, x \in Mode : job' = [msg |-> m, mode |-> x]
  /\ given' = 0 /\ delivered' = 0 /\ shown' = << >>

GiveWord ==
  /\ given <= job.msg.full
  /\ given' = given + 1 /\ shown' = << >>
  /\ UNCHANGED << job, delivered >>

ShowBlock ==
  /\ given = job.msg.full + 1
  /\ delivered' = delivered + 1
  /\ shown' = << Block(delivered + 1) >>
  /\ UNCHANGED << job, given >>

HideBlock ==
  /\ shown # << >> /\ shown' = << >>
  /\ UNCHANGED << job, given, delivered >>

Next == StartMessage \/ GiveWord \/ ShowBlock \/ HideBlock

Spec == Init /\ [][Next]_spongeVars
=============================================================================
