----------------------------- MODULE EchoProgram -----------------------------
(***************************************************************************)
(* A program whose sound can be told from the outside, to hear the virtual *)
(* machine by: what the host plays comes back after a number of samples.   *)
(* All that a frame goes through has a part in it: the input registers,    *)
(* the accumulator, the delay memory and its tick, the output registers.   *)
(***************************************************************************)
EXTENDS Vm

EchoText(time) == <<
  [opcode |-> "CLR"],
  [opcode |-> "RDAX", addr |-> "ADCL", c |-> kIntRange],
  [opcode |-> "WRA", addr |-> 0, c |-> 0],
  [opcode |-> "RDA", addr |-> time, c |-> kIntRange],
  [opcode |-> "WRAX", addr |-> "DACL", c |-> 0] >>

\* The rest of a program is NOPs.
Echo(time) ==
  [i \in 0 .. kMaxInstructionCount - 1 |->
     IF i < 5 THEN EchoText(time)[i + 1] ELSE [opcode |-> "NOP"]]

\* What the left input was in the k-th of some frames: silence before the first.
Sample(input, k) == IF k \in 1 .. Len(input) THEN SSAT(input[k][1]) ELSE 0

\* However the blocks fall and wherever the ring buffer comes round, the echo
\* program plays its left input as late as it says, silence before that, and
\* nothing of what an earlier program or the caller left in the delay memory.
EchoIsOnTime ==
  \A time \in 0 .. DelaySize - 1 :
    (instructions_ = Echo(time) /\ Len(heard) > 0 /\ pc # "frame") =>
      out[1] = Sample(heard, Len(heard) - time)
=============================================================================
