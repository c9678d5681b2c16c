-------------------------------- MODULE Chip --------------------------------
(***************************************************************************)
(* What the virtual machine promises: the machine of the FV-1 itself.  It  *)
(* has one accumulator and a previous one, it runs the program once per    *)
(* sample, and it knows nothing of the blocks in which a host delivers the *)
(* samples.  Between two samples the host may turn the pots or load        *)
(* another program.                                                        *)
(***************************************************************************)
EXTENDS Machine

CONSTANTS
  Programs,   \* the programs a host loads
  Frames,     \* the input frames <<left, right>> a host delivers
  Pots        \* the pot positions <<p0, p1, p2>> a host sets

VARIABLES
  instructions_,   \* the loaded program
  running,         \* the program is at work on a sample
  ic,              \* the next instruction
  out              \* the latest output frame

chip == <<acc, pacc, registers, delay, lfos, first_run,
          instructions_, running, ic, out>>

Init ==
  /\ acc = 0 /\ pacc = 0
  /\ registers = [r \in Register |-> 0]
  /\ buffer_ \in [0 .. DelaySize - 1 -> SF23] /\ cursor_ = 0 /\ last_read_ = 0
  /\ ramp_phase = [n \in 0 .. 1 |-> 0]
  /\ sine = [n \in 0 .. 1 |-> 0] /\ cosine = [n \in 0 .. 1 |-> MIN]
  /\ first_run = TRUE
  /\ instructions_ = [i \in 0 .. kMaxInstructionCount - 1 |-> [opcode |-> "NOP"]]
  /\ ~running
  /\ ic \in Nat
  /\ out = <<0, 0>>

\* Loading a program resets the machine.
Load(program) ==
  /\ ~running
  /\ instructions_' = program
  /\ acc' = 0 /\ pacc' = 0
  /\ ClearAll
  /\ UNCHANGED <<running, ic, out>>

TurnPots(pots) ==
  /\ ~running
  /\ StorePots(pots)
  /\ UNCHANGED <<acc, pacc, delay, lfos, first_run, instructions_, running, ic, out>>

StartSample(in) ==
  /\ ~running
  /\ running' = TRUE
  /\ ic' = 0
  /\ StoreInput(in)
  /\ UNCHANGED <<acc, pacc, delay, lfos, first_run, instructions_, out>>

\* The previous accumulator is what the instruction found in the accumulator.
PerformNext ==
  /\ running /\ ic < kMaxInstructionCount
  /\ Perform(instructions_[ic])
  /\ pacc' = acc
  /\ ic' = ic + Advance(instructions_[ic])
  /\ UNCHANGED <<first_run, instructions_, running, out>>

FinishSample ==
  /\ running /\ ic >= kMaxInstructionCount
  /\ TickAll
  /\ running' = FALSE
  /\ first_run' = FALSE
  /\ out' = Output
  /\ UNCHANGED <<acc, pacc, registers, instructions_, ic>>

Next ==
  \/ \E program \in Programs : Load(program)
  \/ \E pots \in Pots : TurnPots(pots)
  \/ \E in \in Frames : StartSample(in)
  \/ PerformNext
  \/ FinishSample

Spec == Init /\ [][Next]_chip
=============================================================================
