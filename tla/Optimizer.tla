------------------------------ MODULE Optimizer ------------------------------
(***************************************************************************)
(* What an instruction does before and after VM::Optimize.  A machine      *)
(* performs one compiled instruction again and again, as the switch would  *)
(* without Optimize; the property compares each step with the optimised    *)
(* instruction's.                                                          *)
(*                                                                         *)
(* The rewritings of WLDS, WLDR and CHO are not in question here: they put *)
(* operands into the form that the switch takes, which has no meaning for  *)
(* the instructions as they were before.                                   *)
(***************************************************************************)
EXTENDS Machine, Compiler

CONSTANTS
  Compiled,         \* compiled instructions, not yet optimised
  PreviousValues,   \* of pacc
  RegisterStates    \* of registers

Shortened == {"RDFX", "MAXX", "AND", "OR", "XOR", "SKP"}

\* The instructions that Optimize looks for shorter forms of.
Long == {instruction \in [opcode : Shortened, constants : [0 .. kMaxOperands - 1 -> Int]] :
           Dispatch(instruction) \in Instruction}

ASSUME InputAssumption ==
  /\ Compiled \subseteq Long
  /\ PreviousValues \subseteq SF23
  /\ RegisterStates \subseteq [Register -> SF23]

VARIABLES
  ci,        \* the instruction
  advance    \* what the latest step added to ic; 0 before the first

vars == <<acc, pacc, registers, delay, lfos, first_run, ci, advance>>

Init ==
  /\ acc \in SF23 /\ pacc \in PreviousValues
  /\ registers \in RegisterStates
  /\ buffer_ = [i \in 0 .. DelaySize - 1 |-> 0] /\ cursor_ = 0 /\ last_read_ = 0
  /\ ramp_phase = [n \in 0 .. 1 |-> 0]
  /\ sine = [n \in 0 .. 1 |-> 0] /\ cosine = [n \in 0 .. 1 |-> MIN]
  /\ first_run \in BOOLEAN
  /\ ci \in Compiled
  /\ advance = 0

Step ==
  /\ Perform(Dispatch(ci))
  /\ advance' = Advance(Dispatch(ci))
  /\ UNCHANGED <<pacc, first_run, ci>>

Spec == Init /\ [][Step]_vars

\* XOR of a negative accumulator with all bits.
XorOfSign == ci.opcode = "XOR" /\ ci.constants[0] = MASK /\ acc < 0

\* Optimize changes no result: wherever an instruction takes the machine, its
\* shorter form could have taken it, and both move on by the same number of
\* instructions.  The one exception is XorOfSign, see XorAllBitsIsNot.
OptimizePreserves ==
  [][XorOfSign \/ /\ Perform(Dispatch(Optimized(ci)))
                  /\ advance' = Advance(Dispatch(Optimized(ci)))]_vars
=============================================================================
