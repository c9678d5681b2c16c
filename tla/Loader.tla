------------------------------- MODULE Loader -------------------------------
(***************************************************************************)
(* VM::Compile (src/src/vm/vm_impl.h) as the loop it is: it takes words    *)
(* from a ProgramStream (src/src/misc/program_stream.h), decodes and       *)
(* compiles each into the next of instructions_, and optimises them all.   *)
(* What Compile does to the rest of the VM is in Vm.                       *)
(*                                                                         *)
(* The stream belongs to the caller, who may compile it again, rewound or  *)
(* where the last Compile left it.  A second Compile of a stream that is   *)
(* used up loads nothing and optimises the earlier program again.          *)
(***************************************************************************)
EXTENDS Compiler, Decoder

CONSTANTS
  Binaries,       \* BinaryProgramBuffers: functions from byte number to byte
  kMaxCompiles    \* bound: calls of Compile

\* The fields of a word are those of the source's formats.
ASSUME FormatAssumption ==
  /\ kIntRange = 2 ^ 23 /\ S15Unit = 2 ^ 8

ASSUME BinaryAssumption ==
  /\ Binaries \subseteq [0 .. 4 * kMaxInstructionCount - 1 -> SUBSET (0 .. 7)]
  /\ kMaxCompiles \in Nat

VARIABLES
  buffer,              \* buffer_ of the BufferStream
  head,                \* head_ - buffer_, in bytes
  instructions_,
  instruction_count,
  pc,                  \* "idle", or the loop or Optimize of Compile
  source,              \* history: the binary that instructions_ come from
  compiles             \* history: calls of Compile

stream == <<buffer, head>>
vars == <<stream, instructions_, instruction_count, pc, source, compiles>>

TypeOK ==
  /\ buffer \in Binaries
  /\ head \in 0 .. 4 * kMaxInstructionCount
  /\ DOMAIN instructions_ = 0 .. kMaxInstructionCount - 1
  /\ instruction_count \in 0 .. kMaxInstructionCount
  /\ pc \in {"idle", "load", "optimize"}
  /\ source \in {{}} \cup {{binary} : binary \in Binaries}
  /\ compiles \in 0 .. kMaxCompiles

NoOperation == [opcode |-> "NOP", constants |-> Constants(0, 0, 0)]

Init ==
  /\ buffer \in Binaries /\ head = 0
  /\ instructions_ = [i \in 0 .. kMaxInstructionCount - 1 |-> NoOperation]
  /\ instruction_count = 0
  /\ pc = "idle"
  /\ source = {}
  /\ compiles = 0

\* The caller makes a BufferStream, or calls Reset() of the one it has.
OpenStream(binary) ==
  /\ pc = "idle"
  /\ buffer' = binary /\ head' = 0
  /\ UNCHANGED <<instructions_, instruction_count, pc, source, compiles>>

\* Definitions named ...Mistake are not the code: each is a slip that some run
\* must notice when it replaces the definition below it.
CompileMistake ==
  /\ pc = "idle" /\ compiles < kMaxCompiles
  /\ pc' = "load"
  /\ source' = IF head = 0 THEN {buffer} ELSE {}
  /\ compiles' = compiles + 1
  /\ UNCHANGED <<stream, instructions_, instruction_count>>

Compile ==
  /\ pc = "idle" /\ compiles < kMaxCompiles
  /\ instruction_count' = 0
  /\ pc' = "load"
  /\ source' = IF head = 0 THEN {buffer} ELSE {}
  /\ compiles' = compiles + 1
  /\ UNCHANGED <<stream, instructions_>>

available == head < 4 * kMaxInstructionCount

LoadInstruction ==
  /\ pc = "load" /\ available
  /\ instructions_' = [instructions_ EXCEPT ![instruction_count] =
                         CompileInstruction(Decode(NextWord(buffer, head)))]
  /\ head' = head + 4
  /\ instruction_count' = instruction_count + 1
  /\ UNCHANGED <<buffer, pc, source, compiles>>

EndOfStream ==
  /\ pc = "load" /\ ~available
  /\ pc' = "optimize"
  /\ UNCHANGED <<stream, instructions_, instruction_count, source, compiles>>

Optimize ==
  /\ pc = "optimize"
  /\ instructions_' = [i \in DOMAIN instructions_ |-> Optimized(instructions_[i])]
  /\ pc' = "idle"
  /\ UNCHANGED <<stream, instruction_count, source, compiles>>

Next ==
  \/ \E binary \in Binaries : OpenStream(binary)
  \/ Compile \/ LoadInstruction \/ EndOfStream \/ Optimize

Spec == Init /\ [][Next]_vars

-----------------------------------------------------------------------------
\* What a program is loaded into, the switch can execute: every operand that a
\* case takes is one it is written for.  Vm assumes it of its Programs.  It
\* holds for any word, and also after a second Compile of a used stream.
IsExecutable ==
  pc = "idle" => \A i \in DOMAIN instructions_ : Dispatch(instructions_[i]) \in Instruction
=============================================================================
