---------------------------- MODULE Instructions ----------------------------
(***************************************************************************)
(* The registers a program names and the instructions VM::Execute finds in *)
(* instructions_.  An instruction is a record of its opcode and operands,  *)
(* as a case of the switch takes them: fixed-point operands are SF23, the  *)
(* LFO of a CHO is 0 or 1 of its kind, flags are sets of their names.      *)
(***************************************************************************)
EXTENDS Lfo

CONSTANTS
  GeneralRegister,       \* REG0 .. REG31, and the numbers with no name
  kMaxInstructionCount   \* 128: the length of every program

ASSUME CountAssumption == kMaxInstructionCount \in Nat

SpecialRegister ==
  {"SIN0_RATE", "SIN0_RANGE", "SIN1_RATE", "SIN1_RANGE",
   "RMP0_RATE", "RMP0_RANGE", "RMP1_RATE", "RMP1_RANGE",
   "POT0", "POT1", "POT2", "ADCL", "ADCR", "DACL", "DACR", "ADDR_PTR"}

Register == SpecialRegister \cup GeneralRegister

\* 32768 samples: one for each value of a register without its sign.
DelaySize == kIntRange \div S15Unit

\* Operands.  An address has a bit more than the delay memory needs.
Address == 0 .. 2 * DelaySize - 1
Condition == {"NEG", "GEZ", "ZRO", "ZRC", "RUN"}
Lookup == {"SIN0_SIN", "SIN0_COS", "SIN1_SIN", "SIN1_COS", "RMP0_VAL", "RMP1_VAL"}

Instruction ==
       [opcode : {"RDA", "WRA", "WRAP"}, addr : Address, c : Coefficients]
  \cup [opcode : {"RMPA"}, c : Coefficients]
  \cup [opcode : {"RDAX", "RDFX", "WRAX", "WRHX", "WRLX", "MAXX"},
        addr : Register, c : Coefficients]
  \cup [opcode : {"MULX", "LDAX"}, addr : Register]
  \cup [opcode : {"SOF"}, c : Coefficients, d : SF23]
  \cup [opcode : {"AND", "OR", "XOR"}, mask : 0 .. MASK]
  \cup [opcode : {"SKP"}, cmask : SUBSET Condition, n : Nat]
  \cup [opcode : {"JMP"}, n : Nat]
  \cup [opcode : {"WLDS", "WLDR"}, n : 0 .. 1, f : Int, a : Int]
  \cup [opcode : {"JAM"}, n : 0 .. 1]
  \cup [opcode : {"CLR", "NOT", "ABSA", "NOP", "LOG", "EXP", "UNKNOWN"}]
  \cup [opcode : {"CHO_RDAL"}, n : Lookup]
  \cup [opcode : {"CHO_RDA_RMP", "CHO_RDA_SIN"}, n : 0 .. 1,
        flags : SUBSET Flag, addr : Address]
  \cup [opcode : {"CHO_SOF_RMP", "CHO_SOF_SIN"}, n : 0 .. 1,
        flags : SUBSET Flag, d : SF23]

Program == [0 .. kMaxInstructionCount - 1 -> Instruction]
=============================================================================
