------------------------------ MODULE Compiler ------------------------------
(***************************************************************************)
(* VM::CompileInstruction and VM::Optimize (src/src/vm/vm_impl.h), and the *)
(* operands that each case of the switch takes from a compiled instruction *)
(* (the OPCODE_DISPATCH lines of vm_execute_v1.h).                         *)
(*                                                                         *)
(* A compiled instruction is an opcode and three numbered constants.  SF23 *)
(* is of any width here, but what is shifted into place by a number of     *)
(* bits, the operands of WLDS and WLDR, fits the 24 bits of the source.    *)
(***************************************************************************)
EXTENDS Instructions

CONSTANT RegisterName   \* the names of the numbers 0 .. 63

\* enum REGISTER, where it has a name of its own for a number.
RegisterNumber ==
  [SIN0_RATE |-> 0, SIN0_RANGE |-> 1, SIN1_RATE |-> 2, SIN1_RANGE |-> 3,
   RMP0_RATE |-> 4, RMP0_RANGE |-> 5, RMP1_RATE |-> 6, RMP1_RANGE |-> 7,
   POT0 |-> 16, POT1 |-> 17, POT2 |-> 18, ADCL |-> 20, ADCR |-> 21,
   DACL |-> 22, DACR |-> 23, ADDR_PTR |-> 24]

ASSUME RegisterAssumption ==
  /\ RegisterName \in [0 .. 63 -> Register]
  /\ \A r \in SpecialRegister : RegisterName[RegisterNumber[r]] = r

kMaxOperands == 3

Constants(c0, c1, c2) == [k \in 0 .. kMaxOperands - 1 |-> <<c0, c1, c2>>[k + 1]]

\* Constants the decoder gives no operand for stay 0.
CompileInstruction(decoded) ==
  [opcode |-> decoded.opcode,
   constants |-> [k \in 0 .. kMaxOperands - 1 |->
                    IF k + 1 \in DOMAIN decoded.operands
                    THEN decoded.operands[k + 1] ELSE 0]]

\* v << bits in an int32_t.
ShiftLeft(v, bits) ==
  (((v + 2 ^ (31 - bits)) % 2 ^ (32 - bits)) - 2 ^ (31 - bits)) * 2 ^ bits

-----------------------------------------------------------------------------
(***************************************************************************)
(* VM::Optimize.                                                           *)
(***************************************************************************)
Become(ci, opcode) == [ci EXCEPT !.opcode = opcode]

Is(ci, opcode, k, value) == ci.opcode = opcode /\ ci.constants[k] = value

\* CHO_SEL: SIN0, SIN1, RMP0, RMP1.
Selected(ci) == ci.constants[0] % 4

\* Definitions named ...Mistake are not the code: each is a slip that some run
\* must notice when it replaces the definition below it.
OptimizeChoMistake(ci) ==
  [ci EXCEPT !.opcode =
     IF Selected(ci) < 2
     THEN IF ci.opcode = "CHO_RDA" THEN "CHO_RDA_SIN" ELSE "CHO_SOF_SIN"
     ELSE IF ci.opcode = "CHO_RDA" THEN "CHO_RDA_RMP" ELSE "CHO_SOF_RMP"]

OptimizeCho(ci) ==
  [opcode |-> IF Selected(ci) < 2
              THEN IF ci.opcode = "CHO_RDA" THEN "CHO_RDA_SIN" ELSE "CHO_SOF_SIN"
              ELSE IF ci.opcode = "CHO_RDA" THEN "CHO_RDA_RMP" ELSE "CHO_SOF_RMP",
   constants |-> [ci.constants EXCEPT ![0] = Selected(ci) % 2]]

\* CHO_SEL_IDX: the sine and cosine of SIN0 and of SIN1, and the two ramps.
CosFlag(ci) == ci.constants[1] % 2

LookupIndex(ci) ==
  IF Selected(ci) < 2 THEN 2 * Selected(ci) + CosFlag(ci) ELSE 2 + Selected(ci)

\* WLDS: f names constants[1] itself, so its second use is of the new value.
OptimizeWlds(ci) ==
  LET f == ShiftLeft(ci.constants[1], 23 - 9)
  IN  [ci EXCEPT !.constants = Constants(@[0], f, ShiftLeft(f, 23 - 15))]

OptimizeWldr(ci) == [ci EXCEPT !.constants[2] = ShiftLeft(@, 23 - 2)]

OptimizeSkipMistake(ci) ==
  IF ci.constants[1] = 0 THEN Become(ci, "NOP") ELSE Become(ci, "JMP")

OptimizeSkip(ci) ==
  IF ci.constants[1] = 0 THEN Become(ci, "NOP")
  ELSE IF ci.constants[0] = 0 THEN Become(ci, "JMP")
  ELSE ci

Optimized(ci) ==
  IF Is(ci, "RDFX", 1, 0) THEN Become(ci, "LDAX")
  ELSE IF Is(ci, "MAXX", 1, 0) THEN Become(ci, "ABSA")
  ELSE IF Is(ci, "AND", 0, 0) THEN Become(ci, "CLR")
  ELSE IF Is(ci, "XOR", 0, MASK) THEN Become(ci, "NOT")
  ELSE IF ci.opcode = "SKP" THEN OptimizeSkip(ci)
  ELSE IF ci.opcode = "WLDS" THEN OptimizeWlds(ci)
  ELSE IF ci.opcode = "WLDR" THEN OptimizeWldr(ci)
  ELSE IF ci.opcode \in {"CHO_RDA", "CHO_SOF"} THEN OptimizeCho(ci)
  ELSE IF ci.opcode = "CHO_RDAL" THEN [ci EXCEPT !.constants[0] = LookupIndex(ci)]
  ELSE ci

-----------------------------------------------------------------------------
(***************************************************************************)
(* What the switch finds in a compiled instruction.                        *)
(***************************************************************************)
FlagBit(bits, k) == (bits \div 2 ^ k) % 2 = 1

ConditionBit == [NEG |-> 0, GEZ |-> 1, ZRO |-> 2, ZRC |-> 3, RUN |-> 4]

ChoFlagBit == [COS |-> 0, COMPC |-> 2, COMPA |-> 3, RPTR2 |-> 4, NA |-> 5]

FlagSet(bit, bits) == {flag \in DOMAIN bit : FlagBit(bits, bit[flag])}

LookupAt == <<"SIN0_SIN", "SIN0_COS", "SIN1_SIN", "SIN1_COS", "RMP0_VAL", "RMP1_VAL">>

Dispatch(ci) ==
  LET o == ci.opcode
      c(k) == ci.constants[k]
  IN  IF o \in {"RDA", "WRA", "WRAP"} THEN [opcode |-> o, addr |-> c(0), c |-> c(1)]
      ELSE IF o = "RMPA" THEN [opcode |-> o, c |-> c(0)]
      ELSE IF o \in {"RDAX", "RDFX", "WRAX", "WRHX", "WRLX", "MAXX"}
      THEN [opcode |-> o, addr |-> RegisterName[c(0)], c |-> c(1)]
      ELSE IF o \in {"MULX", "LDAX"} THEN [opcode |-> o, addr |-> RegisterName[c(0)]]
      ELSE IF o = "SOF" THEN [opcode |-> o, c |-> c(0), d |-> c(1)]
      ELSE IF o \in {"AND", "OR", "XOR"} THEN [opcode |-> o, mask |-> c(0)]
      ELSE IF o = "SKP"
      THEN [opcode |-> o, cmask |-> FlagSet(ConditionBit, c(0)), n |-> c(1)]
      ELSE IF o = "JMP" THEN [opcode |-> o, n |-> c(1)]
      ELSE IF o \in {"WLDS", "WLDR"}
      THEN [opcode |-> o, n |-> c(0), f |-> c(1), a |-> c(2)]
      ELSE IF o = "JAM" THEN [opcode |-> o, n |-> c(0)]
      ELSE IF o = "CHO_RDAL" THEN [opcode |-> o, n |-> LookupAt[c(0) + 1]]
      ELSE IF o \in {"CHO_RDA_RMP", "CHO_RDA_SIN"}
      THEN [opcode |-> o, n |-> c(0), flags |-> FlagSet(ChoFlagBit, c(1)), addr |-> c(2)]
      ELSE IF o \in {"CHO_SOF_RMP", "CHO_SOF_SIN"}
      THEN [opcode |-> o, n |-> c(0), flags |-> FlagSet(ChoFlagBit, c(1)), d |-> c(2)]
      ELSE [opcode |-> o]
=============================================================================
