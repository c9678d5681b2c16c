-------------------------- MODULE Optimizer_proofs --------------------------
(***************************************************************************)
(* The short forms of all instructions that have one, at every width, for  *)
(* every operand and in every state.                                       *)
(***************************************************************************)
EXTENDS Optimizer, Machine_proofs

\* The machine stays typed, and the instruction is the one it was.
Inv == Typed /\ pacc \in SF23 /\ ci \in Long

\* The invariant holds at the start.
LEMMA InitInv == Init => Inv
<1> SUFFICES ASSUME Init
             PROVE  Inv
  OBVIOUS
<1>1. registers \in [Register -> SF23] /\ pacc \in SF23 /\ ci \in Long
  BY InputAssumption DEF Init
<1>2. Typed
  BY <1>1, FormatsAreInt, DelaySizePositive DEF Init, Typed
<1> QED  BY <1>1, <1>2 DEF Inv

\* The invariant survives every step.
LEMMA NextInv == Inv /\ [Step]_vars => Inv'
<1> SUFFICES ASSUME Inv, [Step]_vars
             PROVE  Inv'
  OBVIOUS
<1>1. CASE Step
  <2> DEFINE i == Dispatch(ci)
  <2>1. i \in Instruction /\ Typed /\ pacc \in SF23 /\ Perform(i)
    BY <1>1 DEF Inv, Long, Step
  <2> HIDE DEF i
  <2>2. Typed'
    BY <2>1, PerformTyped
  <2> QED  BY <1>1, <2>2 DEF Inv, Step
<1>2. CASE UNCHANGED vars
  BY <1>2 DEF Inv, Typed, vars, delay, lfos
<1> QED  BY <1>1, <1>2

\* Nothing times anything is nothing, and what is in range passes store().
LEMMA ZeroProduct ==
  /\ \A x \in Int : Mul(x, 0) = 0
  /\ \A x \in Int, r \in SF23 : SSAT(Mac(x, 0, r)) = r
<1>1. \A x \in Int : Mul(x, 0) = 0
  <2>1. 0 \in Int32 /\ 0 \div kIntRange = 0
    BY RangeAssumption, FormatsAreInt
  <2>2. \A x \in Int : x * 0 = 0
    OBVIOUS
  <2> QED  BY <2>1, <2>2, WrapIdentity DEF Mul
<1>2. \A r \in SF23 : Wrap32(r) = r /\ SSAT(r) = r /\ 0 + r = r
  BY WrapIdentity, FormatsAreInt, RangeAssumption DEF SSAT, SF23, MIN, MAX
<1> QED  BY <1>1, <1>2 DEF Mac, Add

\* The magnitude of an accumulator is not negative.
LEMMA MagnitudeIsNat == \A x \in SF23 : ABS(x) \in Nat
<1> SUFFICES ASSUME NEW x \in SF23
             PROVE  ABS(x) \in Nat
  OBVIOUS
<1>1. -x \in Int32 /\ x \in Int
  BY RangeAssumption DEF SF23, MIN, MAX, Int32, INT32_MIN, INT32_MAX
<1>2. Wrap32(-x) = -x
  BY <1>1, WrapIdentity
<1> QED  BY <1>1, <1>2 DEF ABS

\* An RDFX without a coefficient loads the register.
LEMMA LoadPreserves ==
  ASSUME Typed, NEW i, NEW j,
         i.opcode = "RDFX", i.addr \in Register, i.c = 0,
         j.opcode = "LDAX", j.addr = i.addr, Perform(i)
  PROVE  Perform(j)
<1>1. RDFX(i)
  BY DEF Perform, RDAX, RDFX, MAXX, MULX, LDAX, SOF, CLR, ABSA, AndMask, OrMask,
         XorMask, NotAcc, NOP, RDA, RMPA, WRA, WRAP, WRAX, WRHX, WRLX, WLDS, WLDR,
         JAM, CHO_RDAL, CHO_RDA_RMP, CHO_RDA_SIN, CHO_SOF_RMP, CHO_SOF_SIN
<1>2. registers[i.addr] \in SF23 /\ acc \in Int
  BY FormatsAreInt DEF Typed
<1>3. Sub(acc, registers[i.addr]) \in Int
  BY <1>2, IntArithmetic, FormatsAreInt
<1>4. Set(registers[i.addr])
  BY <1>1, <1>2, <1>3, ZeroProduct DEF RDFX, Store
<1> QED  BY <1>4 DEF Perform, LDAX

\* A MAXX without a coefficient takes the magnitude of the accumulator.
LEMMA MagnitudePreserves ==
  ASSUME Typed, NEW i, NEW j,
         i.opcode = "MAXX", i.addr \in Register, i.c = 0,
         j.opcode = "ABSA", Perform(i)
  PROVE  Perform(j)
<1>1. MAXX(i)
  BY DEF Perform, RDAX, RDFX, MAXX, MULX, LDAX, SOF, CLR, ABSA, AndMask, OrMask,
         XorMask, NotAcc, NOP, RDA, RMPA, WRA, WRAP, WRAX, WRHX, WRLX, WLDS, WLDR,
         JAM, CHO_RDAL, CHO_RDA_RMP, CHO_RDA_SIN, CHO_SOF_RMP, CHO_SOF_SIN
<1>2. registers[i.addr] \in Int /\ acc \in SF23
  BY FormatsAreInt DEF Typed
<1>3. Mul(registers[i.addr], i.c) = 0
  BY <1>2, ZeroProduct
<1>4. ABS(0) = 0 /\ ABS(acc) \in Nat
  BY <1>2, MagnitudeIsNat DEF ABS
<1>5. Store(ABS(acc))
  BY <1>1, <1>3, <1>4 DEF MAXX
<1> QED  BY <1>5 DEF Perform, ABSA

\* An AND without a mask clears the accumulator.
LEMMA ClearPreserves ==
  ASSUME Typed, NEW i, NEW j,
         i.opcode = "AND", i.mask = 0, j.opcode = "CLR", Perform(i)
  PROVE  Perform(j)
<1>1. AndMask(i)
  BY DEF Perform, RDAX, RDFX, MAXX, MULX, LDAX, SOF, CLR, ABSA, AndMask, OrMask,
         XorMask, NotAcc, NOP, RDA, RMPA, WRA, WRAP, WRAX, WRHX, WRLX, WLDS, WLDR,
         JAM, CHO_RDAL, CHO_RDA_RMP, CHO_RDA_SIN, CHO_SOF_RMP, CHO_SOF_SIN
<1>2. AND(acc, i.mask) = {0}
  BY AndOfNothing DEF Typed
<1>3. Set(0)
  BY <1>1, <1>2 DEF AndMask
<1>4. SSAT(0) = 0
  BY RangeAssumption DEF SSAT, MIN, MAX
<1> QED  BY <1>3, <1>4 DEF Perform, CLR, Store

\* A XOR with a full mask complements an accumulator that is not negative.
LEMMA ComplementPreserves ==
  ASSUME Typed, acc >= 0, NEW i, NEW j,
         i.opcode = "XOR", i.mask = MASK, j.opcode = "NOT", Perform(i)
  PROVE  Perform(j)
<1>1. XorMask(i)
  BY DEF Perform, RDAX, RDFX, MAXX, MULX, LDAX, SOF, CLR, ABSA, AndMask, OrMask,
         XorMask, NotAcc, NOP, RDA, RMPA, WRA, WRAP, WRAX, WRHX, WRLX, WLDS, WLDR,
         JAM, CHO_RDAL, CHO_RDA_RMP, CHO_RDA_SIN, CHO_SOF_RMP, CHO_SOF_SIN
<1>2. XOR(acc, i.mask) = {NOT(acc)}
  BY XorAllBits DEF Typed
<1>3. Set(NOT(acc))
  BY <1>1, <1>2 DEF XorMask
<1> QED  BY <1>3 DEF Perform, NotAcc

\* A branch changes nothing but ic.
LEMMA BranchPreserves ==
  ASSUME NEW i, NEW j, i.opcode = "SKP", j.opcode \in {"JMP", "NOP"}, Perform(i)
  PROVE  Perform(j)
<1>1. NOP(i)
  BY DEF Perform, RDAX, RDFX, MAXX, MULX, LDAX, SOF, CLR, ABSA, AndMask, OrMask,
         XorMask, NotAcc, NOP, RDA, RMPA, WRA, WRAP, WRAX, WRHX, WRLX, WLDS, WLDR,
         JAM, CHO_RDAL, CHO_RDA_RMP, CHO_RDA_SIN, CHO_SOF_RMP, CHO_SOF_SIN
<1>2. NOP(j)
  BY <1>1 DEF NOP
<1> QED  BY <1>2 DEF Perform

\* The conditions of an empty mask.
LEMMA NoFlags == FlagSet(ConditionBit, 0) = {}
<1>1. \A k \in 0 .. 4 : ~FlagBit(0, k)
  <2>1. \A p \in Nat \ {0} : (0 \div p) % 2 # 1
    OBVIOUS
  <2>2. \A k \in 0 .. 4 : k \in 0 .. 5
    OBVIOUS
  <2>3. \A k \in 0 .. 4 : 2 ^ k \in Nat \ {0}
    BY <2>2, SmallPowers, Zenon
  <2> QED  BY <2>1, <2>3 DEF FlagBit
<1>2. \A flag \in DOMAIN ConditionBit : ConditionBit[flag] \in 0 .. 4
  BY DEF ConditionBit
<1> QED  BY <1>1, <1>2 DEF FlagSet

\* What a step of such an instruction does, its short form does as well.
LEMMA StepPreserves ==
  ASSUME Inv, Step, ~XorOfSign
  PROVE  /\ Perform(Dispatch(Optimized(ci)))
         /\ advance' = Advance(Dispatch(Optimized(ci)))
<1> DEFINE i == Dispatch(ci)
           j == Dispatch(Optimized(ci))
<1>1. /\ Typed /\ Perform(i) /\ advance' = Advance(i)
      /\ ci \in [opcode : Shortened, constants : [0 .. kMaxOperands - 1 -> Int]]
      /\ i \in Instruction
  BY DEF Inv, Long, Step
<1>2. CASE Optimized(ci) = ci
  BY <1>1, <1>2
<1>3. CASE Is(ci, "RDFX", 1, 0)
  <2>1. i.opcode = "RDFX" /\ i.addr = RegisterName[ci.constants[0]] /\ i.c = 0
    BY <1>3 DEF Is, Dispatch
  <2>2. i.addr \in Register
    BY <1>1, <2>1, Operands
  <2>3. Optimized(ci) = Become(ci, "LDAX")
    BY <1>3 DEF Optimized
  <2>4. /\ Optimized(ci).opcode = "LDAX"
        /\ Optimized(ci).constants[0] = ci.constants[0]
    BY <1>1, <2>3 DEF Become
  <2>5. j.opcode = "LDAX" /\ j.addr = i.addr
    BY <2>1, <2>4 DEF Dispatch
  <2>6. Advance(i) = 1 /\ Advance(j) = 1
    BY <2>1, <2>5 DEF Advance, Skips
  <2> HIDE DEF i, j
  <2>7. Perform(j)
    BY <1>1, <2>1, <2>2, <2>5, LoadPreserves
  <2> QED  BY <1>1, <2>6, <2>7 DEF j
<1>4. CASE Is(ci, "MAXX", 1, 0)
  <2>1. i.opcode = "MAXX" /\ i.c = 0
    BY <1>4 DEF Is, Dispatch
  <2>2. i.addr \in Register
    BY <1>1, <2>1, Operands
  <2>3. Optimized(ci) = Become(ci, "ABSA")
    BY <1>4 DEF Optimized, Is
  <2>4. Optimized(ci).opcode = "ABSA"
    BY <1>1, <2>3 DEF Become
  <2>5. j.opcode = "ABSA"
    BY <2>4 DEF Dispatch
  <2>6. Advance(i) = 1 /\ Advance(j) = 1
    BY <2>1, <2>5 DEF Advance, Skips
  <2> HIDE DEF i, j
  <2>7. Perform(j)
    BY <1>1, <2>1, <2>2, <2>5, MagnitudePreserves
  <2> QED  BY <1>1, <2>6, <2>7 DEF j
<1>5. CASE Is(ci, "SKP", 1, 0)
  <2>1. i.opcode = "SKP" /\ i.n = 0
    BY <1>5 DEF Is, Dispatch
  <2>2. Optimized(ci) = Become(ci, "NOP")
    BY <1>5 DEF Optimized, Is, OptimizeSkip
  <2>3. Optimized(ci).opcode = "NOP"
    BY <1>1, <2>2 DEF Become
  <2>4. j.opcode = "NOP"
    BY <2>3 DEF Dispatch
  <2>5. Advance(i) = 1 /\ Advance(j) = 1
    BY <2>1, <2>4 DEF Advance, Skips
  <2> HIDE DEF i, j
  <2>6. Perform(j)
    BY <1>1, <2>1, <2>4, BranchPreserves
  <2> QED  BY <1>1, <2>5, <2>6 DEF j
<1>6. CASE Is(ci, "SKP", 0, 0) /\ ci.constants[1] # 0
  <2>1. /\ i.opcode = "SKP" /\ i.n = ci.constants[1]
        /\ i.cmask = FlagSet(ConditionBit, 0)
    BY <1>6 DEF Is, Dispatch
  <2>2. i.cmask = {}
    BY <2>1, NoFlags
  <2>3. Optimized(ci) = Become(ci, "JMP")
    BY <1>6 DEF Optimized, Is, OptimizeSkip
  <2>4. /\ Optimized(ci).opcode = "JMP"
        /\ Optimized(ci).constants[1] = ci.constants[1]
    BY <1>1, <2>3 DEF Become
  <2>5. j.opcode = "JMP" /\ j.n = i.n
    BY <2>1, <2>4 DEF Dispatch
  <2>6. Advance(i) = Advance(j)
    BY <2>1, <2>2, <2>5 DEF Advance, Skips
  <2> HIDE DEF i, j
  <2>7. Perform(j)
    BY <1>1, <2>1, <2>5, BranchPreserves
  <2> QED  BY <1>1, <2>6, <2>7 DEF j
<1>7. CASE Is(ci, "AND", 0, 0)
  <2>1. i.opcode = "AND" /\ i.mask = 0
    BY <1>7 DEF Is, Dispatch
  <2>3. Optimized(ci) = Become(ci, "CLR")
    BY <1>7 DEF Optimized, Is
  <2>4. Optimized(ci).opcode = "CLR"
    BY <1>1, <2>3 DEF Become
  <2>5. j.opcode = "CLR"
    BY <2>4 DEF Dispatch
  <2>6. Advance(i) = 1 /\ Advance(j) = 1
    BY <2>1, <2>5 DEF Advance, Skips
  <2> HIDE DEF i, j
  <2>7. Perform(j)
    BY <1>1, <2>1, <2>5, ClearPreserves
  <2> QED  BY <1>1, <2>6, <2>7 DEF j
<1>8. CASE Is(ci, "XOR", 0, MASK)
  <2>1. i.opcode = "XOR" /\ i.mask = MASK
    BY <1>8 DEF Is, Dispatch
  <2>2. acc >= 0
    <3>1. ~(acc < 0)
      BY <1>8 DEF Is, XorOfSign
    <3> QED  BY <1>1, <3>1, FormatsAreInt DEF Typed
  <2>3. Optimized(ci) = Become(ci, "NOT")
    BY <1>8 DEF Optimized, Is
  <2>4. Optimized(ci).opcode = "NOT"
    BY <1>1, <2>3 DEF Become
  <2>5. j.opcode = "NOT"
    BY <2>4 DEF Dispatch
  <2>6. Advance(i) = 1 /\ Advance(j) = 1
    BY <2>1, <2>5 DEF Advance, Skips
  <2> HIDE DEF i, j
  <2>7. Perform(j)
    BY <1>1, <2>1, <2>2, <2>5, ComplementPreserves
  <2> QED  BY <1>1, <2>6, <2>7 DEF j
<1>9. ci.opcode \in Shortened
  BY <1>1
<1> QED
  BY <1>2, <1>3, <1>4, <1>5, <1>6, <1>7, <1>8, <1>9
    DEF Shortened, Optimized, OptimizeSkip, Is

\* Whatever Optimize puts in the place of an instruction does what that would
\* have done: the same accumulator, registers and delay memory, and the same
\* next instruction.  XOR with all bits is the one exception, for a negative
\* accumulator only; and there it does differ, see XorAllBits.
THEOREM ShortFormsPreserve == Spec => OptimizePreserves
<1>1. Inv /\ [Step]_vars =>
        [XorOfSign \/ /\ Perform(Dispatch(Optimized(ci)))
                      /\ advance' = Advance(Dispatch(Optimized(ci)))]_vars
  BY StepPreserves
<1> QED  BY <1>1, InitInv, NextInv, PTL DEF Spec, OptimizePreserves
=============================================================================
