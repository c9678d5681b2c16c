------------------------------ MODULE MCLoader ------------------------------
(***************************************************************************)
(* Loader at the real width of 24 bits, on programs of two instructions.   *)
(* The programs are written as statements and assembled here, by a         *)
(* definition of its own: an opcode, its operands, and none or all of the  *)
(* bits that the opcode leaves free.                                       *)
(***************************************************************************)
EXTENDS Assembler, TLC

Registers == {"R" \o ToString(k) : k \in 0 .. 63}

Names ==
  [k \in 0 .. 63 |->
     IF \E r \in SpecialRegister : RegisterNumber[r] = k
     THEN CHOOSE r \in SpecialRegister : RegisterNumber[r] = k
     ELSE "R" \o ToString(k)]

-----------------------------------------------------------------------------
(***************************************************************************)
(* The assembler.                                                          *)
(***************************************************************************)
Bits(v, shift, width) ==
  {i \in shift .. shift + width - 1 : ((v % 2 ^ width) \div 2 ^ (i - shift)) % 2 = 1}

Field(operand) == operand.shift .. operand.shift + operand.width - 1

KeyBits(layout) == IF layout.secondary = AnyKey THEN {} ELSE 30 .. 31

FreeBits(layout) ==
  (5 .. 31) \ (KeyBits(layout) \cup UNION {Field(layout.operands[k]) :
                                            k \in DOMAIN layout.operands})

Statement(layout, values, free) ==
  [opcode |-> layout.opcode,
   operands |-> values,
   word |-> Bits(layout.primary, 0, 5)
            \cup (Bits(CHOOSE key \in layout.secondary : TRUE, 30, 2) \cap KeyBits(layout))
            \cup UNION {LET operand == layout.operands[k]
                        IN  Bits(values[k] \div Unit(operand), operand.shift, operand.width) :
                          k \in DOMAIN layout.operands}
            \cup free]

\* The least, the greatest and some values between of an operand.
Values(operand) ==
  IF operand.type \in DOMAIN Frac
  THEN <<-(2 ^ (operand.width - 1)) * Unit(operand), -Unit(operand), 0, Unit(operand),
         (2 ^ (operand.width - 1) - 1) * Unit(operand)>>
  ELSE <<2 ^ operand.width - 1, 0, 0, 1, 2 ^ (operand.width - 1)>>

\* Words no layout is for.
UnknownStatement(word) == [opcode |-> "UNKNOWN", operands |-> <<>>, word |-> word]

Unknown == {Bits(key, 0, 5) : key \in 21 .. 31} \cup {0 .. 31}
           \cup {Bits(18, 0, 5) \cup {31}, Bits(19, 0, 5) \cup {30},
                 Bits(20, 0, 5) \cup {30}, Bits(10, 0, 5) \cup 30 .. 31}

LayoutOf(opcode) ==
  CHOOSE layout \in {Layouts[i] : i \in DOMAIN Layouts} : layout.opcode = opcode

\* For every opcode: v chooses the operands and whether free bits are set.
Known(v) ==
  {Statement(layout,
             [k \in DOMAIN layout.operands |->
                Values(layout.operands[k])[((v + 2 * k) % 5) + 1]],
             IF v = 1 THEN FreeBits(layout) ELSE {}) :
     layout \in {Layouts[i] : i \in DOMAIN Layouts}}

\* Each goes before a WLDS or after a CHO RDA.
Wlds == Statement(LayoutOf("WLDS"), <<1, 511, 20000>>, {})
ChoRda == Statement(LayoutOf("CHO_RDA"), <<2, 4, 1000>>, {})

Texts ==
       {<<s, Wlds>> : s \in Known(0) \cup Known(1)}
  \cup {<<ChoRda, s>> : s \in Known(3) \cup {UnknownStatement(word) : word \in Unknown}}

\* The most significant byte first.
Binary(text) ==
  [b \in 0 .. 4 * kMaxInstructionCount - 1 |->
     {i \in 0 .. 7 : 8 * (3 - (b % 4)) + i \in text[(b \div 4) + 1].word}]

AllBinaries == {Binary(text) : text \in Texts}

Source == [binary \in AllBinaries |-> CHOOSE text \in Texts : Binary(text) = binary]

\* The statements, without the words they became.
Written ==
  [binary \in AllBinaries |->
     [k \in 1 .. kMaxInstructionCount |->
        [opcode |-> Source[binary][k].opcode, operands |-> Source[binary][k].operands]]]

-----------------------------------------------------------------------------
\* WLDS loads its amplitude a, as the comment on VM::Optimize says: a 15 bit
\* value shifted by 8 (src/src/vm/sin_lfo.h, `amp : 15 << 8 = 23').
AmplitudeIsLoaded ==
  pc = "idle" =>
    \A binary \in source, i \in DOMAIN instructions_ :
      LET statement == TextOf[binary][i + 1]
      IN  statement.opcode = "WLDS" =>
            instructions_[i].constants[2] = statement.operands[3] * 2 ^ 8
=============================================================================
