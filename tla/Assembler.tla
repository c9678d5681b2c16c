------------------------------ MODULE Assembler ------------------------------
(***************************************************************************)
(* What the bits of a program mean, from the side of who writes it: the    *)
(* reference that the decoder is compared with.  It shares the layouts of  *)
(* the instructions with the decoder and nothing else: bytes have their    *)
(* place in a word, a number has its bits in two's complement, and an      *)
(* instruction is known by its key alone.                                  *)
(***************************************************************************)
EXTENDS Loader

CONSTANT TextOf   \* the statements that a binary was written from

\* A program is stored with the most significant byte of a word first.
WordAt(binary, i) == {p \in 0 .. 31 : p % 8 \in binary[4 * i + 3 - (p \div 8)]}

Holds(word, shift, width, n) ==
  \A i \in 0 .. width - 1 : shift + i \in word <=> Bit(n, i) = 1

HasKey(word, layout) ==
  /\ Holds(word, 0, 5, layout.primary)
  /\ \E key \in layout.secondary : Holds(word, 30, 2, key)

\* A fixed-point operand is a multiple of the last bit of its field.
Unit(operand) == IF operand.type \in DOMAIN Frac THEN 2 ^ (23 - Frac[operand.type]) ELSE 1

IsValue(operand, v) ==
  /\ v \in Int /\ v % Unit(operand) = 0
  /\ v \div Unit(operand) \in
       IF operand.type \in DOMAIN Frac
       THEN -(2 ^ (operand.width - 1)) .. 2 ^ (operand.width - 1) - 1
       ELSE 0 .. 2 ^ operand.width - 1

\* In two's complement, a field is a number modulo the power of its width.
Raw(operand, v) == (v \div Unit(operand)) % 2 ^ operand.width

HoldsOperand(word, operand, v) ==
  IsValue(operand, v) /\ Holds(word, operand.shift, operand.width, Raw(operand, v))

\* A statement says what a word stands for.  Bits that are neither of the key
\* nor of an operand may have any value.
IsWritten(word, statement) ==
  \/ \E i \in DOMAIN Layouts :
       /\ HasKey(word, Layouts[i])
       /\ statement = [opcode |-> Layouts[i].opcode,
                       operands |-> [k \in DOMAIN Layouts[i].operands |-> statement.operands[k]]]
       /\ \A k \in DOMAIN Layouts[i].operands :
            HoldsOperand(word, Layouts[i].operands[k], statement.operands[k])
  \/ /\ \A i \in DOMAIN Layouts : ~HasKey(word, Layouts[i])
     /\ statement = [opcode |-> "UNKNOWN", operands |-> <<>>]

ASSUME TextAssumption ==
  \A binary \in Binaries, i \in 0 .. kMaxInstructionCount - 1 :
    IsWritten(WordAt(binary, i), TextOf[binary][i + 1])

-----------------------------------------------------------------------------
\* A program compiled from the start of its stream is what Optimize makes of
\* the statements as they were written, whatever the free bits of its words
\* hold and whichever program was there before: opcodes that share a key are
\* told apart, operands keep their signs and get their places, bytes their
\* order, and a word of no opcode is UNKNOWN.
LoadsAsWritten ==
  pc = "idle" =>
    \A binary \in source, i \in 0 .. kMaxInstructionCount - 1 :
      instructions_[i] = Optimized(CompileInstruction(TextOf[binary][i + 1]))
=============================================================================
