----------------------------- MODULE Accumulator -----------------------------
(***************************************************************************)
(* The accumulator of a running program, and what the arithmetic promises  *)
(* for every value it may have.  VM::Execute keeps it in acc.              *)
(***************************************************************************)
EXTENDS FixedPoint

VARIABLE acc

\* The clamp of store() sees the exact sum: neither the product nor the sum
\* of a multiply-accumulate wraps in its int32_t, for any coefficient an
\* operand can hold, so a loud signal clips and never changes its sign.
NoWrapBeforeClamp ==
  \A c \in Coefficients, d \in SF23 :
    /\ Mac(acc, c, d) = ((acc * c) \div kIntRange) + d
    /\ Mac(Sub(acc, d), c, d) = (((acc - d) * c) \div kIntRange) + d

\* The reference: all the bits of x in two's complement, the sign among them.
BitPositions == 0 .. kFracBits
Bits(x) == {i \in BitPositions : Bit(x, i) = 1}

\* AND, OR and NOT, with their sign extension, are the operations on two's
\* complement words: the sign bit is a bit like the others.
LogicIsBitwise ==
  /\ \A m \in 0 .. MASK :
       /\ {Bits(r) : r \in AND(acc, m)} = {Bits(acc) \cap Bits(m)}
       /\ {Bits(r) : r \in OR(acc, m)} = {Bits(acc) \cup Bits(m)}
  /\ Bits(NOT(acc)) = BitPositions \ Bits(acc)

\* A positive operand is XORed bit by bit; the other half is the finding of
\* the run xor_all_bits.
XorIsBitwise ==
  acc >= 0 =>
    \A m \in 0 .. MASK :
      {Bits(r) : r \in XOR(acc, m)} = {(Bits(acc) \cup Bits(m)) \ (Bits(acc) \cap Bits(m))}

\* vm_impl.h:101, `XOR: if all bits => NOT': the optimiser's replacement of
\* XOR with a full mask by NOT does not change what the program computes.
XorAllBitsIsNot == XOR(acc, MASK) = {NOT(acc)}
=============================================================================
