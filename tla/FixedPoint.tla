------------------------------ MODULE FixedPoint ------------------------------
(***************************************************************************)
(* src/src/core/core_fpmath.h and core_fixed_point.h for SF23, the format  *)
(* of every register, delay sample and coefficient of the I32 engine.      *)
(*                                                                         *)
(* The width is symbolic.  kIntRange is 2^23 in the source, and everything *)
(* else scales with it: an int32_t has 8 bits more than an SF23, so it     *)
(* holds -256 * kIntRange .. 256 * kIntRange - 1.                          *)
(***************************************************************************)
EXTENDS Integers

CONSTANTS
  kIntRange,     \* 1 << (BITS - 1), the raw value of 1.0
  kFracBits      \* FRAC = BITS - 1

ASSUME RangeAssumption == kIntRange \in Nat \ {0}

ASSUME FracAssumption == kFracBits \in Nat /\ kIntRange = 2 ^ kFracBits

\* No format is wider than SF23.  Only what is said of single bits needs it.
ASSUME WidestAssumption == kFracBits <= 23

MIN == -kIntRange
MAX == kIntRange - 1
MASK == 2 * kIntRange - 1

\* The values an SF23 is meant to have; FixedPoint::value may leave it.
SF23 == MIN .. MAX

\* An S1.14 coefficient reaches from -2.0 to just below 2.0.
Coefficients == -2 * kIntRange .. 2 * kIntRange - 1

INT32_MIN == -256 * kIntRange
INT32_MAX == 256 * kIntRange - 1
Int32 == INT32_MIN .. INT32_MAX

\* What is left of an integer in an int32_t.
Wrap32(x) == ((x - INT32_MIN) % (512 * kIntRange)) + INT32_MIN

-----------------------------------------------------------------------------

\* Definitions named ...Mistake are not the code: each is a slip that some run
\* must notice when it replaces the definition below it.
SSATMistake(v) == IF v < MIN THEN MIN ELSE IF v > MAX + 1 THEN MAX ELSE v

\* std::clamp and the ssat instruction.
SSAT(v) == IF v < MIN THEN MIN ELSE IF v > MAX THEN MAX ELSE v

\* `(value & MIN) ? value | MIN : value'.  MIN has every bit from the sign
\* bit up, so the test says that value is not in 0..MAX, and `| MIN' keeps
\* only the bits below the sign.
SX(v) == IF v \in 0 .. MAX THEN v ELSE (v % kIntRange) - kIntRange

MulMistake(a, b) == Wrap32(a * b) \div kIntRange

\* 64 bit product, arithmetic shift (towards minus infinity), back to 32.
Mul(a, b) == Wrap32((a * b) \div kIntRange)

Add(a, b) == Wrap32(a + b)

Sub(a, b) == Wrap32(a - b)

ABS(v) == IF v < 0 THEN Wrap32(-v) ELSE v

\* A multiply-accumulate, as every mixing instruction writes it.
Mac(a, c, b) == Add(Mul(a, c), b)

-----------------------------------------------------------------------------
(***************************************************************************)
(* The logical operations, on sets of bit positions: each has one result r *)
(* with the given bits below the sign, and SX makes the sign.  The operand *)
(* is an SF23, so its bits from FRAC up are all its sign; the mask is a 24 *)
(* bit operand of an instruction, with one bit there.                      *)
(***************************************************************************)
Bit(x, i) == (x \div 2 ^ i) % 2

LowBits(x) == {i \in 0 .. kFracBits - 1 : Bit(x, i) = 1}

SignBit(mask) == mask >= kIntRange

WithBits(bits, negative) ==
  {r \in IF negative THEN MIN .. -1 ELSE 0 .. MAX : LowBits(r) = bits}

\* Without SX, the result of a mask with the sign bit would be positive.
ANDMistake(value, mask) ==
  WithBits(LowBits(value) \cap LowBits(mask), FALSE)

AND(value, mask) ==
  WithBits(LowBits(value) \cap LowBits(mask), value < 0 /\ SignBit(mask))

OR(value, mask) ==
  WithBits(LowBits(value) \cup LowBits(mask), value < 0 \/ SignBit(mask))

XORMistake(value, mask) ==
  WithBits(LowBits(value) \cup LowBits(mask), value < 0 \/ SignBit(mask))

\* `^' can clear one of the nine sign bits of a negative operand, never all.
XOR(value, mask) ==
  WithBits((LowBits(value) \cup LowBits(mask))
             \ (LowBits(value) \cap LowBits(mask)),
           value < 0 \/ SignBit(mask))

\* ~value is -value - 1.
NOT(value) == SX(-value - 1)
=============================================================================
