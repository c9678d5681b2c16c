--------------------------------- MODULE Lfo ---------------------------------
(***************************************************************************)
(* src/src/vm/lfo.h, and what EngineI32 gives both LFOs: a 16 bit view of  *)
(* a register, the flags of CHO, and the interpolation coefficient.        *)
(***************************************************************************)
EXTENDS FixedPoint

CONSTANT S15Unit   \* 1 << (23 - 15): the last bit of an S.15 value in an SF23

\* The format has room for the eight ranges and the 1/16 of the ramp's rate.
ASSUME WidthAssumption ==
  /\ S15Unit \in Nat \ {0}
  /\ \E m \in 1 .. kIntRange : kIntRange = 32 * (S15Unit * m)

\* CHO_FLAGS, but for REG, which no LFO looks at.
Flag == {"COS", "COMPC", "COMPA", "RPTR2", "NA"}

\* EngineI32::LfoCoeffToFloat<bits> of a fraction of unit = 1 << bits steps:
\* f << (BITS - bits), and BITS counts the sign.
LfoCoeffToFloat(unit, f) == f * ((2 * kIntRange) \div unit)

\* ONE - coefficient.
Complemented(flags, coefficient) ==
  IF "COMPC" \in flags THEN Sub(MAX, coefficient) ELSE coefficient

\* How far two positions are apart; the properties of the LFOs use it.
Distance(a, b) == IF a < b THEN b - a ELSE a - b
=============================================================================
