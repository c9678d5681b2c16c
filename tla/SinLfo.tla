------------------------------- MODULE SinLfo -------------------------------
(***************************************************************************)
(* src/src/vm/sin_lfo.h: a sine and cosine oscillator and the two          *)
(* registers it reads.  Each sample rotates (sin_, cos_) a little, with    *)
(* the new cosine already used for the new sine; nothing renormalises or   *)
(* saturates the pair.                                                     *)
(***************************************************************************)
EXTENDS Lfo

CONSTANT RateInput   \* what programs store in SINx_RATE

VARIABLES
  sin_, cos_,
  rate,        \* registers_[SINx_RATE], through rate_
  range        \* registers_[SINx_RANGE], through range_

vars == <<sin_, cos_, rate, range>>

\* rate_->loadi() >> 8.
Coefficient == rate \div S15Unit

Jam == sin_' = 0 /\ cos_' = MIN

\* The sums are signed and unchecked: where they overflow, they wrap.
NextCos == Add(cos_, Mul(sin_, Coefficient))

\* Definitions named ...Mistake are not the code: each is a slip that some run
\* must notice when it replaces the definition below it.
OldCosineMistake == Sub(sin_, Mul(cos_, Coefficient))

WrongTermMistake == Sub(sin_, Mul(sin_, Coefficient))

SaturatedMistake == SSAT(Sub(sin_, Mul(NextCos, Coefficient)))

NextSin == Sub(sin_, Mul(NextCos, Coefficient))

Tick == cos_' = NextCos /\ sin_' = NextSin

Sin == Mul(sin_, range)

Cos == Mul(cos_, range)

Read(flags) ==
  LET v == IF "COS" \in flags THEN Cos ELSE Sin
      a == IF "COMPA" \in flags THEN Sub(0, v) ELSE v
      x == LfoCoeffToFloat(S15Unit, v % S15Unit)
  IN  [offset |-> a \div S15Unit, coefficient |-> Complemented(flags, x)]

-----------------------------------------------------------------------------
TickSample == Tick /\ UNCHANGED <<rate, range>>

\* A jammed oscillator, and a program that does not touch its registers.
FreeRunningSpec ==
  /\ sin_ = 0 /\ cos_ = MIN /\ rate \in RateInput /\ range = MAX
  /\ [][TickSample]_vars /\ WF_vars(TickSample)

-----------------------------------------------------------------------------
Magnitude(x) == Distance(x, 0)

\* At a constant rate the rounding of the two products never accumulates:
\* for ever, the oscillation stays within an eighth of full scale and the
\* 1 / coefficient by which rounding moves its centre.  So nothing overflows
\* although nothing saturates.
AmplitudeStays ==
  Coefficient # 0 =>
    \A x \in {sin_, cos_} :
      Magnitude(x) <= kIntRange + kIntRange \div 8
                      + kIntRange \div Magnitude(Coefficient)

\* A tick can be undone, the sine first: rounding and wrapping merge no two
\* states, at any rate and from any state, so an oscillation neither decays
\* nor leaves its orbit.  Saturated sums, which the source has in a comment,
\* would.
Reversible ==
  [][Tick => /\ sin_ = Add(sin_', Mul(cos_', Coefficient))
             /\ cos_ = Sub(cos_', Mul(sin_, Coefficient))]_vars

\* Nor does the rounding ever stop the oscillator at a fixed point: sine and
\* cosine change sign for ever.
Oscillates ==
  Coefficient # 0 =>
    /\ []<>(sin_ < 0) /\ []<>(sin_ > 0)
    /\ []<>(cos_ < 0) /\ []<>(cos_ > 0)
=============================================================================
