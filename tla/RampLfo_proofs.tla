--------------------------- MODULE RampLfo_proofs ---------------------------
(***************************************************************************)
(* The ramp LFO at every width, rate and range.  The whole argument is     *)
(* that a period is an even number of phases, that a step is never longer  *)
(* than a period, and case analysis on where the pointers are.             *)
(***************************************************************************)
EXTENDS RampLfo, FixedPoint_proofs

-----------------------------------------------------------------------------
(***************************************************************************)
(* The period.                                                             *)
(***************************************************************************)

\* amp_shift() is one of the eight values of the three top bits.
LEMMA AmpShiftBounds ==
  ASSUME range \in SF23
  PROVE  AmpShift \in -4 .. 3
<1>1. PICK m \in 1 .. kIntRange : kIntRange = 32 * (S15Unit * m)
  BY WidthAssumption
<1> DEFINE u == S15Unit * m
<1>2. u \in Nat \ {0}
  BY WidthAssumption, RangeAssumption, <1>1
<1> HIDE DEF u
<1>3. kIntRange = 32 * u
  BY <1>1 DEF u
<1> QED  BY <1>2, <1>3, TopBits DEF AmpShift

\* A positive amp_shift() leaves an even number of phases, at least 2 * u of
\* them; a negative one leaves one phase.
LEMMA Period ==
  ASSUME range \in SF23, NEW u \in Nat \ {0}, kIntRange = 32 * u
  PROVE  \/ Range = 0
         \/ \E h \in u - 1 .. 8 * u - 1 : Range = 2 * h + 1
<1>1. AmpShift \in -4 .. 3
  BY AmpShiftBounds
<1>2. kAmp4096 = 16 * u - 1
  BY DEF kAmp4096
<1>3. CASE AmpShift < 0
  BY <1>1, <1>3 DEF Range
<1>4. CASE AmpShift = 0
  <2>1. Range = 16 * u - 1
    <3>1. 2 ^ 0 = 1
      OBVIOUS
    <3> QED  BY <1>2, <1>4, <3>1 DEF Range
  <2>2. 8 * u - 1 \in u - 1 .. 8 * u - 1 /\ Range = 2 * (8 * u - 1) + 1
    BY <2>1
  <2> QED  BY <2>2
<1>5. CASE AmpShift = 1
  <2>1. Range = 8 * u - 1
    <3>1. 2 ^ 1 = 2
      OBVIOUS
    <3> QED  BY <1>2, <1>5, <3>1 DEF Range
  <2>2. 4 * u - 1 \in u - 1 .. 8 * u - 1 /\ Range = 2 * (4 * u - 1) + 1
    BY <2>1
  <2> QED  BY <2>2
<1>6. CASE AmpShift = 2
  <2>1. Range = 4 * u - 1
    <3>1. 2 ^ 2 = 4
      OBVIOUS
    <3> QED  BY <1>2, <1>6, <3>1 DEF Range
  <2>2. 2 * u - 1 \in u - 1 .. 8 * u - 1 /\ Range = 2 * (2 * u - 1) + 1
    BY <2>1
  <2> QED  BY <2>2
<1>7. CASE AmpShift = 3
  <2>1. Range = 2 * u - 1
    <3>1. 2 ^ 3 = 8
      OBVIOUS
    <3> QED  BY <1>2, <1>7, <3>1 DEF Range
  <2>2. u - 1 \in u - 1 .. 8 * u - 1 /\ Range = 2 * (u - 1) + 1
    BY <2>1
  <2> QED  BY <2>2
<1> QED  BY <1>1, <1>3, <1>4, <1>5, <1>6, <1>7

\* The rate moves the phase by at most 2 * u phases.
LEMMA StepBounds ==
  ASSUME rate \in SF23, NEW u \in Nat \ {0}, kIntRange = 32 * u
  PROVE  Step \in -(2 * u) .. 2 * u
<1> DEFINE q == rate \div S15Unit
<1>1. S15Unit \in Nat \ {0} /\ rate \in -(32 * u) .. 32 * u
  BY WidthAssumption DEF SF23, MIN, MAX
<1>2. rate \in -((32 * u) * S15Unit) .. (32 * u) * S15Unit
  <2>1. (32 * u) * S15Unit >= 32 * u /\ (32 * u) * S15Unit \in Int
    BY <1>1
  <2> QED  BY <1>1, <2>1
<1>3. q \in -(32 * u) .. 32 * u
  <2>1. 32 * u \in Nat
    OBVIOUS
  <2> QED  BY <1>1, <1>2, <2>1, QuotientBound
<1> HIDE DEF q
<1>4. q \in -((2 * u) * 16) .. (2 * u) * 16
  BY <1>3
<1>5. q \div 16 \in -(2 * u) .. 2 * u
  <2>1. 2 * u \in Nat /\ 16 \in Nat \ {0}
    OBVIOUS
  <2> QED  BY <1>4, <2>1, QuotientBound
<1> QED  BY <1>5 DEF Step, q

\* What every theorem below uses: there is at least one phase, and a step is
\* no longer than a period unless the period is one phase.
LEMMA PeriodAndStep ==
  ASSUME TypeOK
  PROVE  /\ Range \in 0 .. kAmp4096
         /\ Step \in Int
         /\ \/ Range = 0
            \/ \E h \in Nat : /\ Range = 2 * h + 1
                              /\ Step \in -(Range + 1) .. Range + 1
<1>1. PICK m \in 1 .. kIntRange : kIntRange = 32 * (S15Unit * m)
  BY WidthAssumption
<1> DEFINE u == S15Unit * m
<1>2. u \in Nat \ {0}
  BY WidthAssumption, RangeAssumption, <1>1
<1> HIDE DEF u
<1>3. kIntRange = 32 * u
  BY <1>1 DEF u
<1>4. Step \in -(2 * u) .. 2 * u
  BY <1>2, <1>3, StepBounds DEF TypeOK
<1>5. \/ Range = 0
      \/ \E h \in u - 1 .. 8 * u - 1 : Range = 2 * h + 1
  BY <1>2, <1>3, Period DEF TypeOK
<1>6. Range \in 0 .. kAmp4096
  <2>1. kAmp4096 = 16 * u - 1
    BY <1>2, <1>3 DEF kAmp4096
  <2> QED  BY <1>2, <1>5, <2>1
<1> QED  BY <1>2, <1>4, <1>5, <1>6

\* Where a tick takes a position of the ramp: one step down, and round the
\* end of the period at most once.
LEMMA RemainderCases ==
  ASSUME NEW n \in Nat \ {0}, NEW x \in -n .. 2 * n - 1
  PROVE  x % n = IF x < 0 THEN x + n ELSE IF x < n THEN x ELSE x - n
<1>1. CASE x < 0
  <2>1. x = n * (-1) + (x + n) /\ x + n \in 0 .. n - 1
    BY <1>1
  <2> QED  BY <1>1, <2>1
<1>2. CASE x >= 0 /\ x < n
  BY <1>2
<1>3. CASE x >= n
  <2>1. x = n * 1 + (x - n) /\ x - n \in 0 .. n - 1
    BY <1>3
  <2> QED  BY <1>3, <2>1
<1> QED  BY <1>1, <1>2, <1>3

\* The longest period is not empty.
LEMMA AmpIsNat == kAmp4096 \in Nat
  BY WidthAssumption, RangeAssumption DEF kAmp4096

-----------------------------------------------------------------------------
\* The phase stays within 22 bits, whatever the program stores in the rate
\* and range registers and whenever it does.
THEOREM TypeCorrect == Spec => []TypeOK
<1>1. Init => TypeOK
  BY AmpIsNat, RangeAssumption DEF Init, TypeOK, SF23, MIN, MAX
<1>2. TypeOK /\ [Next]_vars => TypeOK'
  <2> SUFFICES ASSUME TypeOK, [Next]_vars
               PROVE  TypeOK'
    OBVIOUS
  <2>0. 0 \in 0 .. kAmp4096
    BY AmpIsNat
  <2>1. CASE StoreRate
    BY <2>1, InputAssumption DEF TypeOK, StoreRate
  <2>2. CASE StoreRange
    BY <2>2, InputAssumption DEF TypeOK, StoreRange
  <2>3. CASE WLDR
    BY <2>0, <2>3, InputAssumption DEF TypeOK, WLDR, Jam
  <2>4. CASE JAM
    BY <2>0, <2>4 DEF TypeOK, JAM, Jam
  <2>5. CASE TickSample
    <3>1. Range \in 0 .. kAmp4096 /\ Step \in Int
      BY PeriodAndStep
    <3>2. (phase_ - Step) % (Range + 1) \in 0 .. Range
      <4> DEFINE n == Range + 1
                 x == phase_ - Step
      <4>1. x \in Int /\ n \in Nat \ {0} /\ n - 1 = Range
        BY <3>1, AmpIsNat DEF TypeOK
      <4> HIDE DEF n, x
      <4>2. x % n \in 0 .. n - 1
        BY <4>1
      <4> QED  BY <4>1, <4>2 DEF n, x
    <3> QED  BY <2>5, <3>1, <3>2, AmpIsNat DEF TypeOK, TickSample, Tick, NextPhase
  <2>6. CASE UNCHANGED vars
    BY <2>6 DEF TypeOK, vars
  <2> QED  BY <2>1, <2>2, <2>3, <2>4, <2>5, <2>6 DEF Next
<1> QED  BY <1>1, <1>2, PTL DEF Spec

-----------------------------------------------------------------------------
(***************************************************************************)
(* One tick of a settled ramp: how the triangle and the pointers move.     *)
(***************************************************************************)

\* With one phase nothing moves.
LEMMA TickOfOnePhase ==
  ASSUME TypeOK, Settled, TickSample, Range = 0
  PROVE  /\ phase_ = 0 /\ phase_' = 0 /\ Range' = 0 /\ Step' = Step
         /\ Step \in Int
<1>1. phase_ = 0 /\ Step \in Int
  BY PeriodAndStep DEF TypeOK, Settled
<1>2. phase_' = 0
  <2>1. phase_ - Step \in Int
    BY <1>1
  <2>2. (phase_ - Step) % 1 = 0
    BY <2>1
  <2> QED  BY <2>2 DEF TickSample, Tick, NextPhase
<1> QED  BY <1>1, <1>2 DEF TickSample, Range, AmpShift, Step

(***************************************************************************)
(* With n = 2 * h + 2 phases the phase goes from p to q.  First the        *)
(* arithmetic of one step s: where it goes, how the triangle moves, and    *)
(* where the pointers are when they jump.                                  *)
(***************************************************************************)
\* The triangle at phase x, and the pointer half a period on.
Folded(h, x) == IF x > h THEN (2 * h + 1) - x ELSE x

HalfOn(h, x) == (x + h) % (2 * h + 2)

\* A tick moves the triangle by at most the step, and a pointer that wraps
\* does so where the triangle is within a step of silence for it.
LEMMA OneStep ==
  ASSUME NEW h \in Nat, NEW s \in -(2 * h + 2) .. 2 * h + 2,
         NEW p \in 0 .. 2 * h + 1, NEW q, q = (p - s) % (2 * h + 2)
  PROVE  /\ q \in 0 .. 2 * h + 1
         /\ Distance(Folded(h, p), Folded(h, q)) <= Distance(s, 0)
         /\ q # p - s => /\ Distance(Folded(h, p), 0) <= Distance(s, 0)
                         /\ Distance(Folded(h, q), 0) <= Distance(s, 0)
         /\ HalfOn(h, q) # HalfOn(h, p) - s
              => /\ Distance(Folded(h, p), h) <= Distance(s, 0)
                 /\ Distance(Folded(h, q), h) <= Distance(s, 0)
<1> DEFINE n == 2 * h + 2
           x == p - s
<1>1. n \in Nat \ {0} /\ x \in -n .. 2 * n - 1
  OBVIOUS
<1>2. q = IF x < 0 THEN x + n ELSE IF x < n THEN x ELSE x - n
  <2> HIDE DEF x, n
  <2>1. x % n = IF x < 0 THEN x + n ELSE IF x < n THEN x ELSE x - n
    BY <1>1, RemainderCases
  <2> QED  BY <2>1 DEF x, n
<1>3. q \in 0 .. 2 * h + 1
  BY <1>2
<1>4. ASSUME NEW y \in 0 .. 2 * h + 1
      PROVE  HalfOn(h, y) = IF y + h < n THEN y + h ELSE y + h - n
  <2> DEFINE z == y + h
  <2>1. z \in -n .. 2 * n - 1 /\ ~(z < 0)
    OBVIOUS
  <2> HIDE DEF z, n
  <2>2. z % n = IF z < n THEN z ELSE z - n
    BY <1>1, <2>1, RemainderCases
  <2> QED  BY <2>2 DEF HalfOn, z, n
<1>5. /\ HalfOn(h, p) = IF p + h < n THEN p + h ELSE p + h - n
      /\ HalfOn(h, q) = IF q + h < n THEN q + h ELSE q + h - n
  BY <1>3, <1>4
<1> HIDE DEF HalfOn
<1> QED  BY <1>2, <1>3, <1>5 DEF Folded, Distance

\* A tick of a settled ramp with more than one phase is such a step.
LEMMA TickOfPeriod ==
  ASSUME TypeOK, Settled, TickSample, Range # 0
  PROVE  \E h \in Nat :
           /\ Range \div 2 = h /\ Step' = Step
           /\ Step \in -(2 * h + 2) .. 2 * h + 2
           /\ phase_ \in 0 .. 2 * h + 1
           /\ phase_' = (phase_ - Step) % (2 * h + 2)
           /\ Triangle = Folded(h, phase_) /\ Triangle' = Folded(h, phase_')
           /\ Pointer(TRUE) = HalfOn(h, phase_)
           /\ Pointer(TRUE)' = HalfOn(h, phase_')
<1>1. PICK h \in Nat : /\ Range = 2 * h + 1
                       /\ Step \in -(Range + 1) .. Range + 1
  BY PeriodAndStep
<1>2. Range \div 2 = h /\ Range + 1 = 2 * h + 2
  BY <1>1
<1>3. Range' = Range /\ Step' = Step
  BY DEF TickSample, Range, AmpShift, Step
<1>4. Step \in -(2 * h + 2) .. 2 * h + 2 /\ phase_ \in 0 .. 2 * h + 1
  BY <1>1, <1>2 DEF TypeOK, Settled
<1>5. phase_' = (phase_ - Step) % (2 * h + 2)
  BY <1>2 DEF TickSample, Tick, NextPhase
<1>6. Triangle = Folded(h, phase_) /\ Pointer(TRUE) = HalfOn(h, phase_)
  BY <1>1, <1>2, <1>4 DEF Triangle, Folded, Pointer, HalfOn
<1>7. Triangle' = Folded(h, phase_') /\ Pointer(TRUE)' = HalfOn(h, phase_')
  <2>1. Range' = 2 * h + 1 /\ Range' \div 2 = h /\ Range' + 1 = 2 * h + 2
    BY <1>1, <1>2, <1>3
  <2> DEFINE p == phase_'
             r == Range'
  <2>2. /\ Triangle' = IF p > r \div 2 THEN r - p ELSE p
        /\ Pointer(TRUE)' = (p + (r \div 2)) % (r + 1)
    BY DEF Triangle, Pointer
  <2>3. r = 2 * h + 1 /\ r \div 2 = h /\ r + 1 = 2 * h + 2
    BY <2>1
  <2> HIDE DEF p, r
  <2>4. Triangle' = Folded(h, p) /\ Pointer(TRUE)' = HalfOn(h, p)
    BY <2>2, <2>3 DEF Folded, HalfOn
  <2> QED  BY <2>4 DEF p
<1> QED  BY <1>2, <1>3, <1>4, <1>5, <1>6, <1>7

-----------------------------------------------------------------------------
\* The fade moves by at most a step.
LEMMA TickMovesFade ==
  ASSUME TypeOK, Settled, TickSample
  PROVE  Distance(Triangle, Triangle') <= Distance(Step, 0)
<1>1. CASE Range = 0
  BY <1>1, TickOfOnePhase DEF Triangle, Distance
<1>2. CASE Range # 0
  BY <1>2, TickOfPeriod, OneStep
<1> QED  BY <1>1, <1>2

\* The triangle never jumps, so the fade between the two pointers has no
\* clicks of its own.
THEOREM ContinuousFade == Spec => FadeIsContinuous
<1>1. TypeOK /\ [Next]_vars
        => [TickSample /\ Settled
              => Distance(Triangle, Triangle') <= Distance(Step, 0)]_vars
  BY TickMovesFade
<1> QED  BY <1>1, TypeCorrect, PTL DEF Spec, FadeIsContinuous

\* The main pointer jumps next to phase 0, the second one next to the top of
\* the triangle.
LEMMA TickJumpsSilently ==
  ASSUME TypeOK, Settled, TickSample, NEW second \in BOOLEAN,
         Pointer(second)' # Pointer(second) - Step
  PROVE  LET silent == IF second THEN Range \div 2 ELSE 0
         IN  /\ Distance(Triangle, silent) <= Distance(Step, 0)
             /\ Distance(Triangle', silent) <= Distance(Step, 0)
<1>1. CASE Range = 0
  BY <1>1, TickOfOnePhase DEF Triangle, Distance
<1>2. CASE Range # 0 /\ ~second
  <2>1. phase_' # phase_ - Step
    BY <1>2 DEF Pointer
  <2> QED  BY <1>2, <2>1, TickOfPeriod, OneStep
<1>3. CASE Range # 0 /\ second
  <2>1. Pointer(TRUE)' # Pointer(TRUE) - Step /\ second = TRUE
    BY <1>3
  <2> QED  BY <1>3, <2>1, TickOfPeriod, OneStep
<1> QED  BY <1>1, <1>2, <1>3

\* A pointer that jumps is silent: the pitch shifter built from the two
\* pointers and the fade does not click.
THEOREM SilentJumps == Spec => JumpsAreSilent
<1> DEFINE Silent(second) ==
             LET silent == IF second THEN Range \div 2 ELSE 0
                 jumps == Pointer(second)' # Pointer(second) - Step
             IN  jumps => /\ Distance(Triangle, silent) <= Distance(Step, 0)
                          /\ Distance(Triangle', silent) <= Distance(Step, 0)
<1>1. TypeOK /\ [Next]_vars
        => [TickSample /\ Settled => \A second \in BOOLEAN : Silent(second)]_vars
  BY TickJumpsSilently
<1> QED  BY <1>1, TypeCorrect, PTL DEF Spec, JumpsAreSilent

-----------------------------------------------------------------------------
(***************************************************************************)
(* What a CHO reads from a settled ramp.                                   *)
(***************************************************************************)
\* The fade of a period of u phases per eighth, scaled to the format.
LEMMA FadeOfPeriod ==
  ASSUME NEW u \in Nat \ {0}, kIntRange = 32 * u, NEW k \in 0 .. 3,
         AmpShift = k, NEW t \in 0 .. (Range \div 2)
  PROVE  t * (2 ^ (2 + k)) \in 0 .. MAX
<1>1. kAmp4096 = 16 * u - 1
  BY DEF kAmp4096
<1>2. CASE k = 0
  <2>1. 2 ^ 0 = 1 /\ 2 ^ (2 + 0) = 4
    OBVIOUS
  <2>2. Range \div 2 = 8 * u - 1
    BY <1>1, <1>2, <2>1 DEF Range
  <2> QED  BY <1>2, <2>1, <2>2 DEF MAX
<1>3. CASE k = 1
  <2>1. 2 ^ 1 = 2 /\ 2 ^ (2 + 1) = 8
    OBVIOUS
  <2>2. Range \div 2 = 4 * u - 1
    BY <1>1, <1>3, <2>1 DEF Range
  <2> QED  BY <1>3, <2>1, <2>2 DEF MAX
<1>4. CASE k = 2
  <2>1. 2 ^ 2 = 4 /\ 2 ^ (2 + 2) = 16
    OBVIOUS
  <2>2. Range \div 2 = 2 * u - 1
    BY <1>1, <1>4, <2>1 DEF Range
  <2> QED  BY <1>4, <2>1, <2>2 DEF MAX
<1>5. CASE k = 3
  <2>1. 2 ^ 3 = 8 /\ 2 ^ (2 + 3) = 32
    OBVIOUS
  <2>2. Range \div 2 = u - 1
    BY <1>1, <1>5, <2>1 DEF Range
  <2> QED  BY <1>5, <2>1, <2>2 DEF MAX
<1> QED  BY <1>2, <1>3, <1>4, <1>5

\* Numbers up to 1.0 fit an int32_t, and so do their complements.
LEMMA CoefficientFits ==
  ASSUME NEW x \in 0 .. MAX
  PROVE  Wrap32(x) = x /\ \A flags : Complemented(flags, x) \in 0 .. MAX
<1>1. x \in Int32 /\ MAX - x \in Int32 /\ MAX - x \in 0 .. MAX
  BY RangeAssumption DEF Int32, INT32_MIN, INT32_MAX, MAX
<1>2. Sub(MAX, x) = MAX - x
  BY <1>1, WrapIdentity DEF Sub
<1> QED  BY <1>1, <1>2, WrapIdentity DEF Complemented

\* The fade is in [0, 1).  With a negative amp_shift() it is silent, whatever
\* the undefined shift makes of it.
LEMMA FadeFits ==
  ASSUME TypeOK, Settled
  PROVE  \A x \in Crossfade : x \in 0 .. MAX
<1>1. PICK m \in 1 .. kIntRange : kIntRange = 32 * (S15Unit * m)
  BY WidthAssumption
<1> DEFINE u == S15Unit * m
<1>2. u \in Nat \ {0}
  BY WidthAssumption, RangeAssumption, <1>1
<1> HIDE DEF u
<1>3. kIntRange = 32 * u
  BY <1>1 DEF u
<1>4. AmpShift \in -4 .. 3
  BY AmpShiftBounds DEF TypeOK
<1>5. 0 \in 0 .. MAX
  BY <1>2, <1>3 DEF MAX
<1>6. CASE AmpShift < 0
  <2>1. Range = 0
    BY <1>4, <1>6 DEF Range
  <2>2. Triangle = 0
    BY <2>1 DEF Triangle, Settled, TypeOK
  <2>3. Crossfade \subseteq {0}
    <3>1. 2 ^ 0 = 1 /\ 2 ^ 1 = 2 /\ 0 * 1 = 0 /\ 0 * 2 = 0
      OBVIOUS
    <3>2. 0 * 256 * kIntRange = 0 /\ 0 * 128 * kIntRange = 0
      BY RangeAssumption
    <3>3. Wrap32(0) = 0
      BY <1>5, CoefficientFits
    <3>4. AmpShift >= -2 => 0 * (2 ^ (2 + AmpShift)) = 0
      <4>1. CASE AmpShift = -2
        BY <3>1, <4>1
      <4>2. CASE AmpShift = -1
        BY <3>1, <4>2
      <4> QED  BY <1>4, <1>6, <4>1, <4>2
    <3>5. Crossfade \subseteq {0, Wrap32(0)}
      BY <2>2, <3>2, <3>4 DEF Crossfade
    <3> QED  BY <3>3, <3>5
  <2> QED  BY <1>5, <2>3
<1>7. CASE AmpShift >= 0
  <2>1. AmpShift \in 0 .. 3
    BY <1>4, <1>7
  <2>2. Triangle \in 0 .. Range \div 2
    <3>1. Range \in Nat
      BY PeriodAndStep, AmpIsNat
    <3> QED  BY <3>1 DEF Triangle, Settled, TypeOK
  <2>3. Triangle * (2 ^ (2 + AmpShift)) \in 0 .. MAX
    BY <1>2, <1>3, <2>1, <2>2, FadeOfPeriod
  <2>4. Crossfade = {Wrap32(Triangle * (2 ^ (2 + AmpShift)))}
    BY <1>4, <1>7 DEF Crossfade
  <2> QED  BY <2>3, <2>4, CoefficientFits
<1> QED  BY <1>4, <1>6, <1>7

\* A higher phase is not in a lower sample, below zero too.
LEMMA QuotientGrows ==
  ASSUME NEW c \in Nat \ {0}, NEW a \in Int, NEW b \in Int, a <= b
  PROVE  a \div c \in Int /\ b \div c \in Int /\ a \div c <= b \div c
<1> DEFINE q == a \div c
           p == b \div c
<1>1. q \in Int /\ p \in Int /\ a % c \in 0 .. c - 1 /\ b % c \in 0 .. c - 1
      /\ a = c * q + (a % c) /\ b = c * p + (b % c)
  OBVIOUS
<1> HIDE DEF q, p
<1>2. q <= p
  <2> SUFFICES ASSUME q >= p + 1
               PROVE  FALSE
    BY <1>1
  <2>1. c * q >= c * (p + 1) /\ c * (p + 1) = c * p + c /\ c * q \in Int /\ c * p \in Int
    BY <1>1
  <2> QED  BY <1>1, <2>1
<1> QED  BY <1>1, <1>2 DEF q, p

\* A position between two others is in a sample between theirs.
LEMMA QuotientBetween ==
  ASSUME NEW c \in Nat \ {0}, NEW lo \in Int, NEW hi \in Int, NEW a \in lo .. hi
  PROVE  a \div c \in lo \div c .. hi \div c
<1>1. a \in Int /\ lo <= a /\ a <= hi
  OBVIOUS
<1> QED  BY <1>1, QuotientGrows

\* How far a ramp whose range has been lowered is above it.
LEMMA PhaseWithOverhang ==
  ASSUME TypeOK
  PROVE  /\ Range \in Nat /\ Overhang \in Nat
         /\ phase_ \in 0 .. Range + Overhang
<1>1. Range \in Nat /\ phase_ \in Nat
  BY PeriodAndStep, AmpIsNat DEF TypeOK
<1> QED  BY <1>1 DEF Overhang, Settled

\* The main pointer is the phase.  The second one is in the range whatever the
\* phase, since the code masks it with the range of the moment.
LEMMA PointerInReach ==
  ASSUME TypeOK
  PROVE  /\ Pointer(FALSE) \in 0 .. Range + Overhang
         /\ Pointer(TRUE) \in 0 .. Range
<1>1. Range \in Nat /\ phase_ \in 0 .. Range + Overhang /\ Overhang \in Nat
  BY PhaseWithOverhang
<1>2. Pointer(FALSE) \in 0 .. Range + Overhang
  BY <1>1 DEF Pointer
<1>3. Pointer(TRUE) \in 0 .. Range
  <2> DEFINE n == Range + 1
             x == phase_ + (Range \div 2)
  <2>1. n \in Nat \ {0} /\ x \in Int /\ n - 1 = Range
    BY <1>1
  <2>2. Pointer(TRUE) = x % n
    BY DEF Pointer
  <2> HIDE DEF n, x
  <2>3. x % n \in 0 .. n - 1
    BY <2>1
  <2> QED  BY <2>1, <2>2, <2>3
<1> QED  BY <1>2, <1>3

\* Whatever a program stores in the range, a ramp addresses samples of its
\* range with any of the flags, and beyond it only by what the phase is above a
\* range that has been lowered since the last tick; and the fade of a settled
\* ramp is a proper coefficient.
THEOREM ReadsInRange == Spec => []ReadsKeepToRange
<1>1. ASSUME TypeOK
      PROVE  ReadsKeepToRange
  <2> SUFFICES ASSUME NEW flags \in SUBSET Flag, NEW x \in Read(flags)
               PROVE  /\ x.offset \in (-Overhang) \div OffsetUnit
                                        .. (Range + Overhang) \div OffsetUnit
                      /\ {"RPTR2", "NA"} \cap flags # {}
                           => x.offset \in 0 .. Range \div OffsetUnit
                      /\ Settled /\ "NA" \in flags => x.coefficient \in 0 .. MAX
    BY DEF ReadsKeepToRange
  <2>1. /\ Range \in Nat /\ Overhang \in Nat /\ OffsetUnit \in Nat \ {0}
        /\ phase_ \in 0 .. Range + Overhang
    BY <1>1, PhaseWithOverhang, WidthAssumption DEF OffsetUnit
  <2>2. \A a \in -Overhang .. Range + Overhang :
          a \div OffsetUnit \in (-Overhang) \div OffsetUnit
                                  .. (Range + Overhang) \div OffsetUnit
    <3> DEFINE lo == -Overhang
               hi == Range + Overhang
    <3>1. lo \in Int /\ hi \in Int
      BY <2>1
    <3> HIDE DEF lo, hi
    <3>2. \A a \in lo .. hi : a \div OffsetUnit \in lo \div OffsetUnit .. hi \div OffsetUnit
      BY <2>1, <3>1, QuotientBetween
    <3> QED  BY <3>2 DEF lo, hi
  <2>3. \A a \in 0 .. Range : a \div OffsetUnit \in 0 .. Range \div OffsetUnit
    <3> DEFINE lo == 0
    <3>1. lo \in Int /\ Range \in Int /\ lo \div OffsetUnit = 0
      BY <2>1
    <3> HIDE DEF lo
    <3>2. \A a \in lo .. Range :
            a \div OffsetUnit \in lo \div OffsetUnit .. Range \div OffsetUnit
      BY <2>1, <3>1, QuotientBetween
    <3> QED  BY <3>1, <3>2 DEF lo
  <2>4. CASE "NA" \in flags
    <3>1. PICK y \in Crossfade : x = [offset |-> 0, coefficient |-> Complemented(flags, y)]
      BY <2>4 DEF Read, ReadFade
    <3>2. Settled => x.coefficient \in 0 .. MAX
      BY <1>1, <3>1, FadeFits, CoefficientFits
    <3>3. 0 \div OffsetUnit = 0 /\ 0 \in 0 .. Range /\ 0 \in -Overhang .. Range + Overhang
      BY <2>1
    <3> QED  BY <2>2, <2>3, <3>1, <3>2, <3>3
  <2>5. CASE "NA" \notin flags
    <3> DEFINE v == Pointer("RPTR2" \in flags)
               a == IF "COMPA" \in flags THEN Range - v ELSE v
    <3>1. /\ v \in 0 .. Range + Overhang
          /\ "RPTR2" \in flags => v \in 0 .. Range
      <4>1. CASE "RPTR2" \in flags
        <5>1. v = Pointer(TRUE)
          BY <4>1 DEF Pointer
        <5>2. Pointer(TRUE) \in 0 .. Range
          BY <1>1, PointerInReach
        <5>3. v \in 0 .. Range
          BY <5>1, <5>2, Zenon
        <5> HIDE DEF v
        <5> QED  BY <2>1, <5>3
      <4>2. CASE "RPTR2" \notin flags
        <5>1. v = Pointer(FALSE)
          BY <4>2 DEF Pointer
        <5> QED  BY <1>1, <4>2, <5>1, PointerInReach
      <4> QED  BY <4>1, <4>2
    <3> HIDE DEF v
    <3>2. a \in -Overhang .. Range + Overhang /\ ("RPTR2" \in flags => a \in 0 .. Range)
      BY <2>1, <3>1
    <3>3. x.offset = a \div OffsetUnit
      BY <2>5 DEF Read, ReadPointer, v
    <3> HIDE DEF a
    <3> QED  BY <2>2, <2>3, <2>5, <3>2, <3>3
  <2> QED  BY <2>4, <2>5
<1> QED  BY <1>1, TypeCorrect, PTL
=============================================================================
