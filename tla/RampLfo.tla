------------------------------- MODULE RampLfo -------------------------------
(***************************************************************************)
(* src/src/vm/ramp_lfo.h: a ramp LFO and the two registers it reads.       *)
(*                                                                         *)
(* phase_ falls by the rate once per sample and wraps at the range.  CHO   *)
(* reads it as a delay address and an interpolation coefficient: through   *)
(* the main pointer, through a second one half a period away (RPTR2), or   *)
(* as a triangle that fades between the two (NA).                          *)
(*                                                                         *)
(* The program stores the registers at any time; the LFO sees a new range  *)
(* at once in Read, but fits its phase to it only in the next Tick.        *)
(***************************************************************************)
EXTENDS Lfo

CONSTANTS
  RateInput,   \* what programs store in RMPx_RATE
  RangeInput   \* what programs store in RMPx_RANGE

ASSUME InputAssumption == RateInput \subseteq SF23 /\ RangeInput \subseteq SF23

VARIABLES
  phase_,
  rate,        \* registers_[RMPx_RATE], through rate_
  range        \* registers_[RMPx_RANGE], through range_

vars == <<phase_, rate, range>>

kAmp4096 == (kIntRange \div 2) - 1

\* `& 0x3ff' and `>> 10' split a phase into fraction and sample offset.
OffsetUnit == 4 * S15Unit

TypeOK ==
  /\ phase_ \in 0 .. kAmp4096
  /\ rate \in SF23
  /\ range \in SF23

-----------------------------------------------------------------------------
\* range_->loadi() >> kRangeShift: the two bits below the sign, and the sign.
AmpShift == range \div (kIntRange \div 4)

\* kAmp4096 >> amp_shift().  A shift by a negative count is undefined; the
\* ARM and x86 instructions both leave no bit of kAmp4096.
Range == IF AmpShift >= 0 THEN kAmp4096 \div (2 ^ AmpShift) ELSE 0

\* The rate as a 16 bit value, / 16.
Step == (rate \div S15Unit) \div 16

Jam == phase_' = 0

\* Definitions named ...Mistake are not the code: each is a slip that some run
\* must notice when it replaces the definition below it.
UnmaskedMistake == phase_ - Step

StopAtEndMistake ==
  IF phase_ - Step \in 0 .. Range THEN phase_ - Step ELSE phase_

WrapOnceMistake ==
  LET next == phase_ - Step
  IN  IF next < 0 THEN next + Range + 1 ELSE next

NextPhase == (phase_ - Step) % (Range + 1)

Tick == phase_' = NextPhase

-----------------------------------------------------------------------------
(***************************************************************************)
(* Read: the possible LfoValues, more than one where the code shifts by a  *)
(* negative count.                                                         *)
(***************************************************************************)
TriangleMistake == IF phase_ > Range \div 4 THEN Range - phase_ ELSE phase_

\* The fade between the pointers before it is scaled to the format.
Triangle == IF phase_ > Range \div 2 THEN Range - phase_ ELSE phase_

\* Triangle << (2 + amp_shift()).  By -1 or -2 the ARM instruction leaves
\* nothing; the x86 one shifts by 31 or 30.
Crossfade ==
  IF AmpShift >= -2
  THEN {Wrap32(Triangle * (2 ^ (2 + AmpShift)))}
  ELSE {0, Wrap32(Triangle * (IF AmpShift = -3 THEN 256 ELSE 128) * kIntRange)}

UnmaskedPointerMistake(second) ==
  IF second THEN phase_ + (Range \div 2) ELSE phase_

QuarterPointerMistake(second) ==
  IF second THEN (phase_ + (Range \div 4)) % (Range + 1) ELSE phase_

\* The pointer a Read without NA uses.
Pointer(second) ==
  IF second THEN (phase_ + (Range \div 2)) % (Range + 1) ELSE phase_

ReadFade(flags) ==
  {[offset |-> 0, coefficient |-> Complemented(flags, x)] : x \in Crossfade}

ReadPointer(flags) ==
  LET v == Pointer("RPTR2" \in flags)
      a == IF "COMPA" \in flags THEN Range - v ELSE v
      x == LfoCoeffToFloat(OffsetUnit, v % OffsetUnit)
  IN  {[offset |-> a \div OffsetUnit, coefficient |-> Complemented(flags, x)]}

Read(flags) == IF "NA" \in flags THEN ReadFade(flags) ELSE ReadPointer(flags)

-----------------------------------------------------------------------------
Init == phase_ = 0 /\ rate = 0 /\ range = 0

\* WRAX and its relatives store one register; WLDR stores both and jams.
StoreRate == rate' \in RateInput /\ UNCHANGED <<phase_, range>>

StoreRange == range' \in RangeInput /\ UNCHANGED <<phase_, rate>>

WLDR == rate' \in RateInput /\ range' \in RangeInput /\ Jam

JAM == Jam /\ UNCHANGED <<rate, range>>

TickSample == Tick /\ UNCHANGED <<rate, range>>

Next == StoreRate \/ StoreRange \/ WLDR \/ JAM \/ TickSample

Spec == Init /\ [][Next]_vars

\* Samples keep coming, whatever the program stores between them.
FairSpec == Spec /\ WF_vars(TickSample)

-----------------------------------------------------------------------------
\* The phase fits the range; false from a store that lowers the range until
\* the next Tick or Jam.
Settled == phase_ <= Range

\* How far the phase is above a range that has been lowered under it.
Overhang == IF Settled THEN 0 ELSE phase_ - Range

\* A settled LFO addresses only the samples of its range, under every
\* combination of flags, and its fade stays in [0, 1).  Between a store that
\* lowers the range and the next Tick, a Read goes beyond either end by no more
\* than the phase does, and the second pointer does not at all.
ReadsKeepToRange ==
  \A flags \in SUBSET Flag : \A x \in Read(flags) :
    /\ x.offset \in (-Overhang) \div OffsetUnit .. (Range + Overhang) \div OffsetUnit
    /\ {"RPTR2", "NA"} \cap flags # {} => x.offset \in 0 .. Range \div OffsetUnit
    /\ Settled /\ "NA" \in flags => x.coefficient \in 0 .. MAX

\* The fade never jumps: over a sample it moves by at most the step, also
\* where the phase wraps and where the triangle turns.
FadeIsContinuous ==
  [][TickSample /\ Settled => Distance(Triangle, Triangle') <= Distance(Step, 0)]_vars

\* What makes a pitch shifter free of clicks: a pointer may jump from one end
\* of the range to the other only while the fade has it (nearly) silent, the
\* main pointer at 0 and the second one at half the range.
JumpsAreSilent ==
  [][TickSample /\ Settled =>
       \A second \in BOOLEAN :
         LET silent == IF second THEN Range \div 2 ELSE 0
             jumps == Pointer(second)' # Pointer(second) - Step
         IN  jumps => /\ Distance(Triangle, silent) <= Distance(Step, 0)
                      /\ Distance(Triangle', silent) <= Distance(Step, 0)]_vars

\* Once the program leaves the registers alone the ramp comes round for ever,
\* wherever in the old range it was; unless its rate loses all its bits.
SweepsForever ==
  <>[][TickSample]_vars => []<>(Step = 0 \/ phase_ < Distance(Step, 0))

-----------------------------------------------------------------------------
\* lfo.h:37, "[0, 1)": the coefficient of a settled LFO.
CoefficientBelowOne ==
  Settled => \A flags \in SUBSET Flag : \A x \in Read(flags) :
               x.coefficient \in 0 .. MAX
=============================================================================
