--------------------------- MODULE Machine_proofs ---------------------------
(***************************************************************************)
(* Every instruction leaves the machine in its ranges: the accumulator,    *)
(* the registers and the delay samples are SF23 values, and no access of   *)
(* the delay memory is outside it.                                         *)
(***************************************************************************)
EXTENDS Machine, FixedPoint_proofs

-----------------------------------------------------------------------------
\* The operations on raw values produce integers.
LEMMA IntArithmetic ==
  \A a \in Int, b \in Int :
    /\ Add(a, b) \in Int32 /\ Sub(a, b) \in Int32 /\ Mul(a, b) \in Int32
    /\ ABS(a) \in Int
<1> SUFFICES ASSUME NEW a \in Int, NEW b \in Int
             PROVE  /\ Add(a, b) \in Int32 /\ Sub(a, b) \in Int32
                    /\ Mul(a, b) \in Int32 /\ ABS(a) \in Int
  OBVIOUS
<1>1. a + b \in Int /\ a - b \in Int /\ -a \in Int
  OBVIOUS
<1>2. (a * b) \div kIntRange \in Int
  <2>1. a * b \in Int
    OBVIOUS
  <2> QED  BY <2>1, RangeAssumption
<1>3. Int32 \subseteq Int
  BY RangeAssumption DEF Int32, INT32_MIN, INT32_MAX
<1> QED  BY <1>1, <1>2, <1>3, WrapIsInt DEF Add, Sub, Mul, ABS

\* An int32_t and an SF23 are integers, and an SF23 is an int32_t.
LEMMA FormatsAreInt ==
  /\ SF23 \subseteq Int32 /\ Int32 \subseteq Int /\ SF23 \subseteq Int
  /\ 0 \in SF23 /\ MIN \in SF23 /\ MAX \in SF23
  BY RangeAssumption DEF SF23, MIN, MAX, Int32, INT32_MIN, INT32_MAX

\* A multiply-accumulate produces an integer for store() to clamp.
LEMMA MacIsInt ==
  \A a \in Int, c \in Int, b \in Int : Mac(a, c, b) \in Int
  BY IntArithmetic, FormatsAreInt DEF Mac

\* The mask of the delay memory is not empty.
LEMMA DelaySizePositive == DelaySize \in Nat \ {0}
<1>1. PICK m \in 1 .. kIntRange : kIntRange = 32 * (S15Unit * m)
  BY WidthAssumption
<1>2. m \in Nat \ {0} /\ S15Unit \in Nat \ {0} /\ kIntRange \in Nat \ {0}
  BY WidthAssumption, RangeAssumption
<1>3. kIntRange = S15Unit * (32 * m)
  BY <1>1, <1>2
<1> DEFINE d == 32 * m
<1>4. d \in Nat \ {0} /\ kIntRange = S15Unit * d
  BY <1>2, <1>3
<1> HIDE DEF d
<1>5. kIntRange \div S15Unit = d
  BY <1>2, <1>4
<1> QED  BY <1>4, <1>5 DEF DelaySize

-----------------------------------------------------------------------------
\* The operands that VM::Compile gives each opcode.
LEMMA Operands ==
  ASSUME NEW i \in Instruction
  PROVE  /\ i.opcode \in {"RDA", "WRA", "WRAP"}
              => i.addr \in Address /\ i.c \in Coefficients
         /\ i.opcode = "RMPA" => i.c \in Coefficients
         /\ i.opcode \in {"RDAX", "RDFX", "WRAX", "WRHX", "WRLX", "MAXX"}
              => i.addr \in Register /\ i.c \in Coefficients
         /\ i.opcode \in {"MULX", "LDAX"} => i.addr \in Register
         /\ i.opcode = "SOF" => i.c \in Coefficients /\ i.d \in SF23
         /\ i.opcode \in {"SKP", "JMP"} => i.n \in Nat
         /\ i.opcode \in {"WLDS", "WLDR"} => i.n \in 0 .. 1 /\ i.f \in Int /\ i.a \in Int
         /\ i.opcode = "JAM" => i.n \in 0 .. 1
         /\ i.opcode = "CHO_RDAL" => i.n \in Lookup
         /\ i.opcode \in {"CHO_RDA_RMP", "CHO_RDA_SIN"}
              => i.n \in 0 .. 1 /\ i.addr \in Address
         /\ i.opcode \in {"CHO_SOF_RMP", "CHO_SOF_SIN"}
              => i.n \in 0 .. 1 /\ i.d \in SF23
  BY DEF Instruction

-----------------------------------------------------------------------------
\* The ranges of the machine's state.
Typed ==
  /\ acc \in SF23 /\ last_read_ \in SF23
  /\ registers \in [Register -> SF23]
  /\ buffer_ \in [0 .. DelaySize - 1 -> SF23]
  /\ cursor_ \in 0 .. DelaySize - 1
  /\ ramp_phase \in [0 .. 1 -> Nat]
  /\ sine \in [0 .. 1 -> Int32] /\ cosine \in [0 .. 1 -> Int32]

\* The registers of the LFOs.
LEMMA LfoRegisters ==
  \A n \in 0 .. 1 : /\ SinRate(n) \in Register /\ SinRange(n) \in Register
                    /\ RmpRate(n) \in Register /\ RmpRange(n) \in Register
  BY DEF SinRate, SinRange, RmpRate, RmpRange, Register, SpecialRegister

\* A slot of the delay memory, for every address an instruction can form.
LEMMA AtIsSlot ==
  ASSUME Typed, NEW j \in Int
  PROVE  Delay!At(j) \in 0 .. DelaySize - 1
<1>1. cursor_ + j \in Int
  BY DelaySizePositive DEF Typed
<1>2. \A x \in Int : x % DelaySize \in 0 .. DelaySize - 1
  BY DelaySizePositive
<1> QED  BY <1>1, <1>2 DEF Delay!At

\* The shifts of a ramp, up to 2 + 3 bits.
LEMMA SmallPowers == \A s \in 0 .. 5 : 2 ^ s \in Nat \ {0}
<1>1. \A s \in 0 .. 5 : s \in 0 .. 23
  OBVIOUS
<1> QED  BY <1>1, Doubling

\* A ramp uses the same arithmetic as the instructions.
LEMMA RampArithmetic ==
  ASSUME NEW n
  PROVE  /\ \A x : Ramp(n)!Wrap32(x) = Wrap32(x)
         /\ \A flags, x : Ramp(n)!Complemented(flags, x) = Complemented(flags, x)
         /\ \A unit, x : Ramp(n)!LfoCoeffToFloat(unit, x) = LfoCoeffToFloat(unit, x)
<1>1. \A x : Ramp(n)!Wrap32(x) = Wrap32(x)
  BY DEF Ramp!Wrap32, Ramp!INT32_MIN, Wrap32, INT32_MIN
<1>2. \A a, b : Ramp(n)!Sub(a, b) = Sub(a, b)
  BY <1>1 DEF Ramp!Sub, Sub
<1>3. Ramp(n)!MAX = MAX
  BY DEF Ramp!MAX, MAX
<1>4. \A flags, x : Ramp(n)!Complemented(flags, x) = Complemented(flags, x)
  BY <1>2, <1>3 DEF Ramp!Complemented, Complemented
<1>5. \A unit, x : Ramp(n)!LfoCoeffToFloat(unit, x) = LfoCoeffToFloat(unit, x)
  BY DEF Ramp!LfoCoeffToFloat, LfoCoeffToFloat
<1> QED  BY <1>1, <1>4, <1>5

\* The range of a ramp is a number of phases less one, the shift by a
\* negative count included.
LEMMA RampRangeIsNat ==
  ASSUME Typed, NEW n \in 0 .. 1
  PROVE  Ramp(n)!AmpShift \in -4 .. 3 /\ Ramp(n)!Range \in Nat
<1>1. PICK m \in 1 .. kIntRange : kIntRange = 32 * (S15Unit * m)
  BY WidthAssumption
<1> DEFINE u == S15Unit * m
<1>2. u \in Nat \ {0}
  BY WidthAssumption, RangeAssumption, <1>1
<1> HIDE DEF u
<1>3. kIntRange = 32 * u
  BY <1>1 DEF u
<1>4. Ramp(n)!AmpShift \in -4 .. 3
  BY <1>2, <1>3, TopBits, LfoRegisters DEF Ramp!AmpShift, Typed
<1>5. Ramp(n)!kAmp4096 \in Nat
  BY <1>2, <1>3 DEF Ramp!kAmp4096
<1>6. CASE Ramp(n)!AmpShift >= 0
  <2> DEFINE d == 2 ^ Ramp(n)!AmpShift
             k == Ramp(n)!kAmp4096
  <2>1. d \in Nat \ {0}
    <3>1. Ramp(n)!AmpShift \in 0 .. 5
      BY <1>4, <1>6
    <3> QED  BY <3>1, SmallPowers
  <2>2. k \in Nat /\ Ramp(n)!Range = k \div d
    BY <1>5, <1>6 DEF Ramp!Range
  <2> HIDE DEF d, k
  <2>3. k \div d \in Nat
    BY <2>1, <2>2
  <2> QED  BY <1>4, <2>2, <2>3
<1>7. CASE ~(Ramp(n)!AmpShift >= 0)
  BY <1>4, <1>7 DEF Ramp!Range
<1> QED  BY <1>6, <1>7

\* What CHO gets from a ramp is a pair of integers.
LEMMA RampReadIsInt ==
  ASSUME Typed, NEW n \in 0 .. 1, NEW flags, NEW v \in Ramp(n)!Read(flags)
  PROVE  v.offset \in Int /\ v.coefficient \in Int
<1>1. /\ Ramp(n)!AmpShift \in -4 .. 3 /\ Ramp(n)!Range \in Nat
      /\ ramp_phase[n] \in Nat /\ S15Unit \in Nat \ {0}
      /\ kIntRange \in Nat \ {0}
  BY RampRangeIsNat, WidthAssumption, RangeAssumption DEF Typed
<1>2. \A x \in Int : Complemented(flags, x) \in Int
  BY IntArithmetic, FormatsAreInt DEF Complemented
<1>3. Int32 \subseteq Int
  BY FormatsAreInt
<1>4. CASE "NA" \in flags
  <2>1. Ramp(n)!Triangle \in Int
    BY <1>1 DEF Ramp!Triangle
  <2>3. ASSUME NEW x \in Ramp(n)!Crossfade PROVE x \in Int
    <3>1. CASE Ramp(n)!AmpShift >= -2
      <4>1. 2 ^ (2 + Ramp(n)!AmpShift) \in Int
        <5>1. 2 + Ramp(n)!AmpShift \in 0 .. 5
          BY <1>1, <3>1
        <5> QED  BY <5>1, SmallPowers
      <4>2. Ramp(n)!Triangle * (2 ^ (2 + Ramp(n)!AmpShift)) \in Int
        BY <2>1, <4>1
      <4> QED  BY <1>3, <3>1, <4>2, WrapIsInt, RampArithmetic DEF Ramp!Crossfade
    <3>2. CASE ~(Ramp(n)!AmpShift >= -2)
      <4> DEFINE y == Ramp(n)!Triangle
                        * (IF Ramp(n)!AmpShift = -3 THEN 256 ELSE 128) * kIntRange
      <4>1. y \in Int
        BY <1>1, <2>1
      <4>2. x \in {0, Wrap32(y)}
        BY <3>2, RampArithmetic DEF Ramp!Crossfade
      <4> HIDE DEF y
      <4> QED  BY <1>3, <4>1, <4>2, WrapIsInt
    <3> QED  BY <3>1, <3>2
  <2> QED  BY <1>2, <1>4, <2>3, RampArithmetic DEF Ramp!Read, Ramp!ReadFade
<1>5. CASE "NA" \notin flags
  <2> DEFINE w == Ramp(n)!Pointer("RPTR2" \in flags)
             a == IF "COMPA" \in flags THEN Ramp(n)!Range - w ELSE w
             o == Ramp(n)!OffsetUnit
  <2>1. o \in Nat \ {0}
    BY <1>1 DEF Ramp!OffsetUnit
  <2>2. w \in Int
    <3>1. (ramp_phase[n] + (Ramp(n)!Range \div 2)) % (Ramp(n)!Range + 1) \in Int
      <4> DEFINE x == ramp_phase[n] + (Ramp(n)!Range \div 2)
                 y == Ramp(n)!Range + 1
      <4>1. x \in Int /\ y \in Nat \ {0}
        BY <1>1
      <4> HIDE DEF x, y
      <4>2. x % y \in Int
        BY <4>1
      <4> QED  BY <4>2 DEF x, y
    <3> QED  BY <1>1, <3>1 DEF Ramp!Pointer
  <2>3. a \in Int
    BY <1>1, <2>2
  <2> HIDE DEF w, a, o
  <2>4. a \div o \in Int /\ w % o \in Int
    BY <2>1, <2>2, <2>3
  <2>5. LfoCoeffToFloat(o, w % o) \in Int
    <3>1. 2 * kIntRange \in Int
      BY <1>1
    <3>2. (2 * kIntRange) \div o \in Int
      BY <2>1, <3>1
    <3> QED  BY <2>4, <3>2 DEF LfoCoeffToFloat
  <2>6. v = [offset |-> a \div o,
             coefficient |-> Complemented(flags, LfoCoeffToFloat(o, w % o))]
    BY <1>5, RampArithmetic DEF Ramp!Read, Ramp!ReadPointer, a, o, w
  <2> QED  BY <1>2, <2>4, <2>5, <2>6
<1> QED  BY <1>4, <1>5

\* A sine LFO uses the same arithmetic as the instructions.
LEMMA SineArithmetic ==
  ASSUME NEW n
  PROVE  /\ \A a, b : Sine(n)!Add(a, b) = Add(a, b)
         /\ \A a, b : Sine(n)!Sub(a, b) = Sub(a, b)
         /\ \A a, b : Sine(n)!Mul(a, b) = Mul(a, b)
         /\ \A flags, x : Sine(n)!Complemented(flags, x) = Complemented(flags, x)
         /\ \A unit, x : Sine(n)!LfoCoeffToFloat(unit, x) = LfoCoeffToFloat(unit, x)
<1>1. \A x : Sine(n)!Wrap32(x) = Wrap32(x)
  BY DEF Sine!Wrap32, Sine!INT32_MIN, Wrap32, INT32_MIN
<1>2. \A a, b : Sine(n)!Add(a, b) = Add(a, b)
  BY <1>1 DEF Sine!Add, Add
<1>3. \A a, b : Sine(n)!Sub(a, b) = Sub(a, b)
  BY <1>1 DEF Sine!Sub, Sub
<1>4. \A a, b : Sine(n)!Mul(a, b) = Mul(a, b)
  BY <1>1 DEF Sine!Mul, Mul
<1>5. Sine(n)!MAX = MAX
  BY DEF Sine!MAX, MAX
<1>6. \A flags, x : Sine(n)!Complemented(flags, x) = Complemented(flags, x)
  BY <1>3, <1>5 DEF Sine!Complemented, Complemented
<1>7. \A unit, x : Sine(n)!LfoCoeffToFloat(unit, x) = LfoCoeffToFloat(unit, x)
  BY DEF Sine!LfoCoeffToFloat, LfoCoeffToFloat
<1> QED  BY <1>2, <1>3, <1>4, <1>6, <1>7

\* What a sine LFO shows, and where a tick takes it, are int32_t values.
LEMMA SineIsInt32 ==
  ASSUME Typed, NEW n \in 0 .. 1
  PROVE  /\ Sine(n)!Sin \in Int32 /\ Sine(n)!Cos \in Int32
         /\ Sine(n)!NextSin \in Int32 /\ Sine(n)!NextCos \in Int32
<1>1. /\ sine[n] \in Int /\ cosine[n] \in Int
      /\ registers[SinRate(n)] \in Int /\ registers[SinRange(n)] \in Int
  BY LfoRegisters, FormatsAreInt DEF Typed
<1>2. Sine(n)!Coefficient \in Int
  BY <1>1, WidthAssumption DEF Sine!Coefficient
<1>3. Sine(n)!NextCos \in Int32
  <2> DEFINE m == Mul(sine[n], Sine(n)!Coefficient)
  <2>1. m \in Int
    BY <1>1, <1>2, IntArithmetic, FormatsAreInt
  <2>2. Sine(n)!NextCos = Add(cosine[n], m)
    BY SineArithmetic DEF Sine!NextCos
  <2> HIDE DEF m
  <2> QED  BY <1>1, <2>1, <2>2, IntArithmetic
<1>4. Sine(n)!NextSin \in Int32
  <2> DEFINE m == Mul(Sine(n)!NextCos, Sine(n)!Coefficient)
  <2>1. m \in Int
    BY <1>2, <1>3, IntArithmetic, FormatsAreInt
  <2>2. Sine(n)!NextSin = Sub(sine[n], m)
    BY SineArithmetic DEF Sine!NextSin
  <2> HIDE DEF m
  <2> QED  BY <1>1, <2>1, <2>2, IntArithmetic
<1>5. /\ Sine(n)!Sin = Mul(sine[n], registers[SinRange(n)])
      /\ Sine(n)!Cos = Mul(cosine[n], registers[SinRange(n)])
  BY SineArithmetic DEF Sine!Sin, Sine!Cos
<1>6. Sine(n)!Sin \in Int32 /\ Sine(n)!Cos \in Int32
  BY <1>1, <1>5, IntArithmetic
<1> QED  BY <1>3, <1>4, <1>6

\* A tick takes a sine LFO to a state from which the way back is known.
LEMMA TickUndone ==
  ASSUME Typed, NEW n \in 0 .. 1
  PROVE  LET c == Sine(n)!Coefficient
         IN  /\ sine[n] = Add(Sine(n)!NextSin, Mul(Sine(n)!NextCos, c))
             /\ cosine[n] = Sub(Sine(n)!NextCos, Mul(sine[n], c))
<1> DEFINE c == Sine(n)!Coefficient
           u == Mul(sine[n], c)
           v == Mul(Sine(n)!NextCos, c)
<1>1. sine[n] \in Int32 /\ cosine[n] \in Int32 /\ sine[n] \in Int
  BY FormatsAreInt DEF Typed
<1>2. c \in Int
  <2>1. registers[SinRate(n)] \in Int
    BY LfoRegisters, FormatsAreInt DEF Typed
  <2> QED  BY <2>1, WidthAssumption DEF Sine!Coefficient
<1>3. Sine(n)!NextCos \in Int
  BY SineIsInt32, FormatsAreInt
<1>4. u \in Int /\ v \in Int
  BY <1>1, <1>2, <1>3, IntArithmetic, FormatsAreInt
<1>5. Sine(n)!NextCos = Add(cosine[n], u) /\ Sine(n)!NextSin = Sub(sine[n], v)
  BY SineArithmetic DEF Sine!NextCos, Sine!NextSin
<1> HIDE DEF u, v
<1>6. Sub(Add(cosine[n], u), u) = cosine[n] /\ Add(Sub(sine[n], v), v) = sine[n]
  BY <1>1, <1>4, SumsUndone
<1> QED  BY <1>5, <1>6 DEF u, v

\* So it never ends where both are 0: it would have begun there.
LEMMA TickSwings ==
  ASSUME Typed, NEW n \in 0 .. 1, sine[n] # 0 \/ cosine[n] # 0
  PROVE  Sine(n)!NextSin # 0 \/ Sine(n)!NextCos # 0
<1> DEFINE c == Sine(n)!Coefficient
<1>1. SUFFICES ASSUME Sine(n)!NextSin = 0, Sine(n)!NextCos = 0
               PROVE  FALSE
  OBVIOUS
<1>2. c \in Int
  <2>1. registers[SinRate(n)] \in Int
    BY LfoRegisters, FormatsAreInt DEF Typed
  <2> QED  BY <2>1, WidthAssumption DEF Sine!Coefficient
<1>3. Mul(0, c) = 0
  BY <1>2, ZeroTimes
<1>4. Add(0, 0) = 0 /\ Sub(0, 0) = 0
  BY WrapIdentity, FormatsAreInt DEF Add, Sub
<1>5. sine[n] = 0
  BY <1>1, <1>3, <1>4, TickUndone
<1>6. cosine[n] = 0
  BY <1>1, <1>3, <1>4, <1>5, TickUndone
<1> QED  BY <1>5, <1>6

\* What CHO gets from a sine LFO is a pair of integers.
LEMMA SineReadIsInt ==
  ASSUME Typed, NEW n \in 0 .. 1, NEW flags
  PROVE  /\ Sine(n)!Read(flags).offset \in Int
         /\ Sine(n)!Read(flags).coefficient \in Int
<1> DEFINE v == IF "COS" \in flags THEN Sine(n)!Cos ELSE Sine(n)!Sin
           a == IF "COMPA" \in flags THEN Sub(0, v) ELSE v
<1>1. v \in Int
  BY SineIsInt32, FormatsAreInt
<1>2. a \in Int
  BY <1>1, IntArithmetic, FormatsAreInt
<1>3. Sine(n)!Read(flags) =
        [offset |-> a \div S15Unit,
         coefficient |-> Complemented(flags, LfoCoeffToFloat(S15Unit, v % S15Unit))]
  BY SineArithmetic DEF Sine!Read
<1> HIDE DEF v, a
<1>4. a \div S15Unit \in Int /\ v % S15Unit \in Int
  BY <1>1, <1>2, WidthAssumption
<1>5. LfoCoeffToFloat(S15Unit, v % S15Unit) \in Int
  <2>1. 2 * kIntRange \in Int
    BY RangeAssumption
  <2>2. (2 * kIntRange) \div S15Unit \in Int
    BY <2>1, WidthAssumption
  <2> QED  BY <1>4, <2>2 DEF LfoCoeffToFloat
<1>6. \A x \in Int : Complemented(flags, x) \in Int
  BY IntArithmetic, FormatsAreInt DEF Complemented
<1> QED  BY <1>3, <1>4, <1>5, <1>6

-----------------------------------------------------------------------------
(***************************************************************************)
(* The instructions, by what they change.                                  *)
(***************************************************************************)

\* A new accumulator alone.
LEMMA SetTyped ==
  ASSUME Typed, NEW v \in SF23, Set(v)
  PROVE  Typed'
  BY DEF Typed, Set, delay, lfos

\* A new accumulator that store() clamps.
LEMMA StoreTyped ==
  ASSUME Typed, NEW v \in Int, Store(v)
  PROVE  Typed'
  BY SetTyped, SsatInRange DEF Store

\* A sample read from the delay memory, at any address.
LEMMA ReadDelayTyped ==
  ASSUME Typed, NEW addr \in Int, NEW c \in Int, ReadDelay(addr, c)
  PROVE  Typed'
<1>1. last_read_' \in SF23
  BY AtIsSlot DEF ReadDelay, Delay!Load, Typed
<1>2. acc' \in SF23
  BY <1>1, MacIsInt, SsatInRange, FormatsAreInt DEF ReadDelay, Typed
<1> QED  BY <1>1, <1>2 DEF Typed, ReadDelay, Delay!Load, lfos

\* A sample written to the delay memory.
LEMMA WriteDelayTyped ==
  ASSUME Typed, NEW i, NEW sum \in Int, WriteDelay(i, sum)
  PROVE  Typed'
  BY SsatInRange DEF Typed, WriteDelay, Delay!Store, lfos

\* A register written.
LEMMA WriteRegisterTyped ==
  ASSUME Typed, NEW i, NEW sum \in Int, WriteRegister(i, sum)
  PROVE  Typed'
  BY SsatInRange DEF Typed, WriteRegister, delay, lfos

\* Every case of the switch keeps the machine in its ranges.
LEMMA PerformTyped ==
  ASSUME Typed, pacc \in SF23, NEW i \in Instruction, Perform(i)
  PROVE  Typed'
<1>0. /\ acc \in Int /\ pacc \in Int /\ last_read_ \in Int
      /\ \A r \in Register : registers[r] \in SF23 /\ registers[r] \in Int
      /\ Coefficients \subseteq Int /\ Address \subseteq Int
      /\ SF23 \subseteq Int /\ Int32 \subseteq Int
  <2>1. SF23 \subseteq Int /\ Int32 \subseteq Int
    BY FormatsAreInt
  <2>2. Coefficients \subseteq Int /\ Address \subseteq Int
    BY RangeAssumption, DelaySizePositive DEF Coefficients, Address
  <2> QED  BY <2>1, <2>2 DEF Typed
<1> USE Operands
<1>1. CASE RDAX(i)
  <2>1. Mac(registers[i.addr], i.c, acc) \in Int
    BY <1>0, <1>1, MacIsInt DEF RDAX
  <2> QED  BY <1>1, <2>1, StoreTyped DEF RDAX
<1>2. CASE RDFX(i)
  <2>1. Sub(acc, registers[i.addr]) \in Int
    BY <1>0, <1>2, IntArithmetic DEF RDFX
  <2>2. Mac(Sub(acc, registers[i.addr]), i.c, registers[i.addr]) \in Int
    BY <1>0, <1>2, <2>1, MacIsInt DEF RDFX
  <2> QED  BY <1>2, <2>2, StoreTyped DEF RDFX
<1>3. CASE MAXX(i)
  <2>1. ABS(Mul(registers[i.addr], i.c)) \in Int /\ ABS(acc) \in Int
    BY <1>0, <1>3, IntArithmetic DEF MAXX
  <2> QED  BY <1>3, <2>1, StoreTyped DEF MAXX
<1>4. CASE MULX(i)
  <2>1. Mul(acc, registers[i.addr]) \in Int
    BY <1>0, <1>4, IntArithmetic DEF MULX
  <2> QED  BY <1>4, <2>1, StoreTyped DEF MULX
<1>5. CASE LDAX(i)
  BY <1>0, <1>5, SetTyped DEF LDAX
<1>6. CASE SOF(i)
  <2>1. Mac(acc, i.c, i.d) \in Int
    BY <1>0, <1>6, MacIsInt DEF SOF
  <2> QED  BY <1>6, <2>1, StoreTyped DEF SOF
<1>7. CASE CLR(i)
  BY <1>7, StoreTyped DEF CLR
<1>8. CASE ABSA(i)
  <2>1. ABS(acc) \in Int
    BY <1>0, IntArithmetic
  <2> QED  BY <1>8, <2>1, StoreTyped DEF ABSA
<1>9. CASE AndMask(i) \/ OrMask(i) \/ XorMask(i)
  BY <1>9, SetTyped, WithBitsInRange DEF AndMask, OrMask, XorMask, AND, OR, XOR
<1>10. CASE NotAcc(i)
  <2>1. -acc - 1 \in Int
    BY <1>0
  <2> QED  BY <1>10, <2>1, SetTyped, SxInRange DEF NotAcc, NOT
<1>11. CASE NOP(i)
  BY <1>11 DEF NOP, Typed, delay, lfos
<1>12. CASE RDA(i)
  BY <1>0, <1>12, ReadDelayTyped DEF RDA
<1>13. CASE RMPA(i)
  <2>1. registers["ADDR_PTR"] \in Int
    BY <1>0 DEF Register, SpecialRegister
  <2>2. registers["ADDR_PTR"] \div S15Unit \in Int
    BY <2>1, WidthAssumption
  <2>3. (registers["ADDR_PTR"] \div S15Unit) % DelaySize \in Int
    BY <2>2, DelaySizePositive
  <2> QED  BY <1>0, <1>13, <2>3, ReadDelayTyped DEF RMPA
<1>14. CASE WRA(i)
  <2>1. Mul(acc, i.c) \in Int
    BY <1>0, <1>14, IntArithmetic DEF WRA
  <2> QED  BY <1>14, <2>1, WriteDelayTyped DEF WRA
<1>15. CASE WRAP(i)
  <2>1. Mac(acc, i.c, last_read_) \in Int
    BY <1>0, <1>15, MacIsInt DEF WRAP
  <2> QED  BY <1>15, <2>1, WriteDelayTyped DEF WRAP
<1>16. CASE WRAX(i)
  <2>1. Mul(acc, i.c) \in Int
    BY <1>0, <1>16, IntArithmetic DEF WRAX
  <2> QED  BY <1>16, <2>1, WriteRegisterTyped DEF WRAX
<1>17. CASE WRHX(i)
  <2>1. Mac(acc, i.c, pacc) \in Int
    BY <1>0, <1>17, MacIsInt DEF WRHX
  <2> QED  BY <1>17, <2>1, WriteRegisterTyped DEF WRHX
<1>18. CASE WRLX(i)
  <2>1. Sub(pacc, acc) \in Int
    BY <1>0, IntArithmetic
  <2>2. Mac(Sub(pacc, acc), i.c, pacc) \in Int
    BY <1>0, <1>18, <2>1, MacIsInt DEF WRLX
  <2> QED  BY <1>18, <2>2, WriteRegisterTyped DEF WRLX
<1>19. CASE WLDS(i)
  <2>1. SSAT(i.f) \in SF23 /\ SSAT(i.a) \in SF23
    BY <1>19, SsatInRange DEF WLDS
  <2> QED  BY <1>19, <2>1, FormatsAreInt DEF WLDS, Typed, delay
<1>20. CASE WLDR(i)
  <2>1. SSAT(i.f) \in SF23 /\ SSAT(i.a) \in SF23
    BY <1>20, SsatInRange DEF WLDR
  <2> QED  BY <1>20, <2>1 DEF WLDR, Typed, delay
<1>21. CASE JAM(i)
  BY <1>21 DEF JAM, Typed, delay
<1>22. CASE CHO_RDAL(i)
  <2>1. i.n \in Lookup
    BY <1>22 DEF CHO_RDAL
  <2>2. /\ Sine(0)!Sin \in Int /\ Sine(0)!Cos \in Int
        /\ Sine(1)!Sin \in Int /\ Sine(1)!Cos \in Int
        /\ ramp_phase[0] \in Int /\ ramp_phase[1] \in Int
    <3>1. ramp_phase[0] \in Int /\ ramp_phase[1] \in Int
      BY DEF Typed
    <3>2. \A n \in 0 .. 1 : Sine(n)!Sin \in Int32 /\ Sine(n)!Cos \in Int32
      BY SineIsInt32
    <3>3. 0 \in 0 .. 1 /\ 1 \in 0 .. 1
      OBVIOUS
    <3> QED  BY <1>0, <3>1, <3>2, <3>3
  <2>3. ReadLfo(i.n) \in Int
    BY <2>1, <2>2 DEF ReadLfo, Lookup
  <2> QED  BY <1>22, <2>3, StoreTyped DEF CHO_RDAL
<1>23. CASE CHO_RDA_RMP(i)
  <2>1. PICK v \in Ramp(i.n)!Read(i.flags) :
               ReadDelay(i.addr + v.offset, v.coefficient)
    BY <1>23 DEF CHO_RDA_RMP
  <2>2. v.offset \in Int /\ v.coefficient \in Int /\ i.addr \in Int
    BY <1>0, <1>23, RampReadIsInt DEF CHO_RDA_RMP
  <2>3. i.addr + v.offset \in Int
    BY <2>2
  <2> QED  BY <2>1, <2>2, <2>3, ReadDelayTyped
<1>24. CASE CHO_RDA_SIN(i)
  <2> DEFINE v == Sine(i.n)!Read(i.flags)
  <2>1. v.offset \in Int /\ v.coefficient \in Int /\ i.addr \in Int
    BY <1>0, <1>24, SineReadIsInt DEF CHO_RDA_SIN
  <2>2. ReadDelay(i.addr + v.offset, v.coefficient)
    BY <1>24 DEF CHO_RDA_SIN
  <2> HIDE DEF v
  <2>3. i.addr + v.offset \in Int
    BY <2>1
  <2> QED  BY <2>1, <2>2, <2>3, ReadDelayTyped
<1>25. CASE CHO_SOF_RMP(i)
  <2>1. PICK v \in Ramp(i.n)!Read(i.flags) : Store(Mac(acc, v.coefficient, i.d))
    BY <1>25 DEF CHO_SOF_RMP
  <2>2. v.coefficient \in Int /\ i.d \in Int
    BY <1>0, <1>25, RampReadIsInt DEF CHO_SOF_RMP
  <2>3. Mac(acc, v.coefficient, i.d) \in Int
    BY <1>0, <2>2, MacIsInt
  <2> QED  BY <2>1, <2>3, StoreTyped
<1>26. CASE CHO_SOF_SIN(i)
  <2>1. Sine(i.n)!Read(i.flags).coefficient \in Int /\ i.d \in Int
    BY <1>0, <1>26, SineReadIsInt DEF CHO_SOF_SIN
  <2>2. Mac(acc, Sine(i.n)!Read(i.flags).coefficient, i.d) \in Int
    BY <1>0, <2>1, MacIsInt
  <2> QED  BY <1>26, <2>2, StoreTyped DEF CHO_SOF_SIN
<1> QED  BY <1>1, <1>2, <1>3, <1>4, <1>5, <1>6, <1>7, <1>8, <1>9, <1>10,
            <1>11, <1>12, <1>13, <1>14, <1>15, <1>16, <1>17, <1>18, <1>19,
            <1>20, <1>21, <1>22, <1>23, <1>24, <1>25, <1>26 DEF Perform

-----------------------------------------------------------------------------
(***************************************************************************)
(* What happens around the instructions.                                   *)
(***************************************************************************)

\* A tick masks the phase with the range that the register has then.
LEMMA NextPhaseInRange ==
  ASSUME Typed, NEW n \in 0 .. 1
  PROVE  Ramp(n)!NextPhase \in 0 .. Ramp(n)!Range
<1>1. registers[RmpRate(n)] \in Int /\ ramp_phase[n] \in Int
  <2>1. registers[RmpRate(n)] \in SF23 /\ ramp_phase[n] \in Nat
    BY LfoRegisters DEF Typed
  <2>2. registers[RmpRate(n)] \in Int
    BY <2>1, FormatsAreInt
  <2>3. ramp_phase[n] \in Int
    BY <2>1
  <2> QED  BY <2>2, <2>3
<1>2. Ramp(n)!Step \in Int
  BY <1>1, WidthAssumption DEF Ramp!Step
<1> DEFINE x == ramp_phase[n] - Ramp(n)!Step
           d == Ramp(n)!Range + 1
<1>3. x \in Int /\ d \in Nat \ {0} /\ d - 1 = Ramp(n)!Range
  BY <1>1, <1>2, RampRangeIsNat
<1>4. Ramp(n)!NextPhase = x % d
  BY DEF Ramp!NextPhase
<1> HIDE DEF x, d
<1>5. x % d \in 0 .. d - 1
  BY <1>3
<1> QED  BY <1>3, <1>4, <1>5

\* Whoever stores elsewhere leaves a ramp its range.
LEMMA RangeStays ==
  ASSUME NEW n \in 0 .. 1, registers'[RmpRange(n)] = registers[RmpRange(n)]
  PROVE  Ramp(n)!Range' = Ramp(n)!Range
  BY DEF Ramp!Range, Ramp!AmpShift, Ramp!kAmp4096

\* There is room for the eight ranges of a ramp.
LEMMA LargeRange == kIntRange \in Nat /\ kIntRange >= 32
<1>1. PICK m \in 1 .. kIntRange : kIntRange = 32 * (S15Unit * m)
  BY WidthAssumption
<1> DEFINE u == S15Unit * m
<1>2. u \in Nat \ {0} /\ kIntRange = 32 * u
  BY WidthAssumption, RangeAssumption, <1>1
<1> HIDE DEF u
<1> QED  BY <1>2

\* After a Tick every ramp is settled.
LEMMA TickSettles ==
  ASSUME Typed, TickAll, UNCHANGED registers, NEW n \in 0 .. 1
  PROVE  Ramp(n)!Settled'
<1>1. Ramp(n)!Range' = Ramp(n)!Range
  BY RangeStays
<1>2. Ramp(n)!NextPhase <= Ramp(n)!Range
  BY NextPhaseInRange, RampRangeIsNat
<1>3. ramp_phase'[n] = Ramp(n)!NextPhase
  BY DEF TickAll
<1> QED  BY <1>1, <1>2, <1>3 DEF Ramp!Settled

\* After a Compile too: the phase is 0, and the range the longest.
LEMMA ClearSettles ==
  ASSUME ClearAll, NEW n \in 0 .. 1
  PROVE  Ramp(n)!Settled'
<1>1. Ramp(n)!Range' \in Nat
  <2>1. registers'[RmpRange(n)] = 0
    BY LfoRegisters DEF ClearAll
  <2>2. Ramp(n)!AmpShift' = 0
    <3>1. 0 \div (kIntRange \div 4) = 0
      <4>1. kIntRange \div 4 \in Nat \ {0}
        BY LargeRange
      <4> QED  BY <4>1
    <3> QED  BY <2>1, <3>1 DEF Ramp!AmpShift
  <2>3. Ramp(n)!kAmp4096 \in Nat /\ 2 ^ 0 = 1
    BY LargeRange DEF Ramp!kAmp4096
  <2> QED  BY <2>2, <2>3 DEF Ramp!Range, Ramp!kAmp4096
<1>2. ramp_phase'[n] = 0
  BY DEF ClearAll
<1> QED  BY <1>1, <1>2 DEF Ramp!Settled

\* VM::Tick.
LEMMA TickTyped ==
  ASSUME Typed, TickAll, UNCHANGED <<acc, registers>>
  PROVE  Typed'
<1>1. buffer_' = buffer_ /\ last_read_' = last_read_ /\ cursor_' \in 0 .. DelaySize - 1
  BY DelaySizePositive DEF TickAll, Delay!Tick, Typed
<1>2. ASSUME NEW n \in 0 .. 1
      PROVE  Ramp(n)!NextPhase \in Nat
  <2>1. Ramp(n)!NextPhase \in 0 .. Ramp(n)!Range /\ Ramp(n)!Range \in Nat
    BY NextPhaseInRange, RampRangeIsNat
  <2> QED  BY <2>1
<1> QED  BY <1>1, <1>2, SineIsInt32 DEF TickAll, Typed

\* The clearing in VM::Compile; last_read_ is an SF23 because it was one.
LEMMA ClearTyped ==
  ASSUME Typed, ClearAll, acc' \in SF23
  PROVE  Typed'
  BY DelaySizePositive, FormatsAreInt DEF Typed, ClearAll, Delay!Reset, Delay!Slots

-----------------------------------------------------------------------------
(***************************************************************************)
(* What the arithmetic promises of an accumulator in its range.            *)
(***************************************************************************)

\* Any accumulator, coefficient and addend reach the clamp without a wrap.
LEMMA SumsAreExact == ASSUME acc \in SF23 PROVE NoWrapBeforeClamp
  BY MacExact, BlendExact DEF NoWrapBeforeClamp, Coefficients

\* The word of a value has its bits, and its sign above them; that of a mask
\* has one bit there as well.
LEMMA WordBits ==
  /\ \A x \in SF23 : Bits(x) = LowBits(x) \cup (IF x < 0 THEN {kFracBits} ELSE {})
  /\ \A m \in 0 .. MASK :
       Bits(m) = LowBits(m) \cup (IF SignBit(m) THEN {kFracBits} ELSE {})
<1>1. kFracBits \in 0 .. 23 /\ kIntRange \in Nat \ {0} /\ 2 ^ kFracBits = kIntRange
  BY WidthIsPower, RangeAssumption, FracAssumption
<1>2. BitPositions = (0 .. kFracBits - 1) \cup {kFracBits}
  BY <1>1 DEF BitPositions
<1>3. \A x : Bits(x) = LowBits(x) \cup (IF Bit(x, kFracBits) = 1 THEN {kFracBits} ELSE {})
  BY <1>2 DEF Bits, LowBits
<1>4. ASSUME NEW x \in SF23
      PROVE  Bit(x, kFracBits) = 1 <=> x < 0
  <2>1. x \in Int /\ -kIntRange <= x /\ x < kIntRange
    BY <1>1, <1>4 DEF SF23, MIN, MAX
  <2>2. x \div kIntRange = IF x < 0 THEN -1 ELSE 0
    <3>1. CASE x < 0
      <4>1. x = kIntRange * (-1) + (x + kIntRange) /\ x + kIntRange \in 0 .. kIntRange - 1
        BY <1>1, <2>1, <3>1
      <4>2. -1 \in Int
        OBVIOUS
      <4> QED  BY <1>1, <2>1, <3>1, <4>1, <4>2, QuotientUnique
    <3>2. CASE ~(x < 0)
      <4>1. x = kIntRange * 0 + x /\ x \in 0 .. kIntRange - 1 /\ 0 \in Int
        BY <1>1, <2>1, <3>2
      <4> QED  BY <1>1, <2>1, <3>2, <4>1, QuotientUnique
    <3> QED  BY <3>1, <3>2
  <2> QED  BY <1>1, <2>1, <2>2 DEF Bit
<1>5. ASSUME NEW m \in 0 .. MASK
      PROVE  Bit(m, kFracBits) = 1 <=> SignBit(m)
  <2>1. m \in Int /\ 0 <= m /\ m < 2 * kIntRange
    BY <1>1, <1>5 DEF MASK
  <2>2. m \div kIntRange = IF m >= kIntRange THEN 1 ELSE 0
    <3>1. CASE m >= kIntRange
      <4>1. m = kIntRange * 1 + (m - kIntRange) /\ m - kIntRange \in 0 .. kIntRange - 1
            /\ 1 \in Int
        BY <1>1, <2>1, <3>1
      <4> QED  BY <1>1, <2>1, <3>1, <4>1, QuotientUnique
    <3>2. CASE ~(m >= kIntRange)
      <4>1. m = kIntRange * 0 + m /\ m \in 0 .. kIntRange - 1 /\ 0 \in Int
        BY <1>1, <2>1, <3>2
      <4> QED  BY <1>1, <2>1, <3>2, <4>1, QuotientUnique
    <3> QED  BY <3>1, <3>2
  <2> QED  BY <1>1, <2>1, <2>2 DEF Bit, SignBit
<1> QED  BY <1>3, <1>4, <1>5

\* The sign takes part in the logic like a bit below it.
LEMMA LogicExact == ASSUME acc \in SF23 PROVE LogicIsBitwise /\ XorIsBitwise
<1>0. \A x : LowBits(x) \subseteq 0 .. kFracBits - 1
  BY DEF LowBits
<1>1. ASSUME NEW m \in 0 .. MASK
      PROVE  {Bits(r) : r \in AND(acc, m)} = {Bits(acc) \cap Bits(m)}
  <2>1. PICK r \in SF23 : /\ AND(acc, m) = {r}
                          /\ LowBits(r) = LowBits(acc) \cap LowBits(m)
                          /\ r < 0 <=> (acc < 0 /\ SignBit(m))
    <3>1. LowBits(acc) \cap LowBits(m) \in SUBSET (0 .. kFracBits - 1)
      BY <1>0
    <3>2. (acc < 0 /\ SignBit(m)) \in BOOLEAN
      OBVIOUS
    <3> QED  BY <3>1, <3>2, OneWithBits DEF AND
  <2>2. kFracBits \notin LowBits(acc) /\ kFracBits \notin LowBits(m)
    BY <1>0, WidthIsPower
  <2>3. Bits(r) = Bits(acc) \cap Bits(m)
    BY <2>1, <2>2, WordBits
  <2> QED  BY <2>1, <2>3
<1>2. ASSUME NEW m \in 0 .. MASK
      PROVE  {Bits(r) : r \in OR(acc, m)} = {Bits(acc) \cup Bits(m)}
  <2>1. PICK r \in SF23 : /\ OR(acc, m) = {r}
                          /\ LowBits(r) = LowBits(acc) \cup LowBits(m)
                          /\ r < 0 <=> (acc < 0 \/ SignBit(m))
    <3>1. LowBits(acc) \cup LowBits(m) \in SUBSET (0 .. kFracBits - 1)
      BY <1>0
    <3>2. (acc < 0 \/ SignBit(m)) \in BOOLEAN
      OBVIOUS
    <3> QED  BY <3>1, <3>2, OneWithBits DEF OR
  <2>3. Bits(r) = Bits(acc) \cup Bits(m)
    BY <2>1, WordBits
  <2> QED  BY <2>1, <2>3
<1>3. Bits(NOT(acc)) = BitPositions \ Bits(acc)
  <2>1. /\ NOT(acc) \in SF23 /\ LowBits(NOT(acc)) = (0 .. kFracBits - 1) \ LowBits(acc)
        /\ NOT(acc) < 0 <=> ~(acc < 0)
    BY NotIsComplement, NotBits, WidthIsPower
  <2>2. kFracBits \notin LowBits(acc) /\ BitPositions = (0 .. kFracBits - 1) \cup {kFracBits}
        /\ kFracBits \notin 0 .. kFracBits - 1
    BY <1>0, WidthIsPower DEF BitPositions
  <2> QED  BY <2>1, <2>2, WordBits
<1>4. ASSUME acc >= 0, NEW m \in 0 .. MASK
      PROVE  {Bits(r) : r \in XOR(acc, m)}
               = {(Bits(acc) \cup Bits(m)) \ (Bits(acc) \cap Bits(m))}
  <2> DEFINE b == (LowBits(acc) \cup LowBits(m)) \ (LowBits(acc) \cap LowBits(m))
  <2>1. PICK r \in SF23 : /\ XOR(acc, m) = {r} /\ LowBits(r) = b
                          /\ r < 0 <=> (acc < 0 \/ SignBit(m))
    <3>1. b \in SUBSET (0 .. kFracBits - 1)
      BY <1>0
    <3>2. (acc < 0 \/ SignBit(m)) \in BOOLEAN
      OBVIOUS
    <3> QED  BY <3>1, <3>2, OneWithBits DEF XOR
  <2>2. ~(acc < 0) /\ kFracBits \notin LowBits(acc) /\ kFracBits \notin LowBits(m)
    BY <1>0, <1>4, WidthIsPower
  <2>3. Bits(r) = (Bits(acc) \cup Bits(m)) \ (Bits(acc) \cap Bits(m))
    BY <2>1, <2>2, WordBits
  <2> QED  BY <2>1, <2>3
<1> QED  BY <1>1, <1>2, <1>3, <1>4 DEF LogicIsBitwise, XorIsBitwise
=============================================================================
