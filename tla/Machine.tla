------------------------------- MODULE Machine -------------------------------
(***************************************************************************)
(* The state a program works on, and what each compiled instruction does   *)
(* to it: the switch of VM::Execute in src/src/vm/vm_execute_v1.h.         *)
(***************************************************************************)
EXTENDS Instructions, Accumulator

VARIABLES
  pacc,                           \* the previous accumulator
  registers,                      \* registers_, the LFO registers among them
  buffer_, cursor_, last_read_,   \* delay_memory_
  ramp_phase,                     \* phase_ of ramp_lfo_[0 .. 1]
  sine, cosine,                   \* sin_ and cos_ of sin_lfo_[0 .. 1]
  first_run                       \* no frame has been finished since Compile

delay == <<buffer_, cursor_, last_read_>>
lfos == <<ramp_phase, sine, cosine>>

SinRate(n) == IF n = 0 THEN "SIN0_RATE" ELSE "SIN1_RATE"
SinRange(n) == IF n = 0 THEN "SIN0_RANGE" ELSE "SIN1_RANGE"
RmpRate(n) == IF n = 0 THEN "RMP0_RATE" ELSE "RMP1_RATE"
RmpRange(n) == IF n = 0 THEN "RMP0_RANGE" ELSE "RMP1_RANGE"

Delay == INSTANCE DelayMemory WITH
           kDelayMemorySize <- DelaySize, Value <- SF23, Index <- Int

Ramp(n) == INSTANCE RampLfo WITH
             phase_ <- ramp_phase[n], rate <- registers[RmpRate(n)],
             range <- registers[RmpRange(n)],
             RateInput <- SF23, RangeInput <- SF23

Sine(n) == INSTANCE SinLfo WITH
             sin_ <- sine[n], cos_ <- cosine[n],
             rate <- registers[SinRate(n)], range <- registers[SinRange(n)],
             RateInput <- SF23

-----------------------------------------------------------------------------
(***************************************************************************)
(* Most instructions only compute a new accumulator.  store() clamps it;   *)
(* a copied register and a sign extended value go in as they are.          *)
(***************************************************************************)
Set(v) == acc' = v /\ UNCHANGED <<registers, delay, lfos>>

\* Definitions named ...Mistake are not the code: each is a slip that some run
\* must notice when it replaces the definition below it.
StoreMistake(v) == Set(v)

Store(v) == Set(SSAT(v))

RDAX(i) == i.opcode = "RDAX" /\ Store(Mac(registers[i.addr], i.c, acc))

RDFX(i) ==
  /\ i.opcode = "RDFX"
  /\ Store(Mac(Sub(acc, registers[i.addr]), i.c, registers[i.addr]))

MAXX(i) ==
  /\ i.opcode = "MAXX"
  /\ LET abs_rxc == ABS(Mul(registers[i.addr], i.c))
         abs_acc == ABS(acc)
     IN  Store(IF abs_rxc > abs_acc THEN abs_rxc ELSE abs_acc)

MULX(i) == i.opcode = "MULX" /\ Store(Mul(acc, registers[i.addr]))

LDAX(i) == i.opcode = "LDAX" /\ Set(registers[i.addr])

SOF(i) == i.opcode = "SOF" /\ Store(Mac(acc, i.c, i.d))

CLR(i) == i.opcode = "CLR" /\ Store(0)

ABSA(i) == i.opcode = "ABSA" /\ Store(ABS(acc))

AndMask(i) == i.opcode = "AND" /\ \E v \in AND(acc, i.mask) : Set(v)

OrMask(i) == i.opcode = "OR" /\ \E v \in OR(acc, i.mask) : Set(v)

XorMask(i) == i.opcode = "XOR" /\ \E v \in XOR(acc, i.mask) : Set(v)

NotAcc(i) == i.opcode = "NOT" /\ Set(NOT(acc))

\* The branches act on ic alone, LOG and EXP are not implemented, and CHO_RDA
\* and CHO_SOF have become something else in VM::Optimize.
NOP(i) ==
  /\ i.opcode \in {"SKP", "JMP", "NOP", "LOG", "EXP", "UNKNOWN"}
  /\ UNCHANGED <<acc, registers, delay, lfos>>

-----------------------------------------------------------------------------
(***************************************************************************)
(* Delay memory and registers.                                             *)
(***************************************************************************)

\* ACC <- ACC + c * delay[addr].
ReadDelay(addr, c) ==
  /\ Delay!Load(addr)
  /\ acc' = SSAT(Mac(last_read_', c, acc))
  /\ UNCHANGED <<registers, lfos>>

RDA(i) == i.opcode = "RDA" /\ ReadDelay(i.addr, i.c)

\* load_addr(): the 15 bits below the sign.
RMPA(i) ==
  /\ i.opcode = "RMPA"
  /\ ReadDelay((registers["ADDR_PTR"] \div S15Unit) % DelaySize, i.c)

WriteDelay(i, sum) ==
  /\ Delay!Store(i.addr, acc)
  /\ acc' = SSAT(sum)
  /\ UNCHANGED <<registers, lfos>>

WRA(i) == i.opcode = "WRA" /\ WriteDelay(i, Mul(acc, i.c))

\* An all-pass section: the sample that the last load returned is fed back.
WRAP(i) == i.opcode = "WRAP" /\ WriteDelay(i, Mac(acc, i.c, last_read_))

WriteRegister(i, sum) ==
  /\ registers' = [registers EXCEPT ![i.addr] = acc]
  /\ acc' = SSAT(sum)
  /\ UNCHANGED <<delay, lfos>>

WRAX(i) == i.opcode = "WRAX" /\ WriteRegister(i, Mul(acc, i.c))

\* Shelving filters: pacc is the accumulator before the RDFX ahead of them.
WRHX(i) == i.opcode = "WRHX" /\ WriteRegister(i, Mac(acc, i.c, pacc))

WRLX(i) == i.opcode = "WRLX" /\ WriteRegister(i, Mac(Sub(pacc, acc), i.c, pacc))

-----------------------------------------------------------------------------
(***************************************************************************)
(* The LFOs.                                                               *)
(***************************************************************************)
WLDS(i) ==
  /\ i.opcode = "WLDS"
  /\ registers' = [registers EXCEPT ![SinRate(i.n)] = SSAT(i.f),
                                    ![SinRange(i.n)] = SSAT(i.a)]
  /\ sine' = [sine EXCEPT ![i.n] = 0]
  /\ cosine' = [cosine EXCEPT ![i.n] = MIN]
  /\ UNCHANGED <<acc, delay, ramp_phase>>

WLDR(i) ==
  /\ i.opcode = "WLDR"
  /\ registers' = [registers EXCEPT ![RmpRate(i.n)] = SSAT(i.f),
                                    ![RmpRange(i.n)] = SSAT(i.a)]
  /\ ramp_phase' = [ramp_phase EXCEPT ![i.n] = 0]
  /\ UNCHANGED <<acc, delay, sine, cosine>>

JAM(i) ==
  /\ i.opcode = "JAM"
  /\ ramp_phase' = [ramp_phase EXCEPT ![i.n] = 0]
  /\ UNCHANGED <<acc, registers, delay, sine, cosine>>

\* VM::read_lfo.
ReadLfo(n) ==
  [SIN0_SIN |-> Sine(0)!Sin, SIN0_COS |-> Sine(0)!Cos,
   SIN1_SIN |-> Sine(1)!Sin, SIN1_COS |-> Sine(1)!Cos,
   RMP0_VAL |-> ramp_phase[0], RMP1_VAL |-> ramp_phase[1]][n]

CHO_RDAL(i) == i.opcode = "CHO_RDAL" /\ Store(ReadLfo(i.n))

CHO_RDA_RMP(i) ==
  /\ i.opcode = "CHO_RDA_RMP"
  /\ \E lfo_value \in Ramp(i.n)!Read(i.flags) :
       ReadDelay(i.addr + lfo_value.offset, lfo_value.coefficient)

CHO_RDA_SIN(i) ==
  /\ i.opcode = "CHO_RDA_SIN"
  /\ LET lfo_value == Sine(i.n)!Read(i.flags)
     IN  ReadDelay(i.addr + lfo_value.offset, lfo_value.coefficient)

CHO_SOF_RMP(i) ==
  /\ i.opcode = "CHO_SOF_RMP"
  /\ \E lfo_value \in Ramp(i.n)!Read(i.flags) :
       Store(Mac(acc, lfo_value.coefficient, i.d))

CHO_SOF_SIN(i) ==
  /\ i.opcode = "CHO_SOF_SIN"
  /\ Store(Mac(acc, Sine(i.n)!Read(i.flags).coefficient, i.d))

-----------------------------------------------------------------------------
\* The switch.
Perform(i) ==
  \/ RDAX(i) \/ RDFX(i) \/ MAXX(i) \/ MULX(i) \/ LDAX(i) \/ SOF(i)
  \/ CLR(i) \/ ABSA(i) \/ AndMask(i) \/ OrMask(i) \/ XorMask(i) \/ NotAcc(i)
  \/ NOP(i)
  \/ RDA(i) \/ RMPA(i) \/ WRA(i) \/ WRAP(i)
  \/ WRAX(i) \/ WRHX(i) \/ WRLX(i)
  \/ WLDS(i) \/ WLDR(i) \/ JAM(i)
  \/ CHO_RDAL(i) \/ CHO_RDA_RMP(i) \/ CHO_RDA_SIN(i)
  \/ CHO_SOF_RMP(i) \/ CHO_SOF_SIN(i)

\* SKP skips when all its conditions hold, JMP always.
Skips(i) ==
  \/ i.opcode = "JMP"
  \/ /\ i.opcode = "SKP"
     /\ "NEG" \in i.cmask => acc < 0
     /\ "GEZ" \in i.cmask => acc >= 0
     /\ "ZRO" \in i.cmask => acc = 0
     /\ "ZRC" \in i.cmask => ((acc >= 0) # (pacc >= 0))
     /\ "RUN" \in i.cmask => ~first_run

\* What the switch and the ++ic after it add to ic.
Advance(i) == IF Skips(i) THEN 1 + i.n ELSE 1

-----------------------------------------------------------------------------
DirtyDelayMistake ==
  /\ registers' = [r \in Register |-> 0]
  /\ first_run' = TRUE
  /\ UNCHANGED delay
  /\ ramp_phase' = [n \in 0 .. 1 |-> 0]
  /\ sine' = [n \in 0 .. 1 |-> 0]
  /\ cosine' = [n \in 0 .. 1 |-> MIN]

RunFlagMistake ==
  /\ registers' = [r \in Register |-> 0]
  /\ UNCHANGED first_run
  /\ Delay!Reset
  /\ ramp_phase' = [n \in 0 .. 1 |-> 0]
  /\ sine' = [n \in 0 .. 1 |-> 0]
  /\ cosine' = [n \in 0 .. 1 |-> MIN]

SilentSineMistake ==
  /\ registers' = [r \in Register |-> 0]
  /\ first_run' = TRUE
  /\ Delay!Reset
  /\ ramp_phase' = [n \in 0 .. 1 |-> 0]
  /\ sine' = [n \in 0 .. 1 |-> 0]
  /\ cosine' = [n \in 0 .. 1 |-> 0]

RunningRampMistake ==
  /\ registers' = [r \in Register |-> 0]
  /\ first_run' = TRUE
  /\ Delay!Reset
  /\ UNCHANGED ramp_phase
  /\ sine' = [n \in 0 .. 1 |-> 0]
  /\ cosine' = [n \in 0 .. 1 |-> MIN]

\* What VM::Compile clears besides acc_ and pacc_: State::Reset, the delay
\* memory (but for last_read_) and the LFOs.
ClearAll ==
  /\ registers' = [r \in Register |-> 0]
  /\ first_run' = TRUE
  /\ Delay!Reset
  /\ ramp_phase' = [n \in 0 .. 1 |-> 0]
  /\ sine' = [n \in 0 .. 1 |-> 0]
  /\ cosine' = [n \in 0 .. 1 |-> MIN]

\* VM::SetParameters.
StorePots(pots) ==
  registers' = [registers EXCEPT !["POT0"] = SSAT(pots[1]),
                                 !["POT1"] = SSAT(pots[2]),
                                 !["POT2"] = SSAT(pots[3])]

\* The input of a frame.
StoreInput(in) ==
  registers' = [registers EXCEPT !["ADCL"] = SSAT(in[1]), !["ADCR"] = SSAT(in[2])]

\* The output of a frame.
Output == <<registers["DACL"], registers["DACR"]>>

\* VM::Tick: delay memory and LFOs move on by a sample.
TickAll ==
  /\ Delay!Tick
  /\ ramp_phase' = [n \in 0 .. 1 |-> Ramp(n)!NextPhase]
  /\ sine' = [n \in 0 .. 1 |-> Sine(n)!NextSin]
  /\ cosine' = [n \in 0 .. 1 |-> Sine(n)!NextCos]
=============================================================================
