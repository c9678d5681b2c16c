------------------------------ MODULE Vm_proofs ------------------------------
(***************************************************************************)
(* The virtual machine at every width, delay size, program and host.       *)
(***************************************************************************)
EXTENDS EchoProgram, Machine_proofs

-----------------------------------------------------------------------------
(***************************************************************************)
(* Type correctness.  Machine_proofs has the ranges of the machine; what   *)
(* is left is what Vm adds.                                                *)
(***************************************************************************)

\* What the host hands over.
LEMMA HostInput ==
  /\ \A in \in Frames : in[1] \in Int /\ in[2] \in Int
  /\ \A pots \in Pots : pots[1] \in Int /\ pots[2] \in Int /\ pots[3] \in Int
  BY HostAssumption

\* The registers that the host's values and the output frame go through.
LEMMA HostRegisters ==
  {"POT0", "POT1", "POT2", "ADCL", "ADCR", "DACL", "DACR"} \subseteq Register
  BY DEF Register, SpecialRegister

\* The part of the type invariant that the instructions do not touch.
HostTyped ==
  /\ pacc \in SF23 /\ prev_acc \in SF23 /\ acc_ \in SF23 /\ pacc_ \in SF23
  /\ first_run \in BOOLEAN
  /\ instructions_ \in Program
  /\ ic \in Nat
  /\ num_frames \in 0 .. kMaxBlock
  /\ pc \in {"idle", "loop", "frame"}
  /\ out \in SF23 \X SF23
  /\ heard \in Seq(Frames)
  /\ leftover \in {"hidden", "gone", "audible"}

\* Inside Execute the frame at work is not yet counted, so num_frames does
\* not fall below zero, and prev_acc is what the accumulator is now: the next
\* instruction finds it in acc and leaves it in pacc.
LocalsAgree ==
  /\ pc = "frame" => num_frames > 0
  /\ pc # "idle" => prev_acc = acc

\* The inductive invariant.
Inv == Typed /\ HostTyped /\ LocalsAgree

\* The inductive invariant holds before the first call.
LEMMA InitInv == Init => Inv
<1> SUFFICES ASSUME Init
             PROVE  Inv
  OBVIOUS
<1>1. Typed
  BY HostAssumption, FormatsAreInt, DelaySizePositive DEF Init, Typed
<1>2. instructions_ \in Program
  BY DEF Init, Program, Instruction
<1>3. HostTyped
  BY <1>2, HostAssumption, FormatsAreInt DEF Init, HostTyped
<1>4. LocalsAgree
  BY DEF Init, LocalsAgree
<1> QED  BY <1>1, <1>3, <1>4 DEF Inv

\* An instruction of the program, executed.
LEMMA ExecuteInv ==
  ASSUME Inv, ExecuteInstruction
  PROVE  Inv'
<1> USE DEF Inv
<1> DEFINE i == instructions_[ic]
<1>1. i \in Instruction
  <2>1. ic \in 0 .. kMaxInstructionCount - 1
    BY CountAssumption DEF HostTyped, ExecuteInstruction
  <2> QED  BY <2>1 DEF HostTyped, Program
<1>2. Typed'
  BY <1>1, PerformTyped DEF ExecuteInstruction, HostTyped
<1>3. Advance(i) \in Nat
  BY <1>1, Operands DEF Advance, Skips
<1>4. ic' \in Nat
  BY <1>3 DEF ExecuteInstruction, HostTyped
<1>5. acc' \in SF23
  BY <1>2 DEF Typed
<1>6. HostTyped'
  BY <1>4, <1>5 DEF HostTyped, Typed, ExecuteInstruction, Leftover
<1>7. LocalsAgree'
  BY DEF LocalsAgree, ExecuteInstruction
<1> QED  BY <1>2, <1>6, <1>7

\* Every call and every step inside Execute preserves the invariant.
LEMMA NextInv ==
  ASSUME Inv, [Next]_vars
  PROVE  Inv'
<1> USE DEF Inv
<1>1. CASE \E program \in Programs : Compile(program)
  <2> PICK program \in Programs : Compile(program)
    BY <1>1
  <2>1. Typed'
    BY ClearTyped DEF Compile, locals, Typed
  <2>2. HostTyped'
    BY HostAssumption, FormatsAreInt DEF Compile, ClearAll, locals, HostTyped
  <2>3. LocalsAgree'
    BY DEF Compile, locals, LocalsAgree
  <2> QED  BY <2>1, <2>2, <2>3
<1>2. CASE \E pots \in Pots : SetParameters(pots)
  <2> PICK pots \in Pots : SetParameters(pots)
    BY <1>2
  <2>1. Typed'
    BY HostInput, HostRegisters, SsatInRange
    DEF SetParameters, StorePots, Typed, delay, lfos, locals
  <2>2. HostTyped'
    BY DEF SetParameters, HostTyped, locals
  <2>3. LocalsAgree'
    BY DEF SetParameters, LocalsAgree, locals
  <2> QED  BY <2>1, <2>2, <2>3
<1>3. CASE \E n \in 0 .. kMaxBlock : BeginBlock(n)
  <2> PICK n \in 0 .. kMaxBlock : BeginBlock(n)
    BY <1>3
  <2>1. Typed'
    BY DEF BeginBlock, state_, delay, lfos, Typed, HostTyped
  <2>2. HostTyped'
    BY DEF BeginBlock, state_, HostTyped
  <2>3. LocalsAgree'
    BY DEF BeginBlock, LocalsAgree
  <2> QED  BY <2>1, <2>2, <2>3
<1>4. CASE \E in \in Frames : BeginFrame(in)
  <2> PICK in \in Frames : BeginFrame(in)
    BY <1>4
  <2>1. Typed'
    BY HostInput, HostRegisters, SsatInRange
    DEF BeginFrame, StoreInput, Typed, delay, lfos
  <2>2. HostTyped'
    BY DEF BeginFrame, HostTyped
  <2>3. LocalsAgree'
    BY DEF BeginFrame, LocalsAgree
  <2> QED  BY <2>1, <2>2, <2>3
<1>5. CASE ExecuteInstruction
  BY <1>5, ExecuteInv
<1>6. CASE EndFrame
  <2>1. Typed'
    BY <1>6, TickTyped DEF EndFrame
  <2>2. out' \in SF23 \X SF23
    BY <1>6, HostRegisters DEF EndFrame, Output, Typed
  <2>3. num_frames' \in 0 .. kMaxBlock
    <3>1. num_frames \in 1 .. kMaxBlock
      BY <1>6, HostAssumption DEF EndFrame, HostTyped, LocalsAgree
    <3>2. num_frames - 1 \in 0 .. kMaxBlock
      BY <3>1, HostAssumption
    <3> QED  BY <1>6, <3>2 DEF EndFrame
  <2>4. HostTyped'
    BY <1>6, <2>2, <2>3 DEF EndFrame, HostTyped
  <2>5. LocalsAgree'
    BY <1>6 DEF EndFrame, LocalsAgree
  <2> QED  BY <2>1, <2>4, <2>5
<1>7. CASE EndBlock
  <2>1. Typed' /\ HostTyped'
    BY <1>7 DEF EndBlock, delay, lfos, locals, Typed, HostTyped
  <2>2. LocalsAgree'
    BY <1>7 DEF EndBlock, locals, LocalsAgree
  <2> QED  BY <2>1, <2>2
<1>8. CASE UNCHANGED vars
  BY <1>8 DEF vars, state_, delay, lfos, locals, Typed, HostTyped, LocalsAgree
<1> QED  BY <1>1, <1>2, <1>3, <1>4, <1>5, <1>6, <1>7, <1>8 DEF Next, Execute

\* The inductive invariant is invariant.
LEMMA Invariant == Spec => []Inv
  BY InitInv, NextInv, PTL DEF Spec

\* Registers, delay samples, accumulators and the output are always SF23
\* values, no load or store is outside the delay memory and no instruction
\* outside the program: for every program, input and sequence of calls.
THEOREM TypeCorrect == Spec => []TypeOK
<1>1. Inv => TypeOK
  BY DEF Inv, TypeOK, Typed, HostTyped
<1> QED  BY <1>1, Invariant, PTL

-----------------------------------------------------------------------------
(***************************************************************************)
(* The first run.                                                          *)
(***************************************************************************)

\* With it the property is inductive: a frame at work has been heard.
FirstRunInv == FirstRunIsFirstFrame /\ (pc = "frame" => Len(heard) > 0)

\* first_run stays true until the first frame after a Compile is finished,
\* and no call but Compile makes it true again.
THEOREM FirstRun == Spec => []FirstRunIsFirstFrame
<1>1. Init => FirstRunInv
  BY DEF Init, FirstRunInv, FirstRunIsFirstFrame
<1>2. Inv /\ FirstRunInv /\ [Next]_vars => FirstRunInv'
  <2> SUFFICES ASSUME Inv, FirstRunInv, [Next]_vars
               PROVE  FirstRunInv'
    OBVIOUS
  <2> USE DEF FirstRunInv, FirstRunIsFirstFrame
  <2>1. heard \in Seq(Frames) /\ Len(heard) \in Nat
    BY DEF Inv, HostTyped
  <2>2. CASE \E program \in Programs : Compile(program)
    BY <2>2 DEF Compile, ClearAll
  <2>3. CASE \E pots \in Pots : SetParameters(pots)
    BY <2>3 DEF SetParameters
  <2>4. CASE \E n \in 0 .. kMaxBlock : BeginBlock(n)
    BY <2>4 DEF BeginBlock, state_
  <2>5. CASE \E in \in Frames : BeginFrame(in)
    <3> PICK in \in Frames : BeginFrame(in)
      BY <2>5
    <3>1. Len(heard') = Len(heard) + 1
      BY <2>1 DEF BeginFrame
    <3> QED  BY <2>1, <3>1 DEF BeginFrame
  <2>6. CASE ExecuteInstruction
    BY <2>6 DEF ExecuteInstruction
  <2>7. CASE EndFrame
    BY <2>1, <2>7 DEF EndFrame
  <2>8. CASE EndBlock
    BY <2>8 DEF EndBlock
  <2>9. CASE UNCHANGED vars
    BY <2>9 DEF vars, state_
  <2> QED  BY <2>2, <2>3, <2>4, <2>5, <2>6, <2>7, <2>8, <2>9 DEF Next, Execute
<1>3. FirstRunInv => FirstRunIsFirstFrame
  BY DEF FirstRunInv
<1> QED  BY <1>1, <1>2, <1>3, Invariant, PTL DEF Spec

-----------------------------------------------------------------------------
(***************************************************************************)
(* The control values.                                                     *)
(***************************************************************************)

\* Any other instruction leaves the pots alone.
LEMMA PotsStay ==
  ASSUME Typed, NEW i \in Instruction, Perform(i),
         ~StoresToPot(i),
         NEW pot \in {"POT0", "POT1", "POT2"}
  PROVE  registers'[pot] = registers[pot]
<1>1. CASE \E sum : WriteRegister(i, sum) /\ i.opcode \in {"WRAX", "WRHX", "WRLX"}
  BY <1>1, HostRegisters DEF WriteRegister, StoresToPot, Typed
<1>2. CASE WLDS(i)
  BY <1>2, HostRegisters DEF WLDS, SinRate, SinRange, Typed
<1>3. CASE WLDR(i)
  BY <1>3, HostRegisters DEF WLDR, RmpRate, RmpRange, Typed
<1>4. CASE UNCHANGED registers
  BY <1>4
<1> QED  BY <1>1, <1>2, <1>3, <1>4
         DEF Perform, RDAX, RDFX, MAXX, MULX, LDAX, SOF, CLR, ABSA, AndMask, OrMask,
             XorMask, NotAcc, NOP, RDA, RMPA, WRA, WRAP, WRAX, WRHX, WRLX, JAM,
             CHO_RDAL, CHO_RDA_RMP, CHO_RDA_SIN, CHO_SOF_RMP, CHO_SOF_SIN,
             Set, Store, ReadDelay, WriteDelay

\* vm.h:65 is right of all programs that store nothing in a pot: for them the
\* control values hold in every frame of a block.
THEOREM ControlsHoldUnlessStored ==
  (\A p \in Programs : \A n \in DOMAIN p : ~StoresToPot(p[n])) => (Spec => ControlsHold)
<1> DEFINE Loaded == \A n \in DOMAIN instructions_ : ~StoresToPot(instructions_[n])
<1> SUFFICES ASSUME \A p \in Programs : \A n \in DOMAIN p : ~StoresToPot(p[n])
             PROVE  Spec => ControlsHold
  OBVIOUS
<1>1. Init => Loaded
  BY DEF Init, StoresToPot
<1>2. Loaded /\ [Next]_vars => Loaded'
  <2> SUFFICES ASSUME Loaded, [Next]_vars
               PROVE  Loaded'
    OBVIOUS
  <2>1. CASE \E program \in Programs : Compile(program)
    <3> PICK program \in Programs : Compile(program)
      BY <2>1
    <3>1. instructions_' = program
      BY DEF Compile
    <3> QED  BY <3>1 DEF StoresToPot
  <2>2. CASE UNCHANGED instructions_
    BY <2>2 DEF StoresToPot
  <2> QED  BY <2>1, <2>2
           DEF Next, Execute, SetParameters, BeginBlock, BeginFrame,
               ExecuteInstruction, EndFrame, EndBlock, vars
<1>3. Inv /\ Loaded /\ [Next]_vars =>
        [pc # "idle" => \A pot \in {"POT0", "POT1", "POT2"} :
                          registers'[pot] = registers[pot]]_vars
  <2> SUFFICES ASSUME Inv, Loaded, Next, pc # "idle",
                      NEW pot \in {"POT0", "POT1", "POT2"}
               PROVE  registers'[pot] = registers[pot]
    OBVIOUS
  <2>1. CASE ExecuteInstruction
    <3>1. ic \in 0 .. kMaxInstructionCount - 1
      BY <2>1, CountAssumption DEF ExecuteInstruction, Inv, HostTyped
    <3>2. /\ instructions_[ic] \in Instruction /\ ~StoresToPot(instructions_[ic])
          /\ Perform(instructions_[ic])
      BY <2>1, <3>1 DEF ExecuteInstruction, Inv, HostTyped, Program
    <3> HIDE DEF Loaded
    <3> QED  BY <3>2, PotsStay DEF Inv
  <2>2. CASE \E in \in Frames : BeginFrame(in)
    BY <2>2, HostRegisters DEF BeginFrame, StoreInput, Inv, Typed
  <2>3. CASE EndFrame \/ EndBlock
    BY <2>3 DEF EndFrame, EndBlock
  <2>4. CASE \/ \E program \in Programs : Compile(program)
             \/ \E pots \in Pots : SetParameters(pots)
             \/ \E n \in 0 .. kMaxBlock : BeginBlock(n)
    BY <2>4 DEF Compile, SetParameters, BeginBlock
  <2> QED  BY <2>1, <2>2, <2>3, <2>4 DEF Next, Execute
<1> HIDE DEF Loaded
<1> QED  BY <1>1, <1>2, <1>3, Invariant, PTL DEF Spec, ControlsHold

-----------------------------------------------------------------------------
\* Whatever the program and the signal, the clamp sees the exact sum of every
\* multiply-accumulate that the program may ask for.
THEOREM SumsStayExact == Spec => []NoWrapBeforeClamp
<1>1. Inv => NoWrapBeforeClamp
  BY SumsAreExact DEF Inv, Typed
<1> QED  BY <1>1, Invariant, PTL

\* And AND, OR and NOT treat the bits of the accumulator, whatever the program
\* has brought it to, as those of a two's complement word.
THEOREM LogicStaysBitwise == Spec => []LogicIsBitwise
<1>1. Inv => LogicIsBitwise
  BY LogicExact DEF Inv, Typed
<1> QED  BY <1>1, Invariant, PTL

\* So does XOR, of an operand that is not negative.
THEOREM XorStaysBitwise == Spec => []XorIsBitwise
<1>1. Inv => XorIsBitwise
  BY LogicExact DEF Inv, Typed
<1> QED  BY <1>1, Invariant, PTL

-----------------------------------------------------------------------------
(***************************************************************************)
(* The sine LFOs.                                                          *)
(***************************************************************************)

\* Only WLDS among the instructions sets a sine LFO, and sets it as Jam does.
LEMMA PerformSines ==
  ASSUME Typed, NEW i \in Instruction, Perform(i)
  PROVE  \/ UNCHANGED <<sine, cosine>>
         \/ /\ i.n \in 0 .. 1
            /\ sine' = [sine EXCEPT ![i.n] = 0]
            /\ cosine' = [cosine EXCEPT ![i.n] = MIN]
<1>1. CASE WLDS(i)
  BY <1>1, Operands DEF WLDS
<1>2. CASE RDAX(i) \/ RDFX(i) \/ MAXX(i) \/ MULX(i) \/ LDAX(i) \/ SOF(i) \/ CLR(i) \/ ABSA(i)
  BY <1>2 DEF RDAX, RDFX, MAXX, MULX, LDAX, SOF, CLR, ABSA, Store, Set, lfos
<1>3. CASE AndMask(i) \/ OrMask(i) \/ XorMask(i) \/ NotAcc(i) \/ NOP(i)
  BY <1>3 DEF AndMask, OrMask, XorMask, NotAcc, NOP, Set, lfos
<1>4. CASE RDA(i) \/ RMPA(i) \/ WRA(i) \/ WRAP(i)
  BY <1>4 DEF RDA, RMPA, WRA, WRAP, ReadDelay, WriteDelay, lfos
<1>5. CASE WRAX(i) \/ WRHX(i) \/ WRLX(i) \/ WLDR(i) \/ JAM(i)
  BY <1>5 DEF WRAX, WRHX, WRLX, WriteRegister, WLDR, JAM, lfos
<1>6. CASE CHO_RDAL(i) \/ CHO_SOF_RMP(i) \/ CHO_SOF_SIN(i)
  BY <1>6 DEF CHO_RDAL, CHO_SOF_RMP, CHO_SOF_SIN, Store, Set, lfos
<1>7. CASE CHO_RDA_RMP(i) \/ CHO_RDA_SIN(i)
  BY <1>7 DEF CHO_RDA_RMP, CHO_RDA_SIN, ReadDelay, lfos
<1> QED  BY <1>1, <1>2, <1>3, <1>4, <1>5, <1>6, <1>7 DEF Perform

\* What may become of a sine LFO in a step.
LEMMA SinesNext ==
  ASSUME Inv, [Next]_vars, NEW n \in 0 .. 1
  PROVE  \/ sine'[n] = sine[n] /\ cosine'[n] = cosine[n]
         \/ sine'[n] = 0 /\ cosine'[n] = MIN
         \/ sine'[n] = Sine(n)!NextSin /\ cosine'[n] = Sine(n)!NextCos
<1>1. CASE \E program \in Programs : Compile(program)
  BY <1>1 DEF Compile, ClearAll
<1>2. CASE ExecuteInstruction
  <2>1. ic \in 0 .. kMaxInstructionCount - 1
    BY <1>2, CountAssumption DEF ExecuteInstruction, Inv, HostTyped
  <2>2. instructions_[ic] \in Instruction /\ Perform(instructions_[ic])
    BY <1>2, <2>1 DEF ExecuteInstruction, Inv, HostTyped, Program
  <2> DEFINE i == instructions_[ic]
  <2>3. \/ UNCHANGED <<sine, cosine>>
        \/ /\ i.n \in 0 .. 1
           /\ sine' = [sine EXCEPT ![i.n] = 0]
           /\ cosine' = [cosine EXCEPT ![i.n] = MIN]
    BY <2>2, PerformSines DEF Inv
  <2> HIDE DEF i
  <2> QED  BY <2>3 DEF Inv, Typed
<1>3. CASE EndFrame
  BY <1>3 DEF EndFrame, TickAll
<1>4. CASE \/ \E pots \in Pots : SetParameters(pots)
           \/ \E b \in 0 .. kMaxBlock : BeginBlock(b)
           \/ \E in \in Frames : BeginFrame(in)
           \/ EndBlock \/ UNCHANGED vars
  BY <1>4 DEF SetParameters, BeginBlock, BeginFrame, EndBlock, vars, lfos
<1> QED  BY <1>1, <1>2, <1>3, <1>4 DEF Next, Execute

\* Whatever rates a program has stored, and however often it has changed them
\* or jammed the oscillator, it has never come to rest at 0.
THEOREM SinesKeepSwinging == Spec => []SinesSwing
<1>1. Init => SinesSwing
  BY RangeAssumption DEF Init, SinesSwing, MIN
<1>2. Inv /\ SinesSwing /\ [Next]_vars => SinesSwing'
  <2> SUFFICES ASSUME Inv, SinesSwing, [Next]_vars, NEW n \in 0 .. 1
               PROVE  sine'[n] # 0 \/ cosine'[n] # 0
    BY DEF SinesSwing
  <2>1. sine[n] # 0 \/ cosine[n] # 0
    BY DEF SinesSwing
  <2>2. MIN # 0
    BY RangeAssumption DEF MIN
  <2>3. Sine(n)!NextSin # 0 \/ Sine(n)!NextCos # 0
    BY <2>1, TickSwings DEF Inv
  <2> QED  BY <2>1, <2>2, <2>3, SinesNext
<1> QED  BY <1>1, <1>2, Invariant, PTL DEF Spec

\* Whatever range a program stores, and in whatever frame, the phases fit their
\* ranges again before the next frame begins: for every program, block and width.
THEOREM FramesSettled == Spec => []FramesBeginSettled
<1>1. Init => FramesBeginSettled
  <2> SUFFICES ASSUME Init, NEW n \in 0 .. 1
               PROVE  Ramp(n)!Settled
    BY DEF FramesBeginSettled
  <2>1. Ramp(n)!Range \in Nat /\ ramp_phase[n] = 0
    BY InitInv, RampRangeIsNat DEF Inv, Init
  <2> QED  BY <2>1 DEF Ramp!Settled
<1>2. Inv /\ FramesBeginSettled /\ [Next]_vars => FramesBeginSettled'
  <2> SUFFICES ASSUME Inv, FramesBeginSettled, [Next]_vars, pc' # "frame",
                      NEW n \in 0 .. 1
               PROVE  Ramp(n)!Settled'
    BY DEF FramesBeginSettled
  <2>1. CASE \E program \in Programs : Compile(program)
    BY <2>1, ClearSettles DEF Compile, Inv
  <2>2. CASE EndFrame
    BY <2>2, TickSettles DEF EndFrame, Inv
  <2>3. CASE \/ \E pots \in Pots : SetParameters(pots)
             \/ \E b \in 0 .. kMaxBlock : BeginBlock(b)
             \/ EndBlock \/ UNCHANGED vars
    <3>1. pc # "frame" /\ ramp_phase'[n] = ramp_phase[n]
      BY <2>3 DEF SetParameters, BeginBlock, EndBlock, vars, lfos
    <3>2. registers'[RmpRange(n)] = registers[RmpRange(n)]
      BY <2>3, LfoRegisters
      DEF SetParameters, StorePots, RmpRange, BeginBlock, EndBlock, vars, state_, Inv, Typed
    <3>3. Ramp(n)!Range' = Ramp(n)!Range
      BY <3>2, RangeStays
    <3>4. Ramp(n)!Settled
      BY <3>1 DEF FramesBeginSettled
    <3> QED  BY <3>1, <3>3, <3>4 DEF Ramp!Settled
  <2>4. CASE ExecuteInstruction \/ \E in \in Frames : BeginFrame(in)
    BY <2>4 DEF ExecuteInstruction, BeginFrame
  <2> QED  BY <2>1, <2>2, <2>3, <2>4 DEF Next, Execute
<1> QED  BY <1>1, <1>2, Invariant, PTL DEF Spec

\* Every tick of a sine LFO can be undone, at any width, at any rate and from
\* any state a program may have brought it to: rounding and wrapping lose
\* nothing.
THEOREM SinesReversible == Spec => Sine(0)!Reversible /\ Sine(1)!Reversible
<1> DEFINE Undone(n) ==
      Sine(n)!Tick =>
        /\ sine[n] = Sine(n)!Add(sine[n]', Sine(n)!Mul(cosine[n]', Sine(n)!Coefficient))
        /\ cosine[n] = Sine(n)!Sub(cosine[n]', Sine(n)!Mul(sine[n], Sine(n)!Coefficient))
<1>1. ASSUME Inv, NEW n \in 0 .. 1
      PROVE  Undone(n)
  BY <1>1, TickUndone, SineArithmetic DEF Inv, Sine!Tick
<1>2. Inv /\ [Next]_vars => [Undone(0)]_(Sine(0)!vars) /\ [Undone(1)]_(Sine(1)!vars)
  BY <1>1
<1> QED  BY <1>2, Invariant, PTL DEF Spec, Sine!Reversible

-----------------------------------------------------------------------------
(***************************************************************************)
(* A block ends: the steps left are a number, and every step inside        *)
(* Execute takes at least one off.                                         *)
(***************************************************************************)

\* An instruction leads on, the end of a frame to the next frame of the block
\* or to its end: no loop of a program and no jump keeps Execute in a frame.
LEMMA ExecuteCountsDown ==
  ASSUME Inv, Next, pc # "idle"
  PROVE  StepsLeft \in Nat /\ StepsLeft' \in 0 .. StepsLeft - 1
<1> DEFINE f == kMaxInstructionCount + 2
<1>1. f \in Nat /\ kMaxInstructionCount \in Nat /\ f = kMaxInstructionCount + 2
  BY CountAssumption
<1> HIDE DEF f
<1>2. \A k \in Nat : k * f \in Nat
  BY <1>1
<1>3. \A k \in Nat \ {0} : k * f = (k - 1) * f + f /\ (k - 1) * f \in Nat
  BY <1>1
<1>4. StepsLeft = IF pc = "idle" THEN 0
                  ELSE IF pc = "loop" THEN num_frames * f + 1
                  ELSE (num_frames - 1) * f + 2
                       + IF ic < kMaxInstructionCount THEN kMaxInstructionCount - ic ELSE 0
  BY DEF StepsLeft, f
<1>5. StepsLeft' = IF pc' = "idle" THEN 0
                   ELSE IF pc' = "loop" THEN num_frames' * f + 1
                   ELSE (num_frames' - 1) * f + 2
                        + IF ic' < kMaxInstructionCount THEN kMaxInstructionCount - ic' ELSE 0
  BY DEF StepsLeft, f
<1>6. /\ num_frames \in Nat /\ ic \in Nat /\ pc \in {"loop", "frame"}
      /\ pc = "frame" => num_frames \in Nat \ {0}
  BY HostAssumption DEF Inv, HostTyped, LocalsAgree
<1>7. CASE \E in \in Frames : BeginFrame(in)
  <2>1. /\ pc = "loop" /\ pc' = "frame" /\ ic' = 0 /\ num_frames' = num_frames
        /\ num_frames \in Nat \ {0}
    BY <1>6, <1>7 DEF BeginFrame
  <2> DEFINE r == (num_frames - 1) * f
  <2>2. r \in Nat /\ num_frames * f = r + f
    BY <1>3, <2>1
  <2>3. StepsLeft = r + f + 1
    BY <1>4, <2>1, <2>2
  <2> HIDE DEF r
  <2>4. StepsLeft' = r + 2 + kMaxInstructionCount
    BY <1>1, <1>5, <2>1, <2>2 DEF r
  <2> QED  BY <1>1, <2>2, <2>3, <2>4
<1>8. CASE ExecuteInstruction
  <2>1. /\ pc = "frame" /\ pc' = "frame" /\ num_frames' = num_frames
        /\ ic < kMaxInstructionCount
        /\ ic' = ic + Advance(instructions_[ic])
    BY <1>8 DEF ExecuteInstruction
  <2>2. Advance(instructions_[ic]) \in Nat \ {0}
    <3>1. ic \in 0 .. kMaxInstructionCount - 1
      BY <1>1, <1>6, <2>1
    <3>2. instructions_[ic] \in Instruction
      BY <3>1 DEF Inv, HostTyped, Program
    <3> QED  BY <3>2, Operands DEF Advance, Skips
  <2>3. ic' \in Nat /\ ic' > ic
    BY <1>6, <2>1, <2>2
  <2> DEFINE r == (num_frames - 1) * f
  <2>4. r \in Nat
    BY <1>3, <1>6, <2>1
  <2>5. StepsLeft = r + 2 + (kMaxInstructionCount - ic)
    BY <1>4, <2>1
  <2>6. StepsLeft' = r + 2 + IF ic' < kMaxInstructionCount
                             THEN kMaxInstructionCount - ic' ELSE 0
    BY <1>5, <2>1
  <2> HIDE DEF r
  <2> QED  BY <1>1, <1>6, <2>1, <2>3, <2>4, <2>5, <2>6
<1>9. CASE EndFrame
  <2>1. /\ pc = "frame" /\ pc' = "loop" /\ num_frames' = num_frames - 1
        /\ ic >= kMaxInstructionCount /\ num_frames \in Nat \ {0}
    BY <1>6, <1>9 DEF EndFrame
  <2> DEFINE r == (num_frames - 1) * f
  <2>2. r \in Nat
    BY <1>3, <2>1
  <2>3. StepsLeft' = r + 1
    BY <1>5, <2>1
  <2>4. ~(ic < kMaxInstructionCount)
    BY <1>1, <1>6, <2>1
  <2>5. StepsLeft = r + 2 + 0
    BY <1>4, <2>1, <2>4
  <2> HIDE DEF r
  <2> QED  BY <2>2, <2>3, <2>5
<1>10. CASE EndBlock
  <2>1. pc = "loop" /\ pc' = "idle" /\ num_frames = 0
    BY <1>10 DEF EndBlock
  <2>2. 0 * f = 0
    BY <1>1
  <2>3. StepsLeft = 0 + 1
    BY <1>4, <2>1, <2>2
  <2>4. StepsLeft' = 0
    BY <1>5, <2>1
  <2> QED  BY <2>3, <2>4
<1>11. CASE \/ \E program \in Programs : Compile(program)
            \/ \E pots \in Pots : SetParameters(pots)
            \/ \E n \in 0 .. kMaxBlock : BeginBlock(n)
  BY <1>11 DEF Compile, SetParameters, BeginBlock
<1> QED  BY <1>7, <1>8, <1>9, <1>10, <1>11 DEF Next, Execute

\* For every program, block and host: a call of Execute is a bounded number of
\* steps.
THEOREM BlocksCountDown == Spec => BlockCountsDown
<1>1. Inv /\ [Next]_vars =>
        [pc # "idle" => StepsLeft \in Nat /\ StepsLeft' \in 0 .. StepsLeft - 1]_vars
  BY ExecuteCountsDown
<1> QED  BY <1>1, Invariant, PTL DEF Spec, BlockCountsDown

-----------------------------------------------------------------------------
(***************************************************************************)
(* The virtual machine implements the chip.  While Execute works, the      *)
(* chip's accumulators are the copies; between two calls they are the      *)
(* saved ones.  First, the chip computes what the virtual machine does.    *)
(***************************************************************************)

\* The chip has the arithmetic of the virtual machine.
LEMMA ChipArithmetic ==
  /\ \A v : FV1!SSAT(v) = SSAT(v)
  /\ \A a, b : FV1!Add(a, b) = Add(a, b) /\ FV1!Sub(a, b) = Sub(a, b)
  /\ \A a, b : FV1!Mul(a, b) = Mul(a, b)
  /\ \A v : FV1!ABS(v) = ABS(v) /\ FV1!NOT(v) = NOT(v)
  /\ \A a, c, b : FV1!Mac(a, c, b) = Mac(a, c, b)
<1>1. \A x : FV1!Wrap32(x) = Wrap32(x)
  BY DEF FV1!Wrap32, FV1!INT32_MIN, Wrap32, INT32_MIN
<1>2. FV1!MIN = MIN /\ FV1!MAX = MAX
  BY DEF FV1!MIN, FV1!MAX, MIN, MAX
<1>3. \A v : FV1!SSAT(v) = SSAT(v)
  BY <1>2 DEF FV1!SSAT, SSAT
<1>4. \A a, b : FV1!Add(a, b) = Add(a, b) /\ FV1!Sub(a, b) = Sub(a, b)
  BY <1>1 DEF FV1!Add, Add, FV1!Sub, Sub
<1>5. \A a, b : FV1!Mul(a, b) = Mul(a, b)
  BY <1>1 DEF FV1!Mul, Mul
<1>6. \A v : FV1!ABS(v) = ABS(v)
  BY <1>1 DEF FV1!ABS, ABS
<1>7. \A v : FV1!NOT(v) = NOT(v)
  BY <1>2 DEF FV1!NOT, NOT, FV1!SX, SX
<1>8. \A a, c, b : FV1!Mac(a, c, b) = Mac(a, c, b)
  BY <1>4, <1>5 DEF FV1!Mac, Mac
<1> QED  BY <1>3, <1>4, <1>5, <1>6, <1>7, <1>8

\* And its logical operations.
LEMMA ChipLogic ==
  \A v, m : /\ FV1!AND(v, m) = AND(v, m) /\ FV1!OR(v, m) = OR(v, m)
            /\ FV1!XOR(v, m) = XOR(v, m)
  BY DEF FV1!AND, AND, FV1!OR, OR, FV1!XOR, XOR, FV1!WithBits, WithBits,
         FV1!LowBits, LowBits, FV1!Bit, Bit, FV1!SignBit, SignBit, FV1!SF23, SF23,
         FV1!MIN, MIN, FV1!MAX, MAX

\* Its registers of the LFOs are the same.
LEMMA ChipRegisters ==
  ASSUME NEW n
  PROVE  /\ FV1!SinRate(n) = SinRate(n) /\ FV1!SinRange(n) = SinRange(n)
         /\ FV1!RmpRate(n) = RmpRate(n) /\ FV1!RmpRange(n) = RmpRange(n)
  BY DEF FV1!SinRate, SinRate, FV1!SinRange, SinRange,
         FV1!RmpRate, RmpRate, FV1!RmpRange, RmpRange

\* Its ramps have the same phase, and CHO reads the same from them.
LEMMA ChipRamps ==
  ASSUME NEW n, NEW flags
  PROVE  /\ FV1!Ramp(n)!Read(flags) = Ramp(n)!Read(flags)
         /\ FV1!Ramp(n)!NextPhase = Ramp(n)!NextPhase
<1>1. /\ FV1!Ramp(n)!AmpShift = Ramp(n)!AmpShift
      /\ FV1!Ramp(n)!Step = Ramp(n)!Step
  BY ChipRegisters
  DEF FV1!Ramp!AmpShift, Ramp!AmpShift, FV1!Ramp!Step, Ramp!Step
<1>2. FV1!Ramp(n)!Range = Ramp(n)!Range
  BY <1>1 DEF FV1!Ramp!Range, Ramp!Range, FV1!Ramp!kAmp4096, Ramp!kAmp4096
<1>3. \A x : FV1!Ramp(n)!Wrap32(x) = Ramp(n)!Wrap32(x)
  BY DEF FV1!Ramp!Wrap32, Ramp!Wrap32, FV1!Ramp!INT32_MIN, Ramp!INT32_MIN
<1>4. \A x : FV1!Ramp(n)!Complemented(flags, x) = Ramp(n)!Complemented(flags, x)
  BY <1>3 DEF FV1!Ramp!Complemented, Ramp!Complemented, FV1!Ramp!Sub, Ramp!Sub,
              FV1!Ramp!MAX, Ramp!MAX
<1>5. FV1!Ramp(n)!Crossfade = Ramp(n)!Crossfade
  BY <1>1, <1>2, <1>3
  DEF FV1!Ramp!Crossfade, Ramp!Crossfade, FV1!Ramp!Triangle, Ramp!Triangle
<1>6. FV1!Ramp(n)!ReadFade(flags) = Ramp(n)!ReadFade(flags)
  BY <1>4, <1>5 DEF FV1!Ramp!ReadFade, Ramp!ReadFade
<1>7. FV1!Ramp(n)!ReadPointer(flags) = Ramp(n)!ReadPointer(flags)
  <2>1. \A unit, x : FV1!Ramp(n)!LfoCoeffToFloat(unit, x)
                       = Ramp(n)!LfoCoeffToFloat(unit, x)
    BY DEF FV1!Ramp!LfoCoeffToFloat, Ramp!LfoCoeffToFloat
  <2>2. \A second : FV1!Ramp(n)!Pointer(second) = Ramp(n)!Pointer(second)
    BY <1>2 DEF FV1!Ramp!Pointer, Ramp!Pointer
  <2>3. FV1!Ramp(n)!OffsetUnit = Ramp(n)!OffsetUnit
    BY DEF FV1!Ramp!OffsetUnit, Ramp!OffsetUnit
  <2> QED  BY <1>2, <1>4, <2>1, <2>2, <2>3
           DEF FV1!Ramp!ReadPointer, Ramp!ReadPointer
<1> QED  BY <1>1, <1>2, <1>6, <1>7
         DEF FV1!Ramp!Read, Ramp!Read, FV1!Ramp!NextPhase, Ramp!NextPhase

\* Its sine LFOs rotate alike, and CHO reads the same from them.
LEMMA ChipSines ==
  ASSUME NEW n, NEW flags
  PROVE  /\ FV1!Sine(n)!Read(flags) = Sine(n)!Read(flags)
         /\ FV1!Sine(n)!NextSin = Sine(n)!NextSin
         /\ FV1!Sine(n)!NextCos = Sine(n)!NextCos
         /\ FV1!Sine(n)!Sin = Sine(n)!Sin /\ FV1!Sine(n)!Cos = Sine(n)!Cos
<1>1. \A x : FV1!Sine(n)!Wrap32(x) = Sine(n)!Wrap32(x)
  BY DEF FV1!Sine!Wrap32, Sine!Wrap32, FV1!Sine!INT32_MIN, Sine!INT32_MIN
<1>2. \A a, b : /\ FV1!Sine(n)!Add(a, b) = Sine(n)!Add(a, b)
                /\ FV1!Sine(n)!Sub(a, b) = Sine(n)!Sub(a, b)
                /\ FV1!Sine(n)!Mul(a, b) = Sine(n)!Mul(a, b)
  BY <1>1 DEF FV1!Sine!Add, Sine!Add, FV1!Sine!Sub, Sine!Sub, FV1!Sine!Mul, Sine!Mul
<1>3. FV1!Sine(n)!Sin = Sine(n)!Sin /\ FV1!Sine(n)!Cos = Sine(n)!Cos
  BY <1>2, ChipRegisters DEF FV1!Sine!Sin, Sine!Sin, FV1!Sine!Cos, Sine!Cos
<1>4. FV1!Sine(n)!Coefficient = Sine(n)!Coefficient
  BY ChipRegisters DEF FV1!Sine!Coefficient, Sine!Coefficient
<1>5. FV1!Sine(n)!NextCos = Sine(n)!NextCos
  BY <1>2, <1>4 DEF FV1!Sine!NextCos, Sine!NextCos
<1>6. FV1!Sine(n)!NextSin = Sine(n)!NextSin
  BY <1>2, <1>4, <1>5 DEF FV1!Sine!NextSin, Sine!NextSin
<1>7. \A x : FV1!Sine(n)!Complemented(flags, x) = Sine(n)!Complemented(flags, x)
  BY <1>2 DEF FV1!Sine!Complemented, Sine!Complemented, FV1!Sine!MAX, Sine!MAX
<1>8. \A unit, x : FV1!Sine(n)!LfoCoeffToFloat(unit, x)
                     = Sine(n)!LfoCoeffToFloat(unit, x)
  BY DEF FV1!Sine!LfoCoeffToFloat, Sine!LfoCoeffToFloat
<1>9. FV1!Sine(n)!Read(flags) = Sine(n)!Read(flags)
  BY <1>2, <1>3, <1>7, <1>8 DEF FV1!Sine!Read, Sine!Read
<1> QED  BY <1>3, <1>5, <1>6, <1>9

\* Its delay memory is the same ring buffer.
LEMMA ChipDelay ==
  /\ FV1!Delay!Reset <=> Delay!Reset
  /\ \A j : FV1!Delay!Load(j) <=> Delay!Load(j)
  /\ \A j, v : FV1!Delay!Store(j, v) <=> Delay!Store(j, v)
  /\ FV1!Delay!Tick <=> Delay!Tick
<1>1. FV1!DelaySize = DelaySize
  BY DEF FV1!DelaySize, DelaySize
<1>2. \A j : FV1!Delay!At(j) = Delay!At(j)
  BY <1>1 DEF FV1!Delay!At, Delay!At
<1>3. \A j : FV1!Delay!Load(j) <=> Delay!Load(j)
  BY <1>2 DEF FV1!Delay!Load, Delay!Load
<1>4. \A j, v : FV1!Delay!Store(j, v) <=> Delay!Store(j, v)
  BY <1>2 DEF FV1!Delay!Store, Delay!Store
<1>5. FV1!Delay!Reset <=> Delay!Reset
  BY <1>1 DEF FV1!Delay!Reset, Delay!Reset, FV1!Delay!Slots, Delay!Slots
<1>6. FV1!Delay!Tick <=> Delay!Tick
  BY <1>1 DEF FV1!Delay!Tick, Delay!Tick
<1> QED  BY <1>3, <1>4, <1>5, <1>6

\* Inside Execute an instruction does to the copies what it does to the
\* chip's accumulator.
LEMMA PerformRefines ==
  ASSUME NEW i, pc = "frame", pc' = "frame", Perform(i)
  PROVE  FV1!Perform(i)
<1> USE ChipArithmetic
<1>1. CASE RDAX(i) \/ RDFX(i) \/ MULX(i) \/ LDAX(i) \/ SOF(i) \/ CLR(i) \/ ABSA(i)
  BY <1>1 DEF FV1!Perform, FV1!RDAX, RDAX, FV1!RDFX, RDFX, FV1!MULX, MULX,
              FV1!LDAX, LDAX, FV1!SOF, SOF, FV1!CLR, CLR, FV1!ABSA, ABSA,
              FV1!Store, Store, FV1!Set, Set,
              FV1!delay, delay, FV1!lfos, lfos
<1>2. CASE MAXX(i)
  BY <1>2 DEF FV1!Perform, FV1!MAXX, MAXX, FV1!Store, Store, FV1!Set, Set,
              FV1!delay, delay, FV1!lfos, lfos
<1>3. CASE AndMask(i) \/ OrMask(i) \/ XorMask(i) \/ NotAcc(i)
  BY <1>3, ChipLogic
  DEF FV1!Perform, FV1!AndMask, AndMask, FV1!OrMask, OrMask, FV1!XorMask, XorMask,
      FV1!NotAcc, NotAcc, FV1!Set, Set, FV1!delay, delay, FV1!lfos, lfos
<1>4. CASE NOP(i)
  BY <1>4 DEF FV1!Perform, FV1!NOP, NOP, FV1!delay, delay, FV1!lfos, lfos
<1>5. \A addr, c : ReadDelay(addr, c) => FV1!ReadDelay(addr, c)
  BY ChipDelay DEF FV1!ReadDelay, ReadDelay, FV1!lfos, lfos
<1>6. CASE RDA(i)
  BY <1>5, <1>6 DEF FV1!Perform, FV1!RDA, RDA
<1>7. CASE RMPA(i)
  BY <1>5, <1>7 DEF FV1!Perform, FV1!RMPA, RMPA, FV1!DelaySize, DelaySize
<1>8. \A sum : WriteDelay(i, sum) => FV1!WriteDelay(i, sum)
  BY ChipDelay DEF FV1!WriteDelay, WriteDelay, FV1!lfos, lfos
<1>9. CASE WRA(i) \/ WRAP(i)
  BY <1>8, <1>9 DEF FV1!Perform, FV1!WRA, WRA, FV1!WRAP, WRAP
<1>10. \A sum : WriteRegister(i, sum) => FV1!WriteRegister(i, sum)
  BY DEF FV1!WriteRegister, WriteRegister, FV1!delay, delay, FV1!lfos, lfos
<1>11. CASE WRAX(i) \/ WRHX(i) \/ WRLX(i)
  BY <1>10, <1>11 DEF FV1!Perform, FV1!WRAX, WRAX, FV1!WRHX, WRHX, FV1!WRLX, WRLX
<1>12. CASE WLDS(i) \/ WLDR(i) \/ JAM(i)
  BY <1>12, ChipRegisters
  DEF FV1!Perform, FV1!WLDS, WLDS, FV1!WLDR, WLDR, FV1!JAM, JAM,
      FV1!MIN, MIN, FV1!delay, delay
<1>13. CASE CHO_RDAL(i)
  <2>1. FV1!ReadLfo(i.n) = ReadLfo(i.n)
    BY ChipSines DEF FV1!ReadLfo, ReadLfo
  <2> QED  BY <1>13, <2>1
           DEF FV1!Perform, FV1!CHO_RDAL, CHO_RDAL, FV1!Store, Store,
               FV1!Set, Set, FV1!delay, delay, FV1!lfos, lfos
<1>14. CASE CHO_RDA_RMP(i) \/ CHO_RDA_SIN(i)
  BY <1>5, <1>14, ChipRamps, ChipSines
  DEF FV1!Perform, FV1!CHO_RDA_RMP, CHO_RDA_RMP, FV1!CHO_RDA_SIN, CHO_RDA_SIN
<1>15. CASE CHO_SOF_RMP(i) \/ CHO_SOF_SIN(i)
  BY <1>15, ChipRamps, ChipSines
  DEF FV1!Perform, FV1!CHO_SOF_RMP, CHO_SOF_RMP, FV1!CHO_SOF_SIN, CHO_SOF_SIN,
      FV1!Store, Store, FV1!Set, Set, FV1!delay, delay, FV1!lfos, lfos
<1> QED  BY <1>1, <1>2, <1>3, <1>4, <1>6, <1>7, <1>9, <1>11, <1>12, <1>13,
            <1>14, <1>15 DEF Perform

-----------------------------------------------------------------------------
\* Compile loads a program.
LEMMA LoadRefines ==
  ASSUME NEW p, Compile(p)
  PROVE  FV1!Load(p)
  BY ChipDelay
  DEF Compile, ClearAll, locals, FV1!Load, FV1!ClearAll,
      FV1!Register, Register, FV1!SpecialRegister, SpecialRegister, FV1!MIN, MIN

\* SetParameters turns the pots.
LEMMA PotsRefine ==
  ASSUME NEW pots, SetParameters(pots)
  PROVE  FV1!TurnPots(pots)
  BY ChipArithmetic
  DEF SetParameters, StorePots, locals, delay, lfos,
      FV1!TurnPots, FV1!StorePots, FV1!delay, FV1!lfos

\* The chip does not see where a block begins or ends.
LEMMA BlockStutters ==
  ASSUME EndBlock \/ \E n : BeginBlock(n)
  PROVE  UNCHANGED FV1!chip
  BY DEF BeginBlock, EndBlock, state_, locals, delay, lfos,
         FV1!chip, FV1!delay, FV1!lfos

\* A frame is a sample.
LEMMA FrameRefines ==
  ASSUME NEW in, BeginFrame(in)
  PROVE  FV1!StartSample(in)
  BY ChipArithmetic
  DEF BeginFrame, StoreInput, delay, lfos,
      FV1!StartSample, FV1!StoreInput, FV1!delay, FV1!lfos

\* An instruction finds the previous accumulator that the chip has.
LEMMA InstructionRefines ==
  ASSUME Inv, ExecuteInstruction
  PROVE  FV1!PerformNext
<1> DEFINE i == instructions_[ic]
<1>1. pc = "frame" /\ pc' = "frame" /\ Perform(i)
  BY DEF ExecuteInstruction
<1>2. FV1!Perform(i)
  BY <1>1, PerformRefines
<1>3. prev_acc = acc
  BY <1>1 DEF Inv, LocalsAgree
<1>4. FV1!Advance(i) = Advance(i)
  BY <1>1 DEF FV1!Advance, Advance, FV1!Skips, Skips
<1> QED  BY <1>1, <1>2, <1>3, <1>4 DEF ExecuteInstruction, FV1!PerformNext

\* The end of a frame is the end of a sample.
LEMMA EndFrameRefines ==
  ASSUME EndFrame
  PROVE  FV1!FinishSample
<1>1. TickAll => FV1!TickAll
  BY ChipDelay, ChipRamps, ChipSines DEF TickAll, FV1!TickAll
<1> QED  BY <1>1 DEF EndFrame, Output, FV1!FinishSample, FV1!Output

\* Every step of the virtual machine is a step of the chip or none at all.
LEMMA StepRefines ==
  ASSUME Inv, [Next]_vars
  PROVE  [FV1!Next]_FV1!chip
<1> USE DEF FV1!Next
<1>1. CASE \E program \in Programs : Compile(program)
  BY <1>1, LoadRefines
<1>2. CASE \E pots \in Pots : SetParameters(pots)
  BY <1>2, PotsRefine
<1>3. CASE \E n \in 0 .. kMaxBlock : BeginBlock(n)
  BY <1>3, BlockStutters
<1>4. CASE \E in \in Frames : BeginFrame(in)
  BY <1>4, FrameRefines
<1>5. CASE ExecuteInstruction
  BY <1>5, InstructionRefines
<1>6. CASE EndFrame
  BY <1>6, EndFrameRefines
<1>7. CASE EndBlock
  BY <1>7, BlockStutters
<1>8. CASE UNCHANGED vars
  BY <1>8 DEF vars, state_, locals, delay, lfos, FV1!chip, FV1!delay, FV1!lfos
<1> QED  BY <1>1, <1>2, <1>3, <1>4, <1>5, <1>6, <1>7, <1>8 DEF Next, Execute

\* Its initial states are the chip's.
LEMMA InitRefines == Init => FV1!Init
  BY HostAssumption
  DEF Init, FV1!Init, FV1!Register, Register, FV1!SpecialRegister, SpecialRegister,
      FV1!DelaySize, DelaySize, FV1!SF23, SF23, FV1!MIN, MIN, FV1!MAX, MAX

\* For every program and every host: cutting the samples into blocks and
\* working on copies is invisible.
THEOREM Refinement == Spec => ImplementsChip
<1>1. Init => FV1!Init
  BY InitRefines
<1>2. Inv /\ [Next]_vars => [FV1!Next]_FV1!chip
  BY StepRefines
<1> QED  BY <1>1, <1>2, Invariant, PTL DEF Spec, FV1!Spec, ImplementsChip

-----------------------------------------------------------------------------
(***************************************************************************)
(* What a Compile leaves behind.  The fresh chip has the last_read_ of the *)
(* virtual machine but for what Compile left in it.  All it computes is    *)
(* again what the virtual machine does; only the delay memory differs.     *)
(***************************************************************************)

\* The fresh chip has the arithmetic of the virtual machine.
LEMMA FreshArithmetic ==
  /\ \A v : SwitchedOn!SSAT(v) = SSAT(v)
  /\ \A a, b : SwitchedOn!Add(a, b) = Add(a, b) /\ SwitchedOn!Sub(a, b) = Sub(a, b)
  /\ \A a, b : SwitchedOn!Mul(a, b) = Mul(a, b)
  /\ \A v : SwitchedOn!ABS(v) = ABS(v) /\ SwitchedOn!NOT(v) = NOT(v)
  /\ \A a, c, b : SwitchedOn!Mac(a, c, b) = Mac(a, c, b)
<1>1. \A x : SwitchedOn!Wrap32(x) = Wrap32(x)
  BY DEF SwitchedOn!Wrap32, SwitchedOn!INT32_MIN, Wrap32, INT32_MIN
<1>2. SwitchedOn!MIN = MIN /\ SwitchedOn!MAX = MAX
  BY DEF SwitchedOn!MIN, SwitchedOn!MAX, MIN, MAX
<1>3. \A v : SwitchedOn!SSAT(v) = SSAT(v)
  BY <1>2 DEF SwitchedOn!SSAT, SSAT
<1>4. \A a, b : SwitchedOn!Add(a, b) = Add(a, b) /\ SwitchedOn!Sub(a, b) = Sub(a, b)
  BY <1>1 DEF SwitchedOn!Add, Add, SwitchedOn!Sub, Sub
<1>5. \A a, b : SwitchedOn!Mul(a, b) = Mul(a, b)
  BY <1>1 DEF SwitchedOn!Mul, Mul
<1>6. \A v : SwitchedOn!ABS(v) = ABS(v)
  BY <1>1 DEF SwitchedOn!ABS, ABS
<1>7. \A v : SwitchedOn!NOT(v) = NOT(v)
  BY <1>2 DEF SwitchedOn!NOT, NOT, SwitchedOn!SX, SX
<1>8. \A a, c, b : SwitchedOn!Mac(a, c, b) = Mac(a, c, b)
  BY <1>4, <1>5 DEF SwitchedOn!Mac, Mac
<1> QED  BY <1>3, <1>4, <1>5, <1>6, <1>7, <1>8

\* And its logical operations.
LEMMA FreshLogic ==
  \A v, m : /\ SwitchedOn!AND(v, m) = AND(v, m) /\ SwitchedOn!OR(v, m) = OR(v, m)
            /\ SwitchedOn!XOR(v, m) = XOR(v, m)
  BY DEF SwitchedOn!AND, AND, SwitchedOn!OR, OR, SwitchedOn!XOR, XOR, SwitchedOn!WithBits, WithBits,
         SwitchedOn!LowBits, LowBits, SwitchedOn!Bit, Bit, SwitchedOn!SignBit, SignBit, SwitchedOn!SF23, SF23,
         SwitchedOn!MIN, MIN, SwitchedOn!MAX, MAX

\* Its registers of the LFOs are the same.
LEMMA FreshRegisters ==
  ASSUME NEW n
  PROVE  /\ SwitchedOn!SinRate(n) = SinRate(n) /\ SwitchedOn!SinRange(n) = SinRange(n)
         /\ SwitchedOn!RmpRate(n) = RmpRate(n) /\ SwitchedOn!RmpRange(n) = RmpRange(n)
  BY DEF SwitchedOn!SinRate, SinRate, SwitchedOn!SinRange, SinRange,
         SwitchedOn!RmpRate, RmpRate, SwitchedOn!RmpRange, RmpRange

\* Its ramps have the same phase, and CHO reads the same from them.
LEMMA FreshRamps ==
  ASSUME NEW n, NEW flags
  PROVE  /\ SwitchedOn!Ramp(n)!Read(flags) = Ramp(n)!Read(flags)
         /\ SwitchedOn!Ramp(n)!NextPhase = Ramp(n)!NextPhase
<1>1. /\ SwitchedOn!Ramp(n)!AmpShift = Ramp(n)!AmpShift
      /\ SwitchedOn!Ramp(n)!Step = Ramp(n)!Step
  BY FreshRegisters
  DEF SwitchedOn!Ramp!AmpShift, Ramp!AmpShift, SwitchedOn!Ramp!Step, Ramp!Step
<1>2. SwitchedOn!Ramp(n)!Range = Ramp(n)!Range
  BY <1>1 DEF SwitchedOn!Ramp!Range, Ramp!Range, SwitchedOn!Ramp!kAmp4096, Ramp!kAmp4096
<1>3. \A x : SwitchedOn!Ramp(n)!Wrap32(x) = Ramp(n)!Wrap32(x)
  BY DEF SwitchedOn!Ramp!Wrap32, Ramp!Wrap32, SwitchedOn!Ramp!INT32_MIN, Ramp!INT32_MIN
<1>4. \A x : SwitchedOn!Ramp(n)!Complemented(flags, x) = Ramp(n)!Complemented(flags, x)
  BY <1>3 DEF SwitchedOn!Ramp!Complemented, Ramp!Complemented, SwitchedOn!Ramp!Sub, Ramp!Sub,
              SwitchedOn!Ramp!MAX, Ramp!MAX
<1>5. SwitchedOn!Ramp(n)!Crossfade = Ramp(n)!Crossfade
  BY <1>1, <1>2, <1>3
  DEF SwitchedOn!Ramp!Crossfade, Ramp!Crossfade, SwitchedOn!Ramp!Triangle, Ramp!Triangle
<1>6. SwitchedOn!Ramp(n)!ReadFade(flags) = Ramp(n)!ReadFade(flags)
  BY <1>4, <1>5 DEF SwitchedOn!Ramp!ReadFade, Ramp!ReadFade
<1>7. SwitchedOn!Ramp(n)!ReadPointer(flags) = Ramp(n)!ReadPointer(flags)
  <2>1. \A unit, x : SwitchedOn!Ramp(n)!LfoCoeffToFloat(unit, x)
                       = Ramp(n)!LfoCoeffToFloat(unit, x)
    BY DEF SwitchedOn!Ramp!LfoCoeffToFloat, Ramp!LfoCoeffToFloat
  <2>2. \A second : SwitchedOn!Ramp(n)!Pointer(second) = Ramp(n)!Pointer(second)
    BY <1>2 DEF SwitchedOn!Ramp!Pointer, Ramp!Pointer
  <2>3. SwitchedOn!Ramp(n)!OffsetUnit = Ramp(n)!OffsetUnit
    BY DEF SwitchedOn!Ramp!OffsetUnit, Ramp!OffsetUnit
  <2> QED  BY <1>2, <1>4, <2>1, <2>2, <2>3
           DEF SwitchedOn!Ramp!ReadPointer, Ramp!ReadPointer
<1> QED  BY <1>1, <1>2, <1>6, <1>7
         DEF SwitchedOn!Ramp!Read, Ramp!Read, SwitchedOn!Ramp!NextPhase, Ramp!NextPhase

\* Its sine LFOs rotate alike, and CHO reads the same from them.
LEMMA FreshSines ==
  ASSUME NEW n, NEW flags
  PROVE  /\ SwitchedOn!Sine(n)!Read(flags) = Sine(n)!Read(flags)
         /\ SwitchedOn!Sine(n)!NextSin = Sine(n)!NextSin
         /\ SwitchedOn!Sine(n)!NextCos = Sine(n)!NextCos
         /\ SwitchedOn!Sine(n)!Sin = Sine(n)!Sin /\ SwitchedOn!Sine(n)!Cos = Sine(n)!Cos
<1>1. \A x : SwitchedOn!Sine(n)!Wrap32(x) = Sine(n)!Wrap32(x)
  BY DEF SwitchedOn!Sine!Wrap32, Sine!Wrap32, SwitchedOn!Sine!INT32_MIN, Sine!INT32_MIN
<1>2. \A a, b : /\ SwitchedOn!Sine(n)!Add(a, b) = Sine(n)!Add(a, b)
                /\ SwitchedOn!Sine(n)!Sub(a, b) = Sine(n)!Sub(a, b)
                /\ SwitchedOn!Sine(n)!Mul(a, b) = Sine(n)!Mul(a, b)
  BY <1>1 DEF SwitchedOn!Sine!Add, Sine!Add, SwitchedOn!Sine!Sub, Sine!Sub, SwitchedOn!Sine!Mul, Sine!Mul
<1>3. SwitchedOn!Sine(n)!Sin = Sine(n)!Sin /\ SwitchedOn!Sine(n)!Cos = Sine(n)!Cos
  BY <1>2, FreshRegisters DEF SwitchedOn!Sine!Sin, Sine!Sin, SwitchedOn!Sine!Cos, Sine!Cos
<1>4. SwitchedOn!Sine(n)!Coefficient = Sine(n)!Coefficient
  BY FreshRegisters DEF SwitchedOn!Sine!Coefficient, Sine!Coefficient
<1>5. SwitchedOn!Sine(n)!NextCos = Sine(n)!NextCos
  BY <1>2, <1>4 DEF SwitchedOn!Sine!NextCos, Sine!NextCos
<1>6. SwitchedOn!Sine(n)!NextSin = Sine(n)!NextSin
  BY <1>2, <1>4, <1>5 DEF SwitchedOn!Sine!NextSin, Sine!NextSin
<1>7. \A x : SwitchedOn!Sine(n)!Complemented(flags, x) = Sine(n)!Complemented(flags, x)
  BY <1>2 DEF SwitchedOn!Sine!Complemented, Sine!Complemented, SwitchedOn!Sine!MAX, Sine!MAX
<1>8. \A unit, x : SwitchedOn!Sine(n)!LfoCoeffToFloat(unit, x)
                     = Sine(n)!LfoCoeffToFloat(unit, x)
  BY DEF SwitchedOn!Sine!LfoCoeffToFloat, Sine!LfoCoeffToFloat
<1>9. SwitchedOn!Sine(n)!Read(flags) = Sine(n)!Read(flags)
  BY <1>2, <1>3, <1>7, <1>8 DEF SwitchedOn!Sine!Read, Sine!Read
<1> QED  BY <1>3, <1>5, <1>6, <1>9

\* Its delay memory is the same ring buffer, and its last_read_ is the same
\* once the delay memory has been read.
LEMMA FreshDelay ==
  /\ \A j : Delay!Load(j) /\ leftover' # "hidden" => SwitchedOn!Delay!Load(j)
  /\ \A j, v : Delay!Store(j, v) /\ leftover' = leftover => SwitchedOn!Delay!Store(j, v)
  /\ Delay!Tick /\ leftover' = leftover => SwitchedOn!Delay!Tick
<1>1. SwitchedOn!DelaySize = DelaySize
  BY DEF SwitchedOn!DelaySize, DelaySize
<1>2. \A j : SwitchedOn!Delay!At(j) = Delay!At(j)
  BY <1>1 DEF SwitchedOn!Delay!At, Delay!At
<1>3. \A j : Delay!Load(j) /\ leftover' # "hidden" => SwitchedOn!Delay!Load(j)
  BY <1>2 DEF SwitchedOn!Delay!Load, Delay!Load
<1>4. \A j, v : Delay!Store(j, v) /\ leftover' = leftover => SwitchedOn!Delay!Store(j, v)
  BY <1>2 DEF SwitchedOn!Delay!Store, Delay!Store
<1>5. Delay!Tick /\ leftover' = leftover => SwitchedOn!Delay!Tick
  BY <1>1 DEF SwitchedOn!Delay!Tick, Delay!Tick
<1> QED  BY <1>3, <1>4, <1>5

\* An instruction that neither reads the delay memory nor is a WRAP cannot
\* tell what last_read_ is, and leaves it as it is.
LEMMA QuietInstruction ==
  ASSUME NEW i, pc = "frame", pc' = "frame", Perform(i), leftover' = leftover,
         ~ReadsDelay(i), i.opcode # "WRAP"
  PROVE  SwitchedOn!Perform(i)
<1> USE FreshArithmetic
<1>1. CASE RDAX(i) \/ RDFX(i) \/ MULX(i) \/ LDAX(i) \/ SOF(i) \/ CLR(i) \/ ABSA(i)
  BY <1>1 DEF SwitchedOn!Perform, SwitchedOn!RDAX, RDAX, SwitchedOn!RDFX, RDFX,
              SwitchedOn!MULX, MULX, SwitchedOn!LDAX, LDAX, SwitchedOn!SOF, SOF,
              SwitchedOn!CLR, CLR, SwitchedOn!ABSA, ABSA, SwitchedOn!Store, Store,
              SwitchedOn!Set, Set, SwitchedOn!delay, delay, SwitchedOn!lfos, lfos
<1>2. CASE MAXX(i)
  BY <1>2 DEF SwitchedOn!Perform, SwitchedOn!MAXX, MAXX, SwitchedOn!Store, Store,
              SwitchedOn!Set, Set, SwitchedOn!delay, delay, SwitchedOn!lfos, lfos
<1>3. CASE AndMask(i) \/ OrMask(i) \/ XorMask(i) \/ NotAcc(i)
  BY <1>3, FreshLogic
  DEF SwitchedOn!Perform, SwitchedOn!AndMask, AndMask, SwitchedOn!OrMask, OrMask,
      SwitchedOn!XorMask, XorMask, SwitchedOn!NotAcc, NotAcc, SwitchedOn!Set, Set,
      SwitchedOn!delay, delay, SwitchedOn!lfos, lfos
<1>4. CASE NOP(i)
  BY <1>4 DEF SwitchedOn!Perform, SwitchedOn!NOP, NOP, SwitchedOn!delay, delay,
              SwitchedOn!lfos, lfos
<1>5. CASE WRA(i)
  <2>1. \A sum : WriteDelay(i, sum) => SwitchedOn!WriteDelay(i, sum)
    BY FreshDelay DEF SwitchedOn!WriteDelay, WriteDelay, SwitchedOn!lfos, lfos
  <2> QED  BY <1>5, <2>1 DEF SwitchedOn!Perform, SwitchedOn!WRA, WRA
<1>6. CASE WRAX(i) \/ WRHX(i) \/ WRLX(i)
  <2>1. \A sum : WriteRegister(i, sum) => SwitchedOn!WriteRegister(i, sum)
    BY DEF SwitchedOn!WriteRegister, WriteRegister, SwitchedOn!delay, delay,
           SwitchedOn!lfos, lfos
  <2> QED  BY <1>6, <2>1
           DEF SwitchedOn!Perform, SwitchedOn!WRAX, WRAX, SwitchedOn!WRHX, WRHX,
               SwitchedOn!WRLX, WRLX
<1>7. CASE WLDS(i) \/ WLDR(i) \/ JAM(i)
  BY <1>7, FreshRegisters
  DEF SwitchedOn!Perform, SwitchedOn!WLDS, WLDS, SwitchedOn!WLDR, WLDR,
      SwitchedOn!JAM, JAM, SwitchedOn!MIN, MIN, SwitchedOn!delay, delay
<1>8. CASE CHO_RDAL(i)
  <2>1. SwitchedOn!ReadLfo(i.n) = ReadLfo(i.n)
    BY FreshSines DEF SwitchedOn!ReadLfo, ReadLfo
  <2> QED  BY <1>8, <2>1
           DEF SwitchedOn!Perform, SwitchedOn!CHO_RDAL, CHO_RDAL,
               SwitchedOn!Store, Store, SwitchedOn!Set, Set,
               SwitchedOn!delay, delay, SwitchedOn!lfos, lfos
<1>9. CASE CHO_SOF_RMP(i) \/ CHO_SOF_SIN(i)
  BY <1>9, FreshRamps, FreshSines
  DEF SwitchedOn!Perform, SwitchedOn!CHO_SOF_RMP, CHO_SOF_RMP,
      SwitchedOn!CHO_SOF_SIN, CHO_SOF_SIN, SwitchedOn!Store, Store,
      SwitchedOn!Set, Set, SwitchedOn!delay, delay, SwitchedOn!lfos, lfos
<1>10. CASE \/ RDA(i) \/ RMPA(i) \/ WRAP(i) \/ CHO_RDA_RMP(i) \/ CHO_RDA_SIN(i)
  BY <1>10 DEF ReadsDelay, RDA, RMPA, WRAP, CHO_RDA_RMP, CHO_RDA_SIN
<1> QED  BY <1>1, <1>2, <1>3, <1>4, <1>5, <1>6, <1>7, <1>8, <1>9, <1>10 DEF Perform

\* A read of the delay memory overwrites what Compile has left.
LEMMA ReadingInstruction ==
  ASSUME NEW i, pc = "frame", pc' = "frame", Perform(i), leftover' # "hidden",
         ReadsDelay(i)
  PROVE  SwitchedOn!Perform(i)
<1>1. \A addr, c : ReadDelay(addr, c) => SwitchedOn!ReadDelay(addr, c)
  BY FreshDelay, FreshArithmetic
  DEF SwitchedOn!ReadDelay, ReadDelay, SwitchedOn!Delay!Load, Delay!Load,
      SwitchedOn!lfos, lfos
<1>2. CASE RDA(i)
  BY <1>1, <1>2 DEF SwitchedOn!Perform, SwitchedOn!RDA, RDA
<1>3. CASE RMPA(i)
  BY <1>1, <1>3
  DEF SwitchedOn!Perform, SwitchedOn!RMPA, RMPA, SwitchedOn!DelaySize, DelaySize
<1>4. CASE CHO_RDA_RMP(i) \/ CHO_RDA_SIN(i)
  BY <1>1, <1>4, FreshRamps, FreshSines
  DEF SwitchedOn!Perform, SwitchedOn!CHO_RDA_RMP, CHO_RDA_RMP,
      SwitchedOn!CHO_RDA_SIN, CHO_RDA_SIN
<1>5. RDA(i) \/ RMPA(i) \/ CHO_RDA_RMP(i) \/ CHO_RDA_SIN(i)
  BY DEF Perform, ReadsDelay, RDAX, RDFX, MAXX, MULX, LDAX, SOF, CLR, ABSA, AndMask,
         OrMask, XorMask, NotAcc, NOP, RDA, RMPA, WRA, WRAP, WRAX, WRHX, WRLX, WLDS,
         WLDR, JAM, CHO_RDAL, CHO_RDA_RMP, CHO_RDA_SIN, CHO_SOF_RMP, CHO_SOF_SIN
<1> QED  BY <1>2, <1>3, <1>4, <1>5

\* A WRAP after the first read feeds back what the fresh chip has read, too.
LEMMA FeedbackInstruction ==
  ASSUME NEW i, pc = "frame", pc' = "frame", Perform(i), i.opcode = "WRAP",
         leftover = "gone", leftover' = "gone"
  PROVE  SwitchedOn!Perform(i)
<1>1. \A sum : WriteDelay(i, sum) => SwitchedOn!WriteDelay(i, sum)
  BY FreshDelay, FreshArithmetic
  DEF SwitchedOn!WriteDelay, WriteDelay, SwitchedOn!lfos, lfos
<1>2. WRAP(i)
  BY DEF Perform, RDAX, RDFX, MAXX, MULX, LDAX, SOF, CLR, ABSA, AndMask,
         OrMask, XorMask, NotAcc, NOP, RDA, RMPA, WRA, WRAP, WRAX, WRHX, WRLX, WLDS,
         WLDR, JAM, CHO_RDAL, CHO_RDA_RMP, CHO_RDA_SIN, CHO_SOF_RMP, CHO_SOF_SIN
<1> QED  BY <1>1, <1>2, FreshArithmetic DEF SwitchedOn!Perform, SwitchedOn!WRAP, WRAP

\* So an instruction does what it does on the fresh chip, unless what Compile
\* has left is fed back here or has been before.
LEMMA InstructionForgets ==
  ASSUME Inv, ExecuteInstruction
  PROVE  SwitchedOn!PerformNext \/ leftover' = "audible"
<1> SUFFICES ASSUME leftover' # "audible"
             PROVE  SwitchedOn!PerformNext
  OBVIOUS
<1> DEFINE i == instructions_[ic]
<1>1. /\ pc = "frame" /\ pc' = "frame" /\ Perform(i) /\ leftover' = Leftover(i)
      /\ leftover \in {"hidden", "gone", "audible"}
  BY DEF ExecuteInstruction, Inv, HostTyped
<1>2. SwitchedOn!Perform(i)
  <2> HIDE DEF i
  <2>1. CASE ReadsDelay(i)
    <3>1. leftover' # "hidden"
      BY <1>1, <2>1 DEF Leftover
    <3> QED  BY <1>1, <2>1, <3>1, ReadingInstruction
  <2>2. CASE i.opcode = "WRAP"
    <3>1. leftover = "gone" /\ leftover' = "gone"
      BY <1>1, <2>2 DEF Leftover, ReadsDelay
    <3> QED  BY <1>1, <2>2, <3>1, FeedbackInstruction
  <2>3. CASE ~ReadsDelay(i) /\ i.opcode # "WRAP"
    <3>1. leftover' = leftover
      BY <1>1, <2>3 DEF Leftover
    <3> QED  BY <1>1, <2>3, <3>1, QuietInstruction
  <2> QED  BY <2>1, <2>2, <2>3
<1>3. prev_acc = acc
  BY <1>1 DEF Inv, LocalsAgree
<1>4. SwitchedOn!Advance(i) = Advance(i)
  BY <1>1 DEF SwitchedOn!Advance, Advance, SwitchedOn!Skips, Skips
<1> QED  BY <1>1, <1>2, <1>3, <1>4 DEF ExecuteInstruction, SwitchedOn!PerformNext

\* Compile switches the chip on.
LEMMA CompileForgets ==
  ASSUME NEW p, Compile(p)
  PROVE  SwitchedOn!PowerUp(p)
<1>1. buffer_' = [s \in 0 .. DelaySize - 1 |-> 0] /\ cursor_' = 0
  BY DEF Compile, ClearAll, Delay!Reset, Delay!Slots
<1>2. SwitchedOn!DelaySize = DelaySize /\ SwitchedOn!Register = Register
  BY DEF SwitchedOn!DelaySize, DelaySize, SwitchedOn!Register, Register,
         SwitchedOn!SpecialRegister, SpecialRegister
<1> QED  BY <1>1, <1>2
         DEF Compile, ClearAll, locals, SwitchedOn!PowerUp, SwitchedOn!MIN, MIN

\* The other steps are the chip's as well, and the limits of a block none.
LEMMA OthersForget ==
  /\ \A pots : SetParameters(pots) => SwitchedOn!TurnPots(pots)
  /\ \A in : BeginFrame(in) => SwitchedOn!StartSample(in)
  /\ EndFrame => SwitchedOn!FinishSample
  /\ EndBlock \/ (\E n : BeginBlock(n)) => UNCHANGED SwitchedOn!chip
<1>1. ASSUME NEW pots, SetParameters(pots)
      PROVE  SwitchedOn!TurnPots(pots)
  BY <1>1, FreshArithmetic
  DEF SetParameters, StorePots, locals, delay, lfos,
      SwitchedOn!TurnPots, SwitchedOn!StorePots, SwitchedOn!delay, SwitchedOn!lfos
<1>2. ASSUME NEW in, BeginFrame(in)
      PROVE  SwitchedOn!StartSample(in)
  BY <1>2, FreshArithmetic
  DEF BeginFrame, StoreInput, delay, lfos,
      SwitchedOn!StartSample, SwitchedOn!StoreInput, SwitchedOn!delay, SwitchedOn!lfos
<1>3. EndFrame => SwitchedOn!FinishSample
  <2>1. TickAll /\ leftover' = leftover => SwitchedOn!TickAll
    BY FreshDelay, FreshRamps, FreshSines DEF TickAll, SwitchedOn!TickAll
  <2> QED  BY <2>1 DEF EndFrame, Output, SwitchedOn!FinishSample, SwitchedOn!Output
<1>4. EndBlock \/ (\E n : BeginBlock(n)) => UNCHANGED SwitchedOn!chip
  BY DEF BeginBlock, EndBlock, state_, locals, delay, lfos,
         SwitchedOn!chip, SwitchedOn!delay, SwitchedOn!lfos
<1> QED  BY <1>1, <1>2, <1>3, <1>4

\* For every sequence of programs, blocks and pots: a program cannot tell what
\* ran before it, unless it executes a WRAP before it has read the delay memory.
THEOREM ProgramsStartFresh == Spec => ForgetsEarlierPrograms
<1>1. Init => SwitchedOn!Init
  BY HostAssumption
  DEF Init, SwitchedOn!Init, SwitchedOn!Register, Register,
      SwitchedOn!SpecialRegister, SpecialRegister, SwitchedOn!DelaySize, DelaySize,
      SwitchedOn!SF23, SF23, SwitchedOn!MIN, MIN, SwitchedOn!MAX, MAX
<1>2. Inv /\ [Next]_vars =>
        [SwitchedOn!FreshNext \/ leftover' = "audible"]_(SwitchedOn!chip)
  <2> SUFFICES ASSUME Inv, [Next]_vars
               PROVE  [SwitchedOn!FreshNext \/ leftover' = "audible"]_(SwitchedOn!chip)
    OBVIOUS
  <2> USE DEF SwitchedOn!FreshNext
  <2>1. CASE \E program \in Programs : Compile(program)
    BY <2>1, CompileForgets
  <2>2. CASE \E pots \in Pots : SetParameters(pots)
    BY <2>2, OthersForget
  <2>3. CASE \E n \in 0 .. kMaxBlock : BeginBlock(n)
    BY <2>3, OthersForget
  <2>4. CASE \E in \in Frames : BeginFrame(in)
    BY <2>4, OthersForget
  <2>5. CASE ExecuteInstruction
    BY <2>5, InstructionForgets
  <2>6. CASE EndFrame
    BY <2>6, OthersForget
  <2>7. CASE EndBlock
    BY <2>7, OthersForget
  <2>8. CASE UNCHANGED vars
    BY <2>8 DEF vars, state_, locals, delay, lfos,
                SwitchedOn!chip, SwitchedOn!delay, SwitchedOn!lfos
  <2> QED  BY <2>1, <2>2, <2>3, <2>4, <2>5, <2>6, <2>7, <2>8 DEF Next, Execute
<1> QED  BY <1>1, <1>2, Invariant, PTL DEF Spec, ForgetsEarlierPrograms

-----------------------------------------------------------------------------
(***************************************************************************)
(* The echo.  Seen from the cursor the delay memory holds the latest       *)
(* inputs, whatever was in it before the Compile that cleared it.          *)
(***************************************************************************)

\* What tap a of the delay memory holds.
Tap(a) == buffer_[Delay!At(a)]

\* Where the echo program is in a frame, after n frames and in the n-th.
EchoFrame(time, n) ==
  /\ registers["ADCL"] = Sample(heard, n)
  /\ ic \in {1, 3} => acc = 0
  /\ ic = 2 => acc = Sample(heard, n)
  /\ ic >= 3 => Tap(0) = Sample(heard, n)
  /\ ic = 4 => acc = Sample(heard, n - time)
  /\ ic >= 5 => registers["DACL"] = Sample(heard, n - time)

\* The inductive invariant of the echo.  The frame that is at work has not
\* moved the delay memory yet.
EchoInv(time) ==
  LET n == Len(heard)
  IN  instructions_ = Echo(time) =>
        /\ pc = "frame" => /\ n > 0 /\ EchoFrame(time, n)
                           /\ \A a \in 1 .. DelaySize - 1 : Tap(a) = Sample(heard, n - a)
        /\ pc # "frame" => /\ n > 0 => out[1] = Sample(heard, n - time)
                           /\ \A a \in 1 .. DelaySize - 1 : Tap(a) = Sample(heard, n + 1 - a)

\* The remainders of n numbers in a row are all different, and those of
\* neighbours are neighbours.
LEMMA TapsDiffer ==
  ASSUME NEW n \in Nat \ {0}, NEW c \in 0 .. n - 1, NEW a \in 0 .. n - 1
  PROVE  /\ (c + a) % n = IF c + a < n THEN c + a ELSE c + a - n
         /\ (c + a) % n \in 0 .. n - 1
<1>1. CASE c + a < n
  <2>1. c + a \in 0 .. n - 1
    BY <1>1
  <2>2. (c + a) % n = c + a
    BY <2>1, RemainderOfSmall
  <2> QED  BY <1>1, <2>1, <2>2
<1>2. CASE c + a >= n
  <2>1. c + a - n \in 0 .. n - 1 /\ c + a = n * 1 + (c + a - n) /\ 1 \in Int /\ c + a \in Int
    BY <1>2
  <2>2. (c + a) % n = c + a - n
    BY <2>1, QuotientUnique
  <2> QED  BY <1>2, <2>1, <2>2
<1> QED  BY <1>1, <1>2

\* So a store changes its own tap only, and a tick moves every tap on by one.
LEMMA TapsMove ==
  ASSUME Inv
  PROVE  /\ \A a \in 0 .. DelaySize - 1 :
              Delay!At(a) \in 0 .. DelaySize - 1 /\ (Delay!At(a) = Delay!At(0) => a = 0)
         /\ Delay!Tick => \A a \in 1 .. DelaySize - 1 : Tap(a)' = Tap(a - 1)
<1> DEFINE n == DelaySize
<1>1. n \in Nat \ {0} /\ cursor_ \in 0 .. n - 1
  BY DelaySizePositive DEF Inv, Typed
<1>2. \A a \in 0 .. n - 1 :
        /\ Delay!At(a) = IF cursor_ + a < n THEN cursor_ + a ELSE cursor_ + a - n
        /\ Delay!At(a) \in 0 .. n - 1
  <2> HIDE DEF n
  <2>1. \A a \in 0 .. n - 1 : Delay!At(a) = (cursor_ + a) % n
    BY DEF Delay!At, n
  <2> QED  BY <1>1, <2>1, TapsDiffer
<1>3. ASSUME Delay!Tick, NEW a \in 1 .. n - 1
      PROVE  Tap(a)' = Tap(a - 1)
  <2>1. /\ cursor_' = IF cursor_ # 0 THEN cursor_ - 1 ELSE n - 1
        /\ buffer_' = buffer_
    BY <1>3 DEF Delay!Tick
  <2>2. Delay!At(a)' = (cursor_' + a) % n
    BY DEF Delay!At
  <2> HIDE DEF n
  <2>3. cursor_' \in 0 .. n - 1 /\ a \in 0 .. n - 1 /\ a - 1 \in 0 .. n - 1
    BY <1>1, <2>1
  <2>4. (cursor_' + a) % n = IF cursor_' + a < n THEN cursor_' + a ELSE cursor_' + a - n
    BY <1>1, <2>3, TapsDiffer
  <2>5. Delay!At(a)' = Delay!At(a - 1)
    BY <1>1, <1>2, <2>1, <2>2, <2>3, <2>4
  <2> QED  BY <2>1, <2>5 DEF Tap
<1>4. \A a \in 0 .. n - 1 : Delay!At(a) = Delay!At(0) => a = 0
  <2> HIDE DEF n
  <2>1. 0 \in 0 .. n - 1
    BY <1>1
  <2> QED  BY <1>1, <1>2, <2>1
<1> QED  BY <1>2, <1>3, <1>4

\* Samples are SF23 values, and those of the past stay.
LEMMA SamplesStay ==
  /\ \A k : Sample(<<>>, k) = 0
  /\ \A h \in Seq(Frames), k \in Int : Sample(h, k) \in SF23
  /\ \A h \in Seq(Frames), in \in Frames :
       /\ Len(h) \in Nat /\ Len(Append(h, in)) = Len(h) + 1
       /\ \A k \in Int : Sample(Append(h, in), k)
                           = IF k = Len(h) + 1 THEN SSAT(in[1]) ELSE Sample(h, k)
<1>1. 0 \in SF23
  BY RangeAssumption DEF SF23, MIN, MAX
<1>2. ASSUME NEW k
      PROVE  Sample(<<>>, k) = 0
  <2>1. k \notin 1 .. Len(<<>>)
    OBVIOUS
  <2> QED  BY <2>1 DEF Sample
<1>3. ASSUME NEW h \in Seq(Frames), NEW k \in Int
      PROVE  Sample(h, k) \in SF23
  <2>1. CASE k \in 1 .. Len(h)
    <3>1. h[k] \in Frames
      BY <2>1
    <3>2. h[k][1] \in Int
      BY <3>1, HostInput
    <3> QED  BY <2>1, <3>2, SsatInRange DEF Sample
  <2> QED  BY <1>1, <2>1 DEF Sample
<1>4. ASSUME NEW h \in Seq(Frames), NEW in \in Frames
      PROVE  /\ Len(h) \in Nat /\ Len(Append(h, in)) = Len(h) + 1
             /\ \A k \in Int : Sample(Append(h, in), k)
                                 = IF k = Len(h) + 1 THEN SSAT(in[1]) ELSE Sample(h, k)
  <2> DEFINE n == Len(h)
             g == Append(h, in)
  <2>1. n \in Nat /\ Len(g) = n + 1 /\ g[n + 1] = in /\ \A k \in 1 .. n : g[k] = h[k]
    OBVIOUS
  <2> HIDE DEF n, g
  <2>2. ASSUME NEW k \in Int
        PROVE  Sample(g, k) = IF k = n + 1 THEN SSAT(in[1]) ELSE Sample(h, k)
    <3>1. /\ k \in 1 .. n + 1 <=> k \in 1 .. n \/ k = n + 1
          /\ n + 1 \notin 1 .. n
      BY <2>1
    <3>2. Sample(g, k) = IF k \in 1 .. n + 1 THEN SSAT(g[k][1]) ELSE 0
      BY <2>1 DEF Sample
    <3>3. Sample(h, k) = IF k \in 1 .. n THEN SSAT(h[k][1]) ELSE 0
      BY DEF Sample, n
    <3> QED  BY <2>1, <3>1, <3>2, <3>3
  <2> QED  BY <2>1, <2>2 DEF n, g
<1> QED  BY <1>2, <1>3, <1>4

\* A coefficient of 1.0 leaves a sample as it is, and one of 0 nothing of it.
LEMMA UnitProduct ==
  ASSUME NEW v \in SF23
  PROVE  SSAT(Mac(v, kIntRange, 0)) = v /\ SSAT(Mul(v, 0)) = 0
<1>1. /\ 0 \in SF23 /\ v \in Int /\ v \in -2 * kIntRange .. 2 * kIntRange
      /\ kIntRange \in -2 * kIntRange .. 2 * kIntRange - 1
      /\ 0 \in -2 * kIntRange .. 2 * kIntRange
  BY RangeAssumption DEF SF23, MIN, MAX
<1>2. Mac(v, kIntRange, 0) = ((v * kIntRange) \div kIntRange) + 0
  BY <1>1, MacExact
<1>3. Mul(v, 0) = (v * 0) \div kIntRange
  BY <1>1, MulExact
<1>4. (v * kIntRange) \div kIntRange = v
  <2> DEFINE p == v * kIntRange
  <2>1. p \in Int /\ p = kIntRange * v + 0 /\ 0 \in 0 .. kIntRange - 1
    BY <1>1, RangeAssumption
  <2> HIDE DEF p
  <2>2. p \div kIntRange = v
    BY <1>1, <2>1, RangeAssumption, QuotientUnique
  <2> QED  BY <2>2 DEF p
<1>5. (v * 0) \div kIntRange = 0
  BY <1>1, RangeAssumption
<1>6. SSAT(v) = v /\ SSAT(0) = 0
  BY <1>1, RangeAssumption DEF SSAT, SF23, MIN, MAX
<1> QED  BY <1>1, <1>2, <1>3, <1>4, <1>5, <1>6

\* The instructions of the echo program, and what Perform makes of each.
LEMMA EchoPerforms ==
  ASSUME NEW time, NEW k \in 0 .. kMaxInstructionCount - 1, Perform(Echo(time)[k])
  PROVE  /\ k = 0 => Store(0)
         /\ k = 1 => Store(Mac(registers["ADCL"], kIntRange, acc))
         /\ k = 2 => /\ Delay!Store(0, acc) /\ acc' = SSAT(Mul(acc, 0))
                     /\ UNCHANGED <<registers, lfos>>
         /\ k = 3 => ReadDelay(time, kIntRange)
         /\ k = 4 => /\ registers' = [registers EXCEPT !["DACL"] = acc]
                     /\ acc' = SSAT(Mul(acc, 0)) /\ UNCHANGED <<delay, lfos>>
         /\ k >= 5 => UNCHANGED <<acc, registers, delay, lfos>>
         /\ Advance(Echo(time)[k]) = 1
<1> DEFINE i == Echo(time)[k]
<1>1. /\ k = 0 => i = [opcode |-> "CLR"]
      /\ k = 1 => i = [opcode |-> "RDAX", addr |-> "ADCL", c |-> kIntRange]
      /\ k = 2 => i = [opcode |-> "WRA", addr |-> 0, c |-> 0]
      /\ k = 3 => i = [opcode |-> "RDA", addr |-> time, c |-> kIntRange]
      /\ k = 4 => i = [opcode |-> "WRAX", addr |-> "DACL", c |-> 0]
      /\ k >= 5 => i = [opcode |-> "NOP"]
  <2>1. i = IF k < 5 THEN EchoText(time)[k + 1] ELSE [opcode |-> "NOP"]
    BY DEF Echo
  <2> HIDE DEF i
  <2>2. k \in 0 .. 4 \/ k >= 5
    BY CountAssumption
  <2>3. /\ EchoText(time)[1] = [opcode |-> "CLR"]
        /\ EchoText(time)[2] = [opcode |-> "RDAX", addr |-> "ADCL", c |-> kIntRange]
        /\ EchoText(time)[3] = [opcode |-> "WRA", addr |-> 0, c |-> 0]
        /\ EchoText(time)[4] = [opcode |-> "RDA", addr |-> time, c |-> kIntRange]
        /\ EchoText(time)[5] = [opcode |-> "WRAX", addr |-> "DACL", c |-> 0]
    BY DEF EchoText
  <2> QED  BY <2>1, <2>2, <2>3
<1> HIDE DEF i
<1>2. Perform(i)
  BY DEF i
<1>3. /\ i.opcode = "CLR" => CLR(i)
      /\ i.opcode = "RDAX" => RDAX(i)
      /\ i.opcode = "WRA" => WRA(i)
      /\ i.opcode = "RDA" => RDA(i)
      /\ i.opcode = "WRAX" => WRAX(i)
      /\ i.opcode = "NOP" => NOP(i)
  BY <1>2 DEF Perform, RDAX, RDFX, MAXX, MULX, LDAX, SOF, CLR, ABSA, AndMask, OrMask,
         XorMask, NotAcc, NOP, RDA, RMPA, WRA, WRAP, WRAX, WRHX, WRLX, WLDS, WLDR,
         JAM, CHO_RDAL, CHO_RDA_RMP, CHO_RDA_SIN, CHO_SOF_RMP, CHO_SOF_SIN
<1>4. k \in 0 .. 4 \/ k >= 5
  BY CountAssumption
<1>5. Advance(i) = 1
  BY <1>1, <1>4 DEF Advance, Skips
<1>6. /\ k = 0 => Store(0)
      /\ k = 1 => Store(Mac(registers["ADCL"], kIntRange, acc))
      /\ k = 3 => ReadDelay(time, kIntRange)
      /\ k >= 5 => UNCHANGED <<acc, registers, delay, lfos>>
  BY <1>1, <1>3 DEF CLR, RDAX, RDA, NOP
<1>7. k = 2 => /\ Delay!Store(0, acc) /\ acc' = SSAT(Mul(acc, 0))
               /\ UNCHANGED <<registers, lfos>>
  BY <1>1, <1>3 DEF WRA, WriteDelay
<1>8. k = 4 => /\ registers' = [registers EXCEPT !["DACL"] = acc]
               /\ acc' = SSAT(Mul(acc, 0)) /\ UNCHANGED <<delay, lfos>>
  BY <1>1, <1>3 DEF WRAX, WriteRegister
<1> QED  BY <1>5, <1>6, <1>7, <1>8 DEF i

\* An instruction of the echo program keeps the invariant.
LEMMA EchoExecutes ==
  ASSUME Inv, NEW time \in 0 .. DelaySize - 1, EchoInv(time), instructions_ = Echo(time),
         ExecuteInstruction
  PROVE  EchoInv(time)'
<1> DEFINE n == Len(heard)
<1>1. /\ pc = "frame" /\ pc' = "frame" /\ heard' = heard
      /\ ic \in 0 .. kMaxInstructionCount - 1
      /\ Perform(Echo(time)[ic])
      /\ ic' = ic + Advance(Echo(time)[ic])
  <2>1. /\ pc = "frame" /\ pc' = pc /\ heard' = heard /\ ic < kMaxInstructionCount
        /\ Perform(instructions_[ic])
        /\ ic' = ic + Advance(instructions_[ic])
    BY Zenon DEF ExecuteInstruction
  <2>2. ic \in Nat
    BY DEF Inv, Typed, HostTyped
  <2>3. ic \in 0 .. kMaxInstructionCount - 1
    BY <2>1, <2>2, CountAssumption
  <2> QED  BY <2>1, <2>3, Zenon
<1>2. ic' = ic + 1
  BY <1>1, EchoPerforms
<1>3. /\ n > 0 /\ n \in Nat /\ EchoFrame(time, n)
      /\ \A a \in 1 .. DelaySize - 1 : Tap(a) = Sample(heard, n - a)
  BY <1>1, SamplesStay DEF EchoInv, Inv, HostTyped
<1>4. \A k \in Int : Sample(heard, k) \in SF23
  BY SamplesStay DEF Inv, HostTyped
<1>5. \A a \in 0 .. DelaySize - 1 :
        Delay!At(a) \in 0 .. DelaySize - 1 /\ (Delay!At(a) = Delay!At(0) => a = 0)
  BY TapsMove
<1>6. UNCHANGED <<buffer_, cursor_>> => \A a : Tap(a)' = Tap(a)
  BY DEF Tap, Delay!At
<1>7. DelaySize \in Nat \ {0} /\ time \in Int
  BY DelaySizePositive
<1>8. SUFFICES /\ registers'["ADCL"] = Sample(heard, n)
               /\ ic' \in {1, 3} => acc' = 0
               /\ ic' = 2 => acc' = Sample(heard, n)
               /\ ic' >= 3 => Tap(0)' = Sample(heard, n)
               /\ ic' = 4 => acc' = Sample(heard, n - time)
               /\ ic' >= 5 => registers'["DACL"] = Sample(heard, n - time)
               /\ \A a \in 1 .. DelaySize - 1 : Tap(a)' = Sample(heard, n - a)
  <2>1. Len(heard') = n
    BY <1>1
  <2> QED  BY <1>1, <1>3, <2>1 DEF EchoInv, EchoFrame
<1>9. SSAT(0) = 0 /\ "ADCL" # "DACL" /\ {"ADCL", "DACL"} \subseteq DOMAIN registers
  <2>1. SSAT(0) = 0
    BY RangeAssumption DEF SSAT, MIN, MAX
  <2> QED  BY <2>1, HostRegisters DEF Inv, Typed
<1>10. /\ n - time \in Int /\ Sample(heard, n) \in SF23 /\ Sample(heard, n - time) \in SF23
  BY <1>3, <1>4, <1>7
<1> HIDE DEF n
<1>11. CASE ic = 0
  <2>1. Store(0)
    BY <1>1, <1>11, EchoPerforms
  <2>2. acc' = 0 /\ UNCHANGED <<registers, buffer_, cursor_>>
    BY <1>9, <2>1 DEF Store, Set, delay
  <2> QED  BY <1>2, <1>3, <1>6, <1>11, <2>2 DEF EchoFrame
<1>12. CASE ic = 1
  <2>1. Store(Mac(registers["ADCL"], kIntRange, acc))
    BY <1>1, <1>12, EchoPerforms
  <2>2. acc = 0 /\ registers["ADCL"] = Sample(heard, n)
    BY <1>3, <1>12 DEF EchoFrame
  <2>3. acc' = Sample(heard, n) /\ UNCHANGED <<registers, buffer_, cursor_>>
    BY <1>10, <2>1, <2>2, UnitProduct DEF Store, Set, delay
  <2> QED  BY <1>2, <1>3, <1>6, <1>12, <2>3 DEF EchoFrame
<1>13. CASE ic = 2
  <2>1. /\ Delay!Store(0, acc) /\ acc' = SSAT(Mul(acc, 0)) /\ UNCHANGED <<registers, lfos>>
    BY <1>1, <1>13, EchoPerforms
  <2>2. acc = Sample(heard, n) /\ registers["ADCL"] = Sample(heard, n)
    BY <1>3, <1>13 DEF EchoFrame
  <2>3. acc' = 0
    BY <1>10, <2>1, <2>2, UnitProduct
  <2>4. /\ buffer_' = [buffer_ EXCEPT ![Delay!At(0)] = acc] /\ cursor_' = cursor_
        /\ DOMAIN buffer_ = 0 .. DelaySize - 1
    BY <2>1 DEF Delay!Store, Inv, Typed
  <2>5. \A a : Delay!At(a)' = Delay!At(a)
    BY <2>4 DEF Delay!At
  <2>6. Tap(0)' = acc /\ \A a \in 1 .. DelaySize - 1 : Tap(a)' = Tap(a)
    <3>1. 0 \in 0 .. DelaySize - 1 /\ \A a \in 1 .. DelaySize - 1 : a # 0 /\ a \in 0 .. DelaySize - 1
      BY <1>7
    <3> QED  BY <1>5, <2>4, <2>5, <3>1 DEF Tap
  <2> QED  BY <1>2, <1>3, <1>13, <2>1, <2>2, <2>3, <2>6
<1>14. CASE ic = 3
  <2>1. ReadDelay(time, kIntRange)
    BY <1>1, <1>14, EchoPerforms
  <2>2. /\ last_read_' = Tap(time) /\ acc' = SSAT(Mac(Tap(time), kIntRange, acc))
        /\ UNCHANGED <<registers, buffer_, cursor_>>
    BY <2>1 DEF ReadDelay, Delay!Load, Tap
  <2>3. acc = 0 /\ Tap(0) = Sample(heard, n)
    BY <1>3, <1>14 DEF EchoFrame
  <2>4. Tap(time) = Sample(heard, n - time)
    <3>1. CASE time = 0
      <4>1. n - time = n
        BY <1>3, <3>1
      <4> QED  BY <2>3, <3>1, <4>1
    <3>2. CASE time # 0
      <4>1. time \in 1 .. DelaySize - 1
        BY <1>7, <3>2
      <4> QED  BY <1>3, <4>1
    <3> QED  BY <3>1, <3>2
  <2>5. acc' = Sample(heard, n - time)
    BY <1>10, <2>2, <2>3, <2>4, UnitProduct
  <2> QED  BY <1>2, <1>3, <1>6, <1>14, <2>2, <2>3, <2>5 DEF EchoFrame
<1>15. CASE ic = 4
  <2>1. /\ registers' = [registers EXCEPT !["DACL"] = acc] /\ UNCHANGED <<buffer_, cursor_>>
    BY <1>1, <1>15, EchoPerforms DEF delay
  <2>2. acc = Sample(heard, n - time) /\ Tap(0) = Sample(heard, n)
        /\ registers["ADCL"] = Sample(heard, n)
    BY <1>3, <1>15 DEF EchoFrame
  <2>3. registers'["DACL"] = acc /\ registers'["ADCL"] = registers["ADCL"]
    BY <1>9, <2>1
  <2> QED  BY <1>2, <1>3, <1>6, <1>15, <2>1, <2>2, <2>3
<1>16. CASE ic >= 5
  <2>1. UNCHANGED <<acc, registers, buffer_, cursor_>>
    BY <1>1, <1>16, EchoPerforms DEF delay
  <2> QED  BY <1>1, <1>2, <1>3, <1>6, <1>16, <2>1 DEF EchoFrame
<1>17. ic \in 0 .. 4 \/ ic >= 5
  BY <1>1, CountAssumption
<1> QED  BY <1>11, <1>12, <1>13, <1>14, <1>15, <1>16, <1>17

\* The host's calls and the ends of a frame and of a block keep it, for every
\* program: a Compile silences the delay memory, a tick moves it on.
LEMMA EchoNext ==
  ASSUME kMaxInstructionCount >= 5, Inv, [Next]_vars,
         NEW time \in 0 .. DelaySize - 1, EchoInv(time)
  PROVE  EchoInv(time)'
<1> SUFFICES ASSUME instructions_' = Echo(time)
             PROVE  EchoInv(time)'
  BY DEF EchoInv
<1> DEFINE n == Len(heard)
<1>1. /\ heard \in Seq(Frames) /\ n \in Nat /\ DelaySize \in Nat \ {0}
      /\ pc \in {"idle", "loop", "frame"}
  BY DelaySizePositive DEF Inv, HostTyped
<1>2. UNCHANGED <<buffer_, cursor_>> => \A a : Tap(a)' = Tap(a)
  BY DEF Tap, Delay!At
<1>3. ASSUME UNCHANGED <<delay, instructions_, heard, out>>, pc # "frame", pc' # "frame"
      PROVE  EchoInv(time)'
  <2>1. UNCHANGED <<buffer_, cursor_>>
    BY <1>3 DEF delay
  <2>2. heard' = heard /\ out' = out /\ instructions_ = Echo(time)
    BY <1>3
  <2>3. /\ n > 0 => out[1] = Sample(heard, n - time)
        /\ \A a \in 1 .. DelaySize - 1 : Tap(a) = Sample(heard, n + 1 - a)
    BY <1>3, <2>2 DEF EchoInv
  <2> QED  BY <1>2, <1>3, <2>1, <2>2, <2>3 DEF EchoInv
<1>4. CASE \E program \in Programs : Compile(program)
  <2>1. /\ pc' # "frame" /\ heard' = <<>> /\ cursor_' = 0
        /\ buffer_' = [s \in 0 .. DelaySize - 1 |-> 0]
    BY <1>4 DEF Compile, ClearAll, Delay!Reset, Delay!Slots
  <2>2. \A a \in 1 .. DelaySize - 1 : Tap(a)' = 0
    <3> SUFFICES ASSUME NEW a \in 1 .. DelaySize - 1
                 PROVE  Tap(a)' = 0
      OBVIOUS
    <3>1. a \in 0 .. DelaySize - 1 /\ 0 + a = a
      BY <1>1
    <3>2. Delay!At(a)' = a % DelaySize
      BY <2>1, <3>1 DEF Delay!At
    <3>3. a % DelaySize = a
      BY <1>1, <3>1, RemainderOfSmall
    <3> QED  BY <2>1, <3>1, <3>2, <3>3 DEF Tap
  <2>3. Len(heard') = 0 /\ \A k : Sample(heard', k) = 0
    BY <2>1, SamplesStay
  <2> QED  BY <2>1, <2>2, <2>3 DEF EchoInv
<1>5. CASE \E pots \in Pots : SetParameters(pots)
  BY <1>3, <1>5 DEF SetParameters
<1>6. CASE \E m \in 0 .. kMaxBlock : BeginBlock(m)
  BY <1>3, <1>6 DEF BeginBlock
<1>7. CASE \E in \in Frames : BeginFrame(in)
  <2> PICK in \in Frames : BeginFrame(in)
    BY <1>7
  <2>1. /\ pc # "frame" /\ pc' = "frame" /\ ic' = 0 /\ heard' = Append(heard, in)
        /\ instructions_ = Echo(time) /\ UNCHANGED <<buffer_, cursor_>>
        /\ StoreInput(in)
    BY DEF BeginFrame, delay
  <2>2. /\ Len(heard') = n + 1
        /\ \A k \in Int : Sample(heard', k) = IF k = n + 1 THEN SSAT(in[1]) ELSE Sample(heard, k)
    BY <1>1, <2>1, SamplesStay
  <2>3. registers'["ADCL"] = Sample(heard', n + 1)
    <3>1. registers'["ADCL"] = SSAT(in[1])
      BY <2>1, HostRegisters DEF StoreInput, Inv, Typed
    <3> QED  BY <1>1, <2>2, <3>1
  <2>4. \A a \in 1 .. DelaySize - 1 : Tap(a)' = Sample(heard', n + 1 - a)
    <3>1. \A a \in 1 .. DelaySize - 1 : Tap(a) = Sample(heard, n + 1 - a)
      BY <2>1 DEF EchoInv
    <3>2. \A a \in 1 .. DelaySize - 1 : n + 1 - a \in Int /\ n + 1 - a # n + 1
      BY <1>1
    <3> QED  BY <1>2, <2>1, <2>2, <3>1, <3>2
  <2>5. Len(heard') > 0 /\ EchoFrame(time, Len(heard))'
    BY <1>1, <2>1, <2>2, <2>3 DEF EchoFrame
  <2> QED  BY <2>1, <2>2, <2>4, <2>5 DEF EchoInv
<1>8. CASE ExecuteInstruction
  <2>1. instructions_ = Echo(time)
    BY <1>8 DEF ExecuteInstruction
  <2> QED  BY <1>8, <2>1, EchoExecutes
<1>9. CASE EndFrame
  <2>1. /\ pc = "frame" /\ pc' = "loop" /\ ic >= kMaxInstructionCount /\ heard' = heard
        /\ Delay!Tick /\ out' = Output /\ instructions_ = Echo(time)
    BY <1>9 DEF EndFrame, TickAll
  <2>2. ic >= 5 /\ ic >= 3
    <3>1. ic \in Nat /\ ic >= kMaxInstructionCount /\ kMaxInstructionCount \in Nat
      BY <2>1, CountAssumption DEF Inv, HostTyped
    <3> QED  BY <3>1
  <2>3. /\ EchoFrame(time, n)
        /\ \A a \in 1 .. DelaySize - 1 : Tap(a) = Sample(heard, n - a)
    BY <2>1 DEF EchoInv
  <2>4. out'[1] = Sample(heard, n - time)
    BY <2>1, <2>2, <2>3 DEF Output, EchoFrame
  <2>5. \A a \in 0 .. DelaySize - 1 : Tap(a) = Sample(heard, n - a)
    <3>1. Tap(0) = Sample(heard, n)
      BY <2>2, <2>3 DEF EchoFrame
    <3>2. n - 0 = n /\ \A a \in 0 .. DelaySize - 1 : a = 0 \/ a \in 1 .. DelaySize - 1
      BY <1>1
    <3> QED  BY <2>3, <3>1, <3>2
  <2>6. \A a \in 1 .. DelaySize - 1 : Tap(a)' = Sample(heard, n + 1 - a)
    <3>1. \A a \in 1 .. DelaySize - 1 : Tap(a)' = Tap(a - 1)
      BY <2>1, TapsMove
    <3>2. \A a \in 1 .. DelaySize - 1 : a - 1 \in 0 .. DelaySize - 1 /\ n - (a - 1) = n + 1 - a
      BY <1>1
    <3> QED  BY <2>5, <3>1, <3>2
  <2> QED  BY <2>1, <2>4, <2>6 DEF EchoInv
<1>10. CASE EndBlock
  BY <1>3, <1>10 DEF EndBlock
<1>11. CASE UNCHANGED vars
  <2>1. /\ UNCHANGED <<buffer_, cursor_, instructions_, heard, out, pc, ic, acc, registers>>
    BY <1>11 DEF vars, delay, state_, locals
  <2> QED  BY <1>2, <2>1 DEF EchoInv, EchoFrame
<1> QED
  BY <1>4, <1>5, <1>6, <1>7, <1>8, <1>9, <1>10, <1>11 DEF Next, Execute

\* However large the delay memory, long the echo and many the frames, the
\* echo program plays its input as late as it says, and silence before that:
\* every step from StoreInput to Output does its part, the ring buffer comes
\* round unheard and Compile leaves nothing of an earlier sound.  The program
\* has five instructions and must fit.
THEOREM EchoOnTime == kMaxInstructionCount >= 5 => (Spec => []EchoIsOnTime)
<1> SUFFICES ASSUME kMaxInstructionCount >= 5
             PROVE  Spec => []EchoIsOnTime
  OBVIOUS
<1> DEFINE AllEchoes == \A time \in 0 .. DelaySize - 1 : EchoInv(time)
<1>1. Init => AllEchoes
  <2> SUFFICES ASSUME Init, NEW time \in 0 .. DelaySize - 1
               PROVE  EchoInv(time)
    OBVIOUS
  <2>1. 0 \in 0 .. kMaxInstructionCount - 1
    BY CountAssumption
  <2>2. instructions_[0] = [opcode |-> "NOP"]
    BY <2>1 DEF Init
  <2>3. Echo(time)[0] = [opcode |-> "CLR"]
    BY <2>1 DEF Echo, EchoText
  <2>4. instructions_[0] # Echo(time)[0]
    BY <2>2, <2>3
  <2> QED  BY <2>4 DEF EchoInv
<1>2. Inv /\ AllEchoes /\ [Next]_vars => AllEchoes'
  BY EchoNext
<1>3. AllEchoes => EchoIsOnTime
  BY DEF EchoInv, EchoIsOnTime
<1>4. Spec => []Inv
  BY Invariant
<1> QED  BY <1>1, <1>2, <1>3, <1>4, PTL DEF Spec
=============================================================================
