---------------------------- MODULE Tools_proofs ----------------------------
(***************************************************************************)
(* The tools on every file, command line, size of the layout and program.  *)
(*                                                                         *)
(* FileInv is about the way of a program from the file to the tool.  It    *)
(* makes every step of a tool one that Vm allows its host (HostInv), so    *)
(* that what Vm_proofs shows holds of the virtual machine in a tool.       *)
(***************************************************************************)
EXTENDS Tools, Vm_proofs, FiniteSetTheorems

-----------------------------------------------------------------------------
(***************************************************************************)
(* Sizes.  The solver does not multiply variables.                         *)
(***************************************************************************)

\* A product grows with its first factor, and positive factors have a positive one.
LEMMA ProductGrows ==
  ASSUME NEW a \in Nat, NEW b \in Nat, NEW c \in Nat, a <= b
  PROVE  a * c <= b * c /\ a * c \in Nat /\ b * c \in Nat
<1>1. PICK d \in Nat : b = a + d
  <2>1. b - a \in Nat /\ b = a + (b - a)
    OBVIOUS
  <2> QED  BY <2>1
<1>2. b * c = a * c + d * c
  BY <1>1
<1>3. a * c \in Nat /\ d * c \in Nat /\ b * c \in Nat
  OBVIOUS
<1> QED  BY <1>2, <1>3

\* A product of less can only come from less.
LEMMA FactorIsLess ==
  ASSUME NEW a \in Nat, NEW b \in Nat, NEW c \in Nat, a * c < b * c
  PROVE  a < b
<1> SUFFICES ASSUME b <= a
             PROVE  FALSE
  OBVIOUS
<1>1. b * c <= a * c /\ b * c \in Nat /\ a * c \in Nat
  BY ProductGrows
<1> QED  BY <1>1

\* Programs, banks and Dervish banks have different sizes, each larger than the last.
LEMMA Sizes ==
  /\ kProgramSize \in Nat \ {0}
  /\ kBankSize \in Nat /\ kDervishBankSize \in Nat
  /\ kProgramSize <= kBankSize /\ kBankSize < kDervishBankSize
<1>1. kProgramSize \in Nat \ {0}
  <2>1. 1 * kWordSize <= kProgramWords * kWordSize
    BY FileAssumption, ProductGrows
  <2> QED  BY <2>1, FileAssumption DEF kProgramSize
<1>2. 1 * kProgramSize <= kPrograms * kProgramSize /\ kPrograms * kProgramSize \in Nat
  BY <1>1, FileAssumption, ProductGrows
<1> HIDE DEF kProgramSize
<1> QED  BY <1>1, <1>2, FileAssumption DEF kBankSize, kDervishBankSize

\* The words of program p lie in the buffer, ahead of the end of the program.
LEMMA WordsOfProgram ==
  ASSUME NEW p \in 0 .. kPrograms - 1, NEW i \in 0 .. kProgramWords - 1
  PROVE  /\ p * kProgramWords + i \in Slot
         /\ (p * kProgramWords + i + 1) * kWordSize <= (p + 1) * kProgramSize
<1> DEFINE n == p * kProgramWords + i
<1>1. p * kProgramWords \in Nat /\ n \in Nat
  BY FileAssumption
<1>2. n + 1 <= (p + 1) * kProgramWords /\ (p + 1) * kProgramWords \in Nat
  <2>1. (p + 1) * kProgramWords = p * kProgramWords + kProgramWords
    BY FileAssumption
  <2> QED  BY <1>1, <2>1, FileAssumption
<1> HIDE DEF n
<1>3. (n + 1) * kWordSize <= ((p + 1) * kProgramWords) * kWordSize
  BY <1>1, <1>2, FileAssumption, ProductGrows
<1>4. ((p + 1) * kProgramWords) * kWordSize = (p + 1) * kProgramSize
  BY FileAssumption DEF kProgramSize
<1>5. (p + 1) * kProgramSize <= kBankSize
  BY Sizes, FileAssumption, ProductGrows DEF kBankSize
<1>6. n \in Slot
  <2>1. n * kWordSize <= (n + 1) * kWordSize /\ n * kWordSize \in Nat
        /\ (n + 1) * kWordSize \in Nat
    BY <1>1, FileAssumption, ProductGrows
  <2>2. n * kWordSize <= kDervishBankSize
    <3>1. (p + 1) * kProgramSize \in Nat
      BY Sizes, FileAssumption, ProductGrows
    <3> QED  BY <1>3, <1>4, <1>5, <2>1, <3>1, Sizes
  <2>3. n <= kDervishBankSize \div kWordSize
    <3> DEFINE q == kDervishBankSize \div kWordSize
    <3>1. q \in Nat /\ kDervishBankSize < (q + 1) * kWordSize
      BY Sizes, FileAssumption
    <3> HIDE DEF q
    <3>2. (q + 1) * kWordSize \in Nat
      BY <3>1, FileAssumption, ProductGrows
    <3>3. n < q + 1
      BY <1>1, <2>1, <2>2, <3>1, <3>2, Sizes, FileAssumption, FactorIsLess
    <3> QED  BY <1>1, <3>1, <3>3 DEF q
  <2> QED  BY <1>1, <2>3 DEF Slot
<1> QED  BY <1>3, <1>4, <1>6 DEF n

-----------------------------------------------------------------------------
(***************************************************************************)
(* From the file to the tool.                                              *)
(***************************************************************************)

\* The stages of fv1_wav behind the selection of a program.
Rendering == Selected \ {"disassemble"}

\* The words that have arrived whole are those of the input; and whatever
\* comes behind a check has passed it.
FileInv ==
  /\ <<options, input>> \in Calls
  /\ stage \in Stages
  /\ length_ \in Nat /\ length_ <= input.size /\ length_ <= kDervishBankSize
  /\ contents \in [Slot -> Word]
  /\ \A i \in Slot : (i + 1) * kWordSize <= length_ => contents[i] = input.words[i]
  /\ program \in [0 .. kProgramWords - 1 -> Word]
  /\ stage \notin {"parse", "failed"} => ValidOptions
  /\ stage = "select" => valid_length
  /\ stage \in Rendering => options.tool = "wav"
  /\ stage = "disassemble" => options.tool = "dump"
  /\ SelectedProgramIsWhole

\* Options and input are what the command line gives.
LEMMA CallTyped ==
  ASSUME FileInv
  PROVE  /\ options \in Options /\ input \in Input
         /\ options.tool \in {"wav", "dump"} /\ options.program \in Int
         /\ options.sample_count \in 0 .. kMaxFrames
         /\ options.sample_count <= kMaxBlock
         /\ options.blocksize \in Nat
  BY ToolAssumption, OptionsAssumption DEF FileInv

\* Nothing has been read or selected yet.
LEMMA FileInit == ToolInit => FileInv
<1> SUFFICES ASSUME ToolInit
             PROVE  FileInv
  OBVIOUS
<1>1. <<options, input>> \in Calls
  <2>1. PICK call \in Calls : options = call[1] /\ input = call[2]
    BY DEF ToolInit
  <2> QED  BY <2>1, ToolAssumption
<1>2. stage = "parse"
  BY DEF ToolInit
<1>3. length_ = 0 /\ 0 <= input.size /\ 0 <= kDervishBankSize
  BY <1>1, ToolAssumption, Sizes DEF ToolInit, Input
<1>4. contents \in [Slot -> Word] /\ program \in [0 .. kProgramWords - 1 -> Word]
  BY FileAssumption DEF ToolInit
<1>5. \A i \in Slot : ~((i + 1) * kWordSize <= length_)
  <2> TAKE i \in Slot
  <2>1. i + 1 \in Nat /\ 1 <= i + 1
    BY DEF Slot
  <2>2. 1 * kWordSize <= (i + 1) * kWordSize
    BY <2>1, FileAssumption, ProductGrows
  <2> QED  BY <1>3, <2>1, <2>2, FileAssumption
<1> QED  BY <1>1, <1>2, <1>3, <1>4, <1>5
         DEF FileInv, Stages, Rendering, Selected, SelectedProgramIsWhole

\* The words a read() delivers whole are those of the input.
LEMMA ReadKeepsWords ==
  ASSUME FileInv, Read(input)
  PROVE  /\ length_' \in Nat /\ length_' <= input.size /\ length_' <= kDervishBankSize
         /\ contents' \in [Slot -> Word]
         /\ \A i \in Slot :
              (i + 1) * kWordSize <= length_' => contents'[i] = input.words[i]
<1>1. PICK n \in BytesRead(input), part \in Word :
        /\ n % kWordSize = 0 => part = ZeroWord
        /\ length_' = n
        /\ contents' = [i \in Slot |->
                          IF (i + 1) * kWordSize <= n THEN input.words[i]
                          ELSE IF i * kWordSize >= n THEN ZeroWord ELSE part]
  BY DEF Read
<1>2. input.size \in Nat /\ input.words \in [Slot -> Word]
  BY CallTyped DEF Input
<1>3. n \in Nat /\ n <= input.size /\ n <= kDervishBankSize
  BY <1>2, Sizes DEF BytesRead
<1> QED  BY <1>1, <1>2, <1>3, FileAssumption

\* A program that is selected has arrived: a length that is valid and reaches
\* past the first byte of a program reaches past its last one.
LEMMA SelectedHasArrived ==
  ASSUME FileInv, ValidOptions, valid_length, HasProgram(options.program)
  PROVE  LET past == (options.program + 1) * kProgramSize
         IN  past \in Nat /\ past <= length_ /\ past <= kBankSize
<1> DEFINE p == options.program
<1>1. p \in 0 .. kPrograms - 1
  BY DEF ValidOptions
<1>2. (p + 1) * kProgramSize <= kBankSize /\ (p + 1) * kProgramSize \in Nat
  BY <1>1, Sizes, FileAssumption, ProductGrows DEF kBankSize
<1>3. (p + 1) * kProgramSize <= length_
  <2>1. CASE length_ = kProgramSize
    <3>1. p * kProgramSize < 1 * kProgramSize
      BY <2>1, Sizes DEF HasProgram
    <3>2. p = 0
      BY <1>1, <3>1, Sizes, FactorIsLess
    <3> QED  BY <2>1, <3>2, Sizes
  <2>2. CASE length_ = kBankSize
    BY <1>2, <2>2
  <2>3. CASE length_ >= kDervishBankSize
    BY <1>2, <2>3, Sizes DEF FileInv
  <2> QED  BY <2>1, <2>2, <2>3 DEF valid_length
<1> QED  BY <1>2, <1>3

\* Every step keeps what has been read and checked.
LEMMA FileNext ==
  ASSUME FileInv, [ToolNext]_tool
  PROVE  FileInv'
<1>1. CASE ParseCommandLine
  BY <1>1
  DEF ParseCommandLine, file, FileInv, Stages, Rendering, Selected,
      SelectedProgramIsWhole, ValidOptions
<1>2. CASE ReadFile
  <2>1. Read(input) /\ stage' \in {"failed", "check"} /\ stage = "read"
        /\ UNCHANGED <<options, program, input>>
    BY <1>2 DEF ReadFile
  <2> QED  BY <2>1, ReadKeepsWords
           DEF FileInv, Stages, Rendering, Selected, SelectedProgramIsWhole,
               ValidOptions
<1>3. CASE CheckLength
  BY <1>3
  DEF CheckLength, file, FileInv, Stages, Rendering, Selected,
      SelectedProgramIsWhole, ValidOptions, valid_length
<1>4. CASE SelectProgram
  <2> DEFINE p == options.program
  <2>1. /\ stage = "select" /\ HasProgram(p) /\ program' = ProgramAt(p)
        /\ stage' = IF options.tool = "wav" THEN "compile" ELSE "disassemble"
        /\ UNCHANGED <<options, contents, length_, input>>
    BY <1>4 DEF SelectProgram
  <2>2. ValidOptions /\ valid_length
    BY <2>1 DEF FileInv
  <2>3. /\ (p + 1) * kProgramSize \in Nat
        /\ (p + 1) * kProgramSize <= length_ /\ (p + 1) * kProgramSize <= kBankSize
    BY <2>1, <2>2, SelectedHasArrived
  <2>4. (p + 1) * kProgramSize <= input.size
    BY <2>3, CallTyped DEF FileInv, Input
  <2>5. \A i \in 0 .. kProgramWords - 1 :
          /\ p * kProgramWords + i \in Slot
          /\ contents[p * kProgramWords + i] = input.words[p * kProgramWords + i]
    <3> TAKE i \in 0 .. kProgramWords - 1
    <3> DEFINE n == p * kProgramWords + i
    <3>1. n \in Slot /\ (n + 1) * kWordSize <= (p + 1) * kProgramSize
      BY <2>2, WordsOfProgram DEF ValidOptions
    <3>2. n + 1 \in Nat
      BY <3>1 DEF Slot
    <3> HIDE DEF n
    <3>3. (n + 1) * kWordSize \in Nat
      BY <3>2, FileAssumption, ProductGrows
    <3>4. (n + 1) * kWordSize <= length_
      BY <2>3, <3>1, <3>3 DEF FileInv
    <3>5. contents[n] = input.words[n]
      BY <3>1, <3>4 DEF FileInv
    <3> QED  BY <3>1, <3>5 DEF n
  <2>6. program' = ProgramOf(input, p)
    BY <2>1, <2>5 DEF ProgramAt, ProgramOf
  <2>7. program' \in [0 .. kProgramWords - 1 -> Word]
    BY <2>1, <2>5 DEF ProgramAt, FileInv
  <2>8. SelectedProgramIsWhole'
    BY <2>1, <2>3, <2>4, <2>6 DEF SelectedProgramIsWhole
  <2> QED  BY <2>1, <2>2, <2>7, <2>8, CallTyped
           DEF FileInv, Stages, Rendering, Selected, ValidOptions
<1>5. CASE NoProgram
  BY <1>5
  DEF NoProgram, file, FileInv, Stages, Rendering, Selected,
      SelectedProgramIsWhole, ValidOptions
<1>6. CASE Render
  <2>1. /\ stage \in Rendering /\ stage' \in Rendering \cup {"done", "failed"}
        /\ UNCHANGED <<options, file, input>>
    BY <1>6
    DEF Render, WavNext, CompileProgram, OpenOutput, WriteHeader, NextBlock, CallExecute,
        ExecuteFrame, EndOfFrame, ReturnFromExecute, WriteSample, LoseSample, EndOfBlock,
        CloseOutput, Rendering, Selected
  <2> QED  BY <2>1
           DEF file, FileInv, Stages, Rendering, Selected, SelectedProgramIsWhole,
               ValidOptions
<1>7. CASE Disassemble
  <2>1. /\ stage = "disassemble" /\ stage' \in {"disassemble", "done"}
        /\ UNCHANGED <<options, file, input>>
    BY <1>7 DEF Disassemble
  <2> QED  BY <2>1
           DEF file, FileInv, Stages, Rendering, Selected, SelectedProgramIsWhole,
               ValidOptions
<1>8. CASE UNCHANGED tool
  BY <1>8
  DEF tool, file, FileInv, Stages, Rendering, Selected, SelectedProgramIsWhole,
      ValidOptions, valid_length
<1> QED  BY <1>1, <1>2, <1>3, <1>4, <1>5, <1>6, <1>7, <1>8 DEF ToolNext, Work

\* So they hold throughout.
LEMMA FileInvariant == ToolSpec => []FileInv
  BY FileInit, FileNext, PTL DEF ToolSpec

\* A tool plays or lists only a program that is whole and that the file has,
\* for every layout, file, piece of it that a pipe delivers, and number.
THEOREM SelectedIsWhole == ToolSpec => []SelectedProgramIsWhole
<1>1. FileInv => SelectedProgramIsWhole
  BY DEF FileInv
<1> QED  BY <1>1, FileInvariant, PTL

-----------------------------------------------------------------------------
(***************************************************************************)
(* A tool as the host of a virtual machine.                                *)
(***************************************************************************)

\* A step is one of fv1_wav behind the selection, or it leaves alone
\* everything that those work on.
LEMMA Quiet ==
  ASSUME FileInv, [ToolNext]_tool, ~Render
  PROVE  /\ UNCHANGED <<vars, options, wav>>
         /\ \/ stage' = stage
            \/ /\ stage \notin Rendering \cup {"done"}
               /\ stage' \notin Rendering \ {"compile"}
               /\ stage' = "done" => options.tool = "dump"
<1>1. CASE ParseCommandLine \/ NoProgram
  BY <1>1 DEF ParseCommandLine, NoProgram, Rendering, Selected
<1>2. CASE ReadFile
  BY <1>2 DEF ReadFile, Rendering, Selected
<1>3. CASE CheckLength
  BY <1>3 DEF CheckLength, Rendering, Selected
<1>4. CASE SelectProgram
  BY <1>4 DEF SelectProgram, Rendering, Selected
<1>5. CASE Disassemble
  BY <1>5 DEF Disassemble, Rendering, Selected, FileInv
<1>6. CASE UNCHANGED tool
  BY <1>6 DEF tool
<1> QED  BY <1>1, <1>2, <1>3, <1>4, <1>5, <1>6 DEF ToolNext, Work

\* A block is cut from what is left to play; Execute is at work when the tool
\* waits for it, on that block.
HostInv ==
  /\ sample_count \in 0 .. options.sample_count
  /\ blocksize \in 0 .. options.sample_count
  /\ stage \in {"call", "execute", "write"} =>
       blocksize \in 1 .. sample_count /\ blocksize <= options.blocksize
  /\ stage = "execute" <=> pc # "idle"
  /\ stage = "execute" => num_frames \in 0 .. blocksize

\* No block has been cut yet.
LEMMA HostInit == ToolInit => HostInv
<1> SUFFICES ASSUME ToolInit
             PROVE  HostInv
  OBVIOUS
<1>1. options.sample_count \in Nat
  BY FileInit, CallTyped, HostAssumption
<1> QED  BY <1>1 DEF ToolInit, WavInit, Init, HostInv

\* What is compiled is one of the programs the virtual machine is known to
\* execute.
LEMMA CompilesProgram ==
  ASSUME FileInv, CompileProgram(program)
  PROVE  Translated(program) \in Programs
<1>1. stage = "compile" /\ options.tool = "wav" /\ program = ProgramOf(input, options.program)
  BY DEF CompileProgram, FileInv, Rendering, Selected, SelectedProgramIsWhole
<1>2. options.program \in 0 .. kPrograms - 1
  BY <1>1 DEF FileInv, ValidOptions
<1> DEFINE call == <<options, input>>
<1>3. call \in Calls /\ call[1] = options /\ call[2] = input
  BY DEF FileInv
<1> HIDE DEF call
<1>4. Translated(ProgramOf(call[2], options.program)) \in Programs
  BY <1>1, <1>2, <1>3, ProgramsAssumption
<1> QED  BY <1>1, <1>3, <1>4

\* The pots are positions that the virtual machine takes.
LEMMA PotsOfCall == FileInv => params \in Pots
  BY CallTyped, PotsAssumption DEF params

\* Every step of a tool is one that the virtual machine allows its host.
LEMMA HostSteps ==
  ASSUME FileInv, HostInv, [ToolNext]_tool
  PROVE  [Next]_vars
<1>1. CASE ~Render
  BY <1>1, Quiet
<1>2. CASE Render
  <2>1. CASE CompileProgram(program)
    BY <2>1, CompilesProgram DEF CompileProgram, Next
  <2>2. CASE OpenOutput \/ WriteHeader \/ WriteSample \/ LoseSample \/ EndOfBlock
             \/ CloseOutput
    BY <2>2 DEF OpenOutput, WriteHeader, WriteSample, LoseSample, EndOfBlock, CloseOutput
  <2>3. CASE NextBlock
    BY <2>3, PotsOfCall DEF NextBlock, Next
  <2>4. CASE CallExecute
    <3>1. BeginBlock(blocksize) /\ stage = "call"
      BY <2>4 DEF CallExecute
    <3>2. blocksize \in 0 .. kMaxBlock
      BY <3>1, CallTyped, HostAssumption DEF HostInv
    <3> QED  BY <3>1, <3>2 DEF Next
  <2>5. CASE ExecuteFrame
    BY <2>5, WavAssumption DEF ExecuteFrame, Next, Execute
  <2>6. CASE EndOfFrame
    BY <2>6 DEF EndOfFrame, Next, Execute
  <2>7. CASE ReturnFromExecute
    BY <2>7 DEF ReturnFromExecute, Next, Execute
  <2> QED  BY <1>2, <2>1, <2>2, <2>3, <2>4, <2>5, <2>6, <2>7 DEF Render, WavNext
<1> QED  BY <1>1, <1>2

\* The blocks take the sample counter to 0, never below.
LEMMA HostNext ==
  ASSUME FileInv, Inv, HostInv, [ToolNext]_tool
  PROVE  HostInv'
<1> USE DEF HostInv
<1>0. options.sample_count \in Nat /\ options.blocksize \in Nat
      /\ sample_count \in Nat /\ blocksize \in Nat
  BY CallTyped, HostAssumption
<1>1. CASE ~Render
  BY <1>1, Quiet DEF vars, locals, wav, Rendering, Selected
<1>2. CASE Render
  <2>1. CASE CompileProgram(program)
    BY <2>1 DEF CompileProgram, Compile, locals, wav
  <2>2. CASE OpenOutput \/ CloseOutput
    BY <2>2 DEF OpenOutput, CloseOutput, vars, locals, wav
  <2>3. CASE WriteHeader
    BY <1>0, <2>3 DEF WriteHeader, vars, locals
  <2>4. CASE NextBlock
    <3>1. options.blocksize > 0
      BY <2>4 DEF NextBlock, FileInv, Rendering, Selected, ValidOptions
    <3> QED  BY <1>0, <2>4, <3>1 DEF NextBlock, SetParameters, locals
  <2>5. CASE CallExecute
    BY <1>0, <2>5 DEF CallExecute, BeginBlock, wav
  <2>6. CASE ExecuteFrame
    BY <2>6 DEF ExecuteFrame, BeginFrame, ExecuteInstruction, wav
  <2>7. CASE EndOfFrame
    <3>1. num_frames > 0
      BY <2>7 DEF EndOfFrame, EndFrame, Inv, LocalsAgree
    <3> QED  BY <1>0, <2>7, <3>1 DEF EndOfFrame, EndFrame
  <2>8. CASE ReturnFromExecute
    BY <2>8 DEF ReturnFromExecute, EndBlock
  <2>9. CASE WriteSample \/ LoseSample
    BY <2>9 DEF WriteSample, LoseSample, vars, locals
  <2>10. CASE EndOfBlock
    BY <1>0, <2>10 DEF EndOfBlock, vars, locals
  <2> QED  BY <1>2, <2>1, <2>2, <2>3, <2>4, <2>5, <2>6, <2>7, <2>8, <2>9, <2>10
           DEF Render, WavNext
<1> QED  BY <1>1, <1>2

\* With it, all that is proved of the virtual machine holds of one in a tool.
LEMMA HostInvariant == ToolSpec => [](FileInv /\ HostInv /\ Inv)
<1>1. ToolInit => HostInv /\ Inv
  BY HostInit, InitInv DEF ToolInit
<1>2. FileInv /\ HostInv /\ Inv /\ [ToolNext]_tool => HostInv' /\ Inv'
  BY HostSteps, HostNext, NextInv
<1> QED  BY <1>1, <1>2, FileInvariant, PTL DEF ToolSpec

-----------------------------------------------------------------------------
(***************************************************************************)
(* The sound of the file.                                                  *)
(***************************************************************************)

\* The pots are where the command line has them.
PotsHeld ==
  /\ registers["POT0"] = SSAT(params[1])
  /\ registers["POT1"] = SSAT(params[2])
  /\ registers["POT2"] = SSAT(params[3])

\* Until the loop nothing is played, and from the first block on the pots
\* stay where they are: SetParameters has nothing to change.
SoundInv ==
  /\ stage \in Rendering \ {"compile"} => instructions_ \in Programs
  /\ stage \notin {"loop", "call", "execute", "write", "done"} => played = <<>>
  /\ stage \in {"call", "execute", "write"} \/ played # <<>> => PotsHeld

\* The parameters are set to what they are.
LEMMA PotsSetAgain ==
  ASSUME Typed, PotsHeld, SetParameters(params)
  PROVE  registers' = registers
  BY HostRegisters DEF PotsHeld, SetParameters, StorePots, Typed

\* Compile replaces the program before there is a sound, and no other step
\* moves a pot.
LEMMA SoundNext ==
  ASSUME FileInv, HostInv, Inv, SoundInv, [ToolNext]_tool
  PROVE  SoundInv'
<1> USE DEF SoundInv
<1>0. Typed /\ HostTyped
  BY DEF Inv
<1>1. CASE ~Render
  BY <1>1, Quiet DEF vars, state_, wav, params, PotsHeld, Rendering, Selected
<1>2. CASE Render
  <2> USE DEF params, Rendering, Selected
  <2>1. CASE CompileProgram(program)
    BY <2>1, CompilesProgram DEF CompileProgram, Compile, wav
  <2>2. CASE OpenOutput \/ CloseOutput
    BY <2>2 DEF OpenOutput, CloseOutput, vars, state_, wav, PotsHeld
  <2>3. CASE WriteHeader
    BY <2>3 DEF WriteHeader, vars, state_, PotsHeld
  <2>4. CASE NextBlock
    <3>1. PotsHeld'
      BY <1>0, <2>4, HostRegisters
      DEF NextBlock, SetParameters, StorePots, PotsHeld, Typed
    <3> QED  BY <2>4, <3>1 DEF NextBlock, SetParameters
  <2>5. CASE CallExecute
    BY <2>5 DEF CallExecute, BeginBlock, state_, wav, PotsHeld
  <2>6. CASE ExecuteFrame
    <3>1. stage = "execute" /\ UNCHANGED <<options, stage, played>> /\ PotsHeld
      BY <2>6 DEF ExecuteFrame, wav
    <3>2. CASE BeginFrame(<<0, 0>>)
      BY <1>0, <3>1, <3>2, HostRegisters DEF BeginFrame, StoreInput, PotsHeld, Typed
    <3>3. CASE ExecuteInstruction
      <4> DEFINE i == instructions_[ic]
      <4>1. instructions_ \in Programs /\ ic \in DOMAIN instructions_ /\ i \in Instruction
        BY <1>0, <3>1, <3>3, CountAssumption, HostAssumption
        DEF ExecuteInstruction, HostTyped, Program
      <4>2. ~StoresToPot(i)
        BY <4>1, WavAssumption
      <4>3. \A pot \in {"POT0", "POT1", "POT2"} : registers'[pot] = registers[pot]
        <5>1. Perform(i)
          BY <3>3 DEF ExecuteInstruction
        <5> QED  BY <1>0, <4>1, <4>2, <5>1, PotsStay
      <4> QED  BY <3>1, <3>3, <4>3 DEF ExecuteInstruction, PotsHeld
    <3> QED  BY <2>6, <3>2, <3>3 DEF ExecuteFrame
  <2>7. CASE EndOfFrame
    BY <2>7 DEF EndOfFrame, EndFrame, PotsHeld
  <2>8. CASE ReturnFromExecute
    BY <2>8 DEF ReturnFromExecute, EndBlock, PotsHeld
  <2>9. CASE WriteSample \/ LoseSample \/ EndOfBlock
    BY <2>9 DEF WriteSample, LoseSample, EndOfBlock, vars, state_, PotsHeld
  <2> QED  BY <1>2, <2>1, <2>2, <2>3, <2>4, <2>5, <2>6, <2>7, <2>8, <2>9
           DEF Render, WavNext
<1> QED  BY <1>1, <1>2

\* Every step is one of the chip and its listener, or none at all.
LEMMA RenderRefines ==
  ASSUME FileInv, HostInv, Inv, SoundInv, [ToolNext]_tool
  PROVE  [Prepare \/ PlaySample \/ RecordSample]_<<FV1!chip, played>>
<1> DEFINE Same == UNCHANGED <<FV1!chip, played>>
<1>0. UNCHANGED vars => UNCHANGED FV1!chip
  BY DEF vars, state_, locals, delay, lfos, FV1!chip, FV1!delay, FV1!lfos
<1>1. CASE ~Render
  BY <1>0, <1>1, Quiet DEF wav
<1>2. CASE Render
  <2>1. CASE CompileProgram(program)
    <3>1. Compile(Translated(program)) /\ Translated(program) \in Programs
      BY <2>1, CompilesProgram DEF CompileProgram
    <3>2. FV1!Load(Translated(program))
      BY <3>1, LoadRefines
    <3>3. played = <<>> /\ UNCHANGED played
      BY <2>1 DEF CompileProgram, SoundInv, wav
    <3> QED  BY <3>1, <3>2, <3>3 DEF Prepare
  <2>2. CASE OpenOutput \/ WriteHeader \/ WriteSample \/ LoseSample \/ EndOfBlock
             \/ CloseOutput
    BY <1>0, <2>2
    DEF OpenOutput, WriteHeader, WriteSample, LoseSample, EndOfBlock, CloseOutput, wav
  <2>3. CASE NextBlock
    <3>1. SetParameters(params) /\ UNCHANGED played
      BY <2>3 DEF NextBlock
    <3>2. CASE played = <<>>
      <4>1. FV1!TurnPots(params)
        BY <3>1, PotsRefine
      <4> QED  BY <3>1, <3>2, <4>1, PotsOfCall DEF Prepare
    <3>3. CASE played # <<>>
      <4>1. registers' = registers
        BY <3>1, <3>3, PotsSetAgain DEF SoundInv, Inv
      <4> QED  BY <3>1, <4>1
               DEF SetParameters, locals, delay, lfos, FV1!chip, FV1!delay, FV1!lfos
    <3> QED  BY <3>2, <3>3
  <2>4. CASE CallExecute
    BY <2>4, BlockStutters DEF CallExecute, wav
  <2>5. CASE ExecuteFrame
    BY <2>5, FrameRefines, InstructionRefines DEF ExecuteFrame, PlaySample, wav
  <2>6. CASE EndOfFrame
    BY <2>6, EndFrameRefines DEF EndOfFrame, RecordSample
  <2>7. CASE ReturnFromExecute
    BY <2>7, BlockStutters DEF ReturnFromExecute
  <2> QED  BY <1>2, <2>1, <2>2, <2>3, <2>4, <2>5, <2>6, <2>7 DEF Render, WavNext
<1> QED  BY <1>1, <1>2

\* The file has the sound of the chip, whatever the program, the number of
\* samples and the size of the blocks: as long as the program leaves the pots
\* alone.
THEOREM Rendered == ToolSpec => RendersLikeChip
<1>1. ToolInit => FV1!Init /\ played = <<>> /\ SoundInv
  BY InitRefines DEF ToolInit, WavInit, SoundInv, Rendering, Selected
<1>2. FileInv /\ HostInv /\ Inv /\ SoundInv /\ [ToolNext]_tool => SoundInv'
  BY SoundNext
<1>3. FileInv /\ HostInv /\ Inv /\ SoundInv /\ [ToolNext]_tool
        => [Prepare \/ PlaySample \/ RecordSample]_<<FV1!chip, played>>
  BY RenderRefines
<1> QED  BY <1>1, <1>2, <1>3, HostInvariant, PTL DEF ToolSpec, RendersLikeChip

-----------------------------------------------------------------------------
(***************************************************************************)
(* The samples in the file.                                                *)
(***************************************************************************)

\* fv1_wav has written its header and has not failed.
Sounding ==
  options.tool = "wav" /\ stage \in {"loop", "call", "execute", "write", "done"}

\* Frames of the blocks before this one, and of this one; samples of it that
\* are in the file.
FramesBefore == options.sample_count - sample_count
FramesOfBlock ==
  IF stage = "execute" THEN blocksize - num_frames
  ELSE IF stage = "write" THEN blocksize ELSE 0
SamplesOfBlock == IF stage = "write" THEN written ELSE 0

\* The vector out holds the end of what has been played.
PlayedInv ==
  /\ played \in Seq(SF23 \X SF23)
  /\ Sounding =>
       /\ frames \in [0 .. options.blocksize - 1 -> SF23 \X SF23]
       /\ Len(played) = FramesBefore + FramesOfBlock
       /\ \A j \in 0 .. FramesOfBlock - 1 : frames[j] = played[FramesBefore + 1 + j]
       /\ stage = "done" => sample_count = 0
  /\ ~Sounding => frames = <<>> /\ played = <<>>

\* Samples for which there has been a call of write, and those of them of which
\* the file has nothing.
Due == 2 * FramesBefore + SamplesOfBlock
Missing == Due - Len(data)

\* The samples in the file are those that have been played, in their order, and
\* skipped[k] of them are missing in front of number k.
InOrder(skipped) ==
  /\ \A j, k \in 1 .. Len(data) : j < k => skipped[j] <= skipped[k]
  /\ \A k \in Whole : data[k] = Encoded(PlayedSample(k + skipped[k]))

DataTyped ==
  /\ data \in Seq(Int)
  /\ header \subseteq {WAVHeader}
  /\ lost \in Nat
  /\ ~Sounding => data = <<>> /\ header = {} /\ lost = 0
  /\ Sounding /\ header = {} => lost # 0
  /\ stage = "write" => written \in 0 .. 2 * blocksize

\* What the file lacks is what was lost.
FileAgrees ==
  /\ Missing \in 0 .. SamplesLost
  /\ Cardinality(Whole) = Due - SamplesLost
  /\ \E skipped \in [1 .. Len(data) -> 0 .. Missing] : InOrder(skipped)

DataInv ==
  /\ DataTyped
  /\ Sounding => FileAgrees

\* Outside of fv1_wav's part nobody touches the frames or the file.
LEMMA QuietSound ==
  ASSUME FileInv, [ToolNext]_tool, ~Render
  PROVE  /\ UNCHANGED <<vars, options, wav>> /\ (Sounding' <=> Sounding)
         /\ Sounding => stage' = stage
         /\ ~Sounding /\ stage' = "write" => stage' = stage
  BY Quiet DEF Sounding, Rendering, Selected, FileInv

\* A frame goes into the vector out and into the history alike.
LEMMA PlayedNext ==
  ASSUME FileInv, HostInv, Inv, PlayedInv, [ToolNext]_tool
  PROVE  PlayedInv'
<1> USE DEF PlayedInv
<1>0. /\ options.sample_count \in Nat /\ options.blocksize \in Nat
      /\ sample_count \in Nat /\ blocksize \in Nat /\ sample_count <= options.sample_count
  BY CallTyped, HostAssumption DEF HostInv
<1>1. CASE ~Render
  <2>1. /\ UNCHANGED <<vars, options, wav>> /\ (Sounding' <=> Sounding)
        /\ Sounding => stage' = stage
    BY <1>1, QuietSound
  <2>2. UNCHANGED <<sample_count, blocksize, frames, played, num_frames>>
    BY <2>1 DEF vars, locals, wav
  <2> QED  BY <2>1, <2>2 DEF FramesBefore, FramesOfBlock
<1>2. CASE Render
  <2>0. stage \in Rendering /\ options.tool = "wav" /\ options' = options
    BY <1>2
    DEF Render, WavNext, CompileProgram, OpenOutput, WriteHeader, NextBlock, CallExecute,
        ExecuteFrame, EndOfFrame, ReturnFromExecute, WriteSample, LoseSample, EndOfBlock,
        CloseOutput, Rendering, Selected, FileInv
  <2> USE DEF FramesBefore, FramesOfBlock, Sounding
  <2>1. CASE CompileProgram(program) \/ OpenOutput
    BY <2>1 DEF CompileProgram, OpenOutput, wav
  <2>2. CASE WriteHeader
    <3>1. frames' \in [0 .. options.blocksize - 1 -> SF23 \X SF23]
      BY <2>2, FormatsAreInt DEF WriteHeader
    <3> QED  BY <1>0, <2>0, <2>2, <3>1 DEF WriteHeader
  <2>3. CASE NextBlock
    BY <2>0, <2>3 DEF NextBlock
  <2>4. CASE CallExecute
    BY <1>0, <2>0, <2>4 DEF CallExecute, BeginBlock, wav
  <2>5. CASE ExecuteFrame
    BY <2>0, <2>5 DEF ExecuteFrame, BeginFrame, ExecuteInstruction, wav
  <2>6. CASE EndOfFrame
    <3> DEFINE b == FramesBefore
               n == FramesOfBlock
    <3>1. stage = "execute" /\ Sounding /\ Sounding' /\ stage' = stage
      BY <2>0, <2>6 DEF EndOfFrame
    <3>2. /\ n = blocksize - num_frames /\ n \in 0 .. options.blocksize - 1 /\ b \in Nat
          /\ b' = b /\ n' = n + 1
      <4>1. num_frames \in Nat /\ num_frames > 0 /\ num_frames <= blocksize
            /\ blocksize <= options.blocksize /\ num_frames' = num_frames - 1
        BY <2>6, <3>1 DEF EndOfFrame, EndFrame, Inv, LocalsAgree, HostInv
      <4> QED  BY <1>0, <2>0, <2>6, <3>1, <4>1 DEF EndOfFrame
    <3>3. out' \in SF23 \X SF23
      BY <2>6, HostRegisters DEF EndOfFrame, EndFrame, Output, Inv, Typed
    <3>4. frames' = [frames EXCEPT ![n] = out'] /\ played' = Append(played, out')
      BY <2>6, <3>2 DEF EndOfFrame
    <3> HIDE DEF b, n
    <3>5. /\ frames \in [0 .. options.blocksize - 1 -> SF23 \X SF23]
          /\ Len(played) = b + n
          /\ \A j \in 0 .. n - 1 : frames[j] = played[b + 1 + j]
      BY <3>1 DEF b, n
    <3>6. /\ frames' \in [0 .. options.blocksize - 1 -> SF23 \X SF23]
          /\ played' \in Seq(SF23 \X SF23)
          /\ Len(played') = b + (n + 1)
      BY <3>2, <3>3, <3>4, <3>5
    <3>7. \A j \in 0 .. n : frames'[j] = played'[b + 1 + j]
      <4> TAKE j \in 0 .. n
      <4>1. CASE j = n
        BY <3>2, <3>3, <3>4, <3>5, <4>1
      <4>2. CASE j # n
        <5>1. j \in 0 .. n - 1 /\ b + 1 + j \in 1 .. Len(played)
          BY <3>2, <3>5, <4>2
        <5>2. played'[b + 1 + j] = played[b + 1 + j]
          BY <3>3, <3>4, <5>1
        <5>3. frames'[j] = frames[j]
          BY <3>2, <3>4, <3>5, <5>1
        <5> QED  BY <3>5, <5>1, <5>2, <5>3
      <4> QED  BY <4>1, <4>2
    <3>8. \A j \in 0 .. n' - 1 : frames'[j] = played'[b' + 1 + j]
      BY <3>2, <3>7
    <3>9. Len(played') = b' + n'
      BY <3>2, <3>6
    <3> QED  BY <2>0, <3>1, <3>6, <3>8, <3>9 DEF b, n
  <2>7. CASE ReturnFromExecute
    <3>1. num_frames = 0
      BY <2>7 DEF ReturnFromExecute, EndBlock
    <3> QED  BY <1>0, <2>0, <2>7, <3>1 DEF ReturnFromExecute
  <2>8. CASE WriteSample \/ LoseSample
    BY <2>0, <2>8 DEF WriteSample, LoseSample
  <2>9. CASE EndOfBlock
    BY <1>0, <2>0, <2>9 DEF EndOfBlock
  <2>10. CASE CloseOutput
    BY <2>0, <2>10 DEF CloseOutput, wav
  <2> QED  BY <1>2, <2>1, <2>2, <2>3, <2>4, <2>5, <2>6, <2>7, <2>8, <2>9, <2>10
           DEF Render, WavNext
<1> QED  BY <1>1, <1>2

\* A frame more leaves the samples before it as they are.
LEMMA PlayedGrows ==
  ASSUME PlayedInv, NEW k \in 1 .. 2 * Len(played),
         played' = played \/ \E f \in SF23 \X SF23 : played' = Append(played, f)
  PROVE  PlayedSample(k)' = PlayedSample(k)
<1>1. played \in Seq(SF23 \X SF23) /\ Len(played) \in Nat
  BY DEF PlayedInv
<1> DEFINE n == (k + 1) \div 2
<1>2. n \in 1 .. Len(played)
  BY <1>1
<1> HIDE DEF n
<1>3. played'[n] = played[n]
  <2>1. CASE \E f \in SF23 \X SF23 : played' = Append(played, f)
    BY <1>1, <1>2, <2>1
  <2> QED  BY <2>1
<1> QED  BY <1>3 DEF PlayedSample, n

\* The file never has more than has been played.
LEMMA FileIsBehind ==
  ASSUME FileInv, HostInv, PlayedInv, DataTyped, Sounding
  PROVE  Due \in Nat /\ Due <= 2 * Len(played)
<1>1. /\ options.sample_count \in Nat /\ sample_count \in 0 .. options.sample_count
      /\ blocksize \in Nat
  BY CallTyped, HostAssumption DEF HostInv
<1>2. FramesBefore \in Nat
  BY <1>1 DEF FramesBefore
<1>3. SamplesOfBlock <= 2 * FramesOfBlock /\ SamplesOfBlock \in Nat /\ FramesOfBlock \in Nat
  <2>1. CASE stage = "execute"
    <3>1. num_frames \in 0 .. blocksize
      BY <2>1 DEF HostInv
    <3> QED  BY <1>1, <2>1, <3>1 DEF SamplesOfBlock, FramesOfBlock
  <2>2. CASE stage = "write"
    <3>1. written \in 0 .. 2 * blocksize
      BY <2>2 DEF DataTyped
    <3> QED  BY <1>1, <2>2, <3>1 DEF SamplesOfBlock, FramesOfBlock
  <2>3. CASE stage \notin {"execute", "write"}
    BY <2>3 DEF SamplesOfBlock, FramesOfBlock
  <2> QED  BY <2>1, <2>2, <2>3
<1>4. Len(played) = FramesBefore + FramesOfBlock
  BY DEF PlayedInv
<1> QED  BY <1>2, <1>3, <1>4 DEF Due

\* How many samples were lost, and that what is behind them is in the file.
LEMMA FileTyped ==
  ASSUME FileInv, HostInv, PlayedInv, DataInv, Sounding
  PROVE  /\ Len(data) \in Nat /\ Len(played) \in Nat /\ DOMAIN data = 1 .. Len(data)
         /\ SamplesLost \in Nat /\ Due \in Nat /\ Due <= 2 * Len(played)
         /\ Missing \in Nat /\ Missing <= SamplesLost /\ Len(data) + Missing = Due
         /\ Whole \subseteq 1 .. Len(data) /\ IsFiniteSet(Whole)
<1>1. Len(data) \in Nat /\ Len(played) \in Nat /\ DOMAIN data = 1 .. Len(data)
  BY DEF DataInv, DataTyped, PlayedInv
<1>2. SamplesLost \in Nat
  BY DEF SamplesLost, DataInv, DataTyped
<1>3. Due \in Nat /\ Due <= 2 * Len(played)
  BY FileIsBehind DEF DataInv
<1>4. Missing \in Nat /\ Missing <= SamplesLost
  BY <1>2 DEF DataInv, FileAgrees
<1>5. Len(data) + Missing = Due
  BY <1>1, <1>3 DEF Missing
<1>6. Whole \subseteq 1 .. Len(data)
  BY <1>1 DEF Whole
<1>7. IsFiniteSet(Whole)
  <2>1. IsFiniteSet(1 .. Len(data))
    BY <1>1, FS_Interval
  <2> QED  BY <1>6, <2>1, FS_Subset
<1> QED  BY <1>1, <1>2, <1>3, <1>4, <1>5, <1>6, <1>7

\* A step that leaves the file alone leaves it right: what was played does not
\* change.
LEMMA FileStays ==
  ASSUME FileInv, HostInv, PlayedInv, DataInv, Sounding,
         Due' = Due, UNCHANGED <<data, header, lost, options>>,
         played' = played \/ \E f \in SF23 \X SF23 : played' = Append(played, f)
  PROVE  FileAgrees'
<1>1. PICK skipped \in [1 .. Len(data) -> 0 .. Missing] : InOrder(skipped)
  BY DEF DataInv, FileAgrees
<1>2. Missing' = Missing /\ SamplesLost' = SamplesLost /\ Whole' = Whole
  BY DEF Missing, SamplesLost, Whole
<1>3. ASSUME NEW k \in Whole
      PROVE  data'[k] = Encoded(PlayedSample(k + skipped[k]))'
  <2>1. k + skipped[k] \in 1 .. 2 * Len(played)
    <3>1. k \in 1 .. Len(data) /\ skipped[k] \in 0 .. Missing
      BY <1>1, <1>3, FileTyped
    <3> HIDE DEF Missing, Due
    <3> QED  BY <3>1, FileTyped
  <2>2. PlayedSample(k + skipped[k])' = PlayedSample(k + skipped[k])
    BY <2>1, PlayedGrows
  <2>3. data[k] = Encoded(PlayedSample(k + skipped[k]))
    BY <1>1, <1>3 DEF InOrder
  <2> QED  BY <2>2, <2>3 DEF Encoded
<1>4. InOrder(skipped)'
  BY <1>1, <1>2, <1>3 DEF InOrder
<1> QED  BY <1>1, <1>2, <1>4 DEF DataInv, FileAgrees

\* A write that stores nothing: one more sample is missing, behind all those in
\* the file.
LEMMA FileLacks ==
  ASSUME FileInv, HostInv, PlayedInv, DataInv, Sounding,
         Due' = Due + 1, lost' = lost + 1, UNCHANGED <<data, header, options, played>>
  PROVE  FileAgrees'
<1>1. PICK skipped \in [1 .. Len(data) -> 0 .. Missing] : InOrder(skipped)
  BY DEF DataInv, FileAgrees
<1>2. SamplesLost' = SamplesLost + 1 /\ Whole' = Whole
  BY DEF SamplesLost, Whole, DataInv, DataTyped
<1>3. Missing' = Missing + 1
  <2>1. Due \in Nat /\ Len(data) \in Nat
    BY FileTyped
  <2>2. Missing' = Due' - Len(data)
    BY DEF Missing
  <2> HIDE DEF Due
  <2> QED  BY <2>1, <2>2 DEF Missing
<1>4. InOrder(skipped)'
  BY <1>1, <1>2 DEF InOrder, Encoded, PlayedSample
<1>5. Missing' \in 0 .. SamplesLost' /\ 0 .. Missing \subseteq 0 .. Missing'
  BY <1>2, <1>3, FileTyped
<1>6. skipped \in [1 .. Len(data') -> 0 .. Missing']
  BY <1>1, <1>5
<1>7. Cardinality(Whole') = Due' - SamplesLost'
  <2>1. Cardinality(Whole) = Due - SamplesLost
    BY DEF DataInv, FileAgrees
  <2>2. Cardinality(Whole') = Cardinality(Whole)
    BY <1>2
  <2>3. Due \in Nat /\ SamplesLost \in Nat
    BY FileTyped
  <2> QED  BY <1>2, <2>1, <2>2, <2>3
<1> QED  BY <1>4, <1>5, <1>6, <1>7 DEF FileAgrees

\* A write that stores the sample, or a part of it.
LEMMA FileGrows ==
  ASSUME FileInv, HostInv, PlayedInv, DataInv, Sounding,
         Due' = Due + 1, UNCHANGED <<header, options, played>>,
         NEW x \in Int, data' = Append(data, x),
         \/ x = Encoded(PlayedSample(Due + 1)) /\ x # Torn /\ lost' = lost
         \/ x = Torn /\ lost' = lost + 1
  PROVE  FileAgrees'
<1> DEFINE n == Len(data)
<1>1. PICK skipped \in [1 .. n -> 0 .. Missing] : InOrder(skipped)
  BY DEF DataInv, FileAgrees
<1>2. /\ n \in Nat /\ Len(data') = n + 1 /\ data'[n + 1] = x
      /\ \A k \in 1 .. n : data'[k] = data[k]
      /\ DOMAIN data' = 1 .. n + 1 /\ DOMAIN data = 1 .. n
  BY DEF DataInv, DataTyped
<1>3. Missing' = Missing
  <2>1. Due \in Nat
    BY FileTyped
  <2>2. Missing' = Due' - (n + 1)
    BY <1>2 DEF Missing
  <2>3. Missing = Due - n
    BY DEF Missing
  <2> HIDE DEF n
  <2> QED  BY <1>2, <2>1, <2>2, <2>3
<1>4. Whole' = IF x = Torn THEN Whole ELSE Whole \cup {n + 1}
  <2>1. Torn' = Torn
    BY DEF Torn
  <2> HIDE DEF n
  <2>2. \A k : k \in 1 .. n + 1 <=> k \in 1 .. n \/ k = n + 1
    BY <1>2
  <2> QED  BY <1>2, <2>1, <2>2 DEF Whole
<1>5. n + 1 \notin Whole /\ IsFiniteSet(Whole)
  BY <1>2, FileTyped
<1>6. Cardinality(Whole') = IF x = Torn THEN Cardinality(Whole) ELSE Cardinality(Whole) + 1
  BY <1>4, <1>5, FS_AddElement
<1>7. SamplesLost' = IF x = Torn THEN SamplesLost + 1 ELSE SamplesLost
  BY DEF SamplesLost, DataInv, DataTyped
<1>8. Cardinality(Whole) = Due - SamplesLost
  BY DEF DataInv, FileAgrees
<1>9. Cardinality(Whole') = Due' - SamplesLost' /\ Missing' \in 0 .. SamplesLost'
  <2>1. Due \in Nat /\ SamplesLost \in Nat /\ Missing \in 0 .. SamplesLost
    BY FileTyped
  <2>2. CASE x = Torn
    <3>1. Cardinality(Whole') = Cardinality(Whole) /\ SamplesLost' = SamplesLost + 1
      BY <1>6, <1>7, <2>2
    <3> QED  BY <1>3, <1>8, <2>1, <3>1
  <2>3. CASE x # Torn
    <3>1. Cardinality(Whole') = Cardinality(Whole) + 1 /\ SamplesLost' = SamplesLost
      BY <1>6, <1>7, <2>3
    <3> QED  BY <1>3, <1>8, <2>1, <3>1
  <2> QED  BY <2>2, <2>3
<1>10. PICK shifted \in [1 .. n + 1 -> 0 .. Missing] :
         \A k \in 1 .. n + 1 : shifted[k] = IF k = n + 1 THEN Missing ELSE skipped[k]
  <2> DEFINE f == [k \in 1 .. n + 1 |-> IF k = n + 1 THEN Missing ELSE skipped[k]]
  <2>1. Missing \in 0 .. Missing
    BY FileTyped
  <2> HIDE DEF n
  <2>2. f \in [1 .. n + 1 -> 0 .. Missing]
    BY <1>1, <1>2, <2>1
  <2> QED  BY <2>2
<1>11. ASSUME NEW j \in 1 .. n + 1, NEW k \in 1 .. n + 1, j < k
       PROVE  shifted[j] <= shifted[k]
  <2>1. j \in 1 .. n /\ shifted[j] = skipped[j]
    BY <1>2, <1>10, <1>11
  <2>2. skipped[j] \in 0 .. Missing
    BY <1>1, <2>1
  <2>3. CASE k = n + 1
    <3>1. shifted[k] = Missing /\ Missing \in Nat
      BY <1>10, <2>3, FileTyped
    <3> QED  BY <2>1, <2>2, <3>1
  <2>4. CASE k # n + 1
    <3>1. k \in 1 .. n /\ shifted[k] = skipped[k]
      BY <1>2, <1>10, <2>4
    <3> QED  BY <1>1, <1>11, <2>1, <3>1 DEF InOrder
  <2> QED  BY <2>3, <2>4
<1>12. ASSUME NEW k \in Whole'
       PROVE  data'[k] = Encoded(PlayedSample(k + shifted[k]))'
  <2>1. CASE k \in Whole
    <3>1. k \in 1 .. n /\ shifted[k] = skipped[k]
      BY <1>2, <1>10, <2>1, FileTyped
    <3>2. data'[k] = Encoded(PlayedSample(k + shifted[k]))
      BY <1>1, <1>2, <2>1, <3>1 DEF InOrder
    <3> QED  BY <3>2 DEF Encoded, PlayedSample
  <2>2. CASE k \notin Whole
    <3>1. k = n + 1 /\ x # Torn
      BY <1>4, <1>12, <2>2
    <3>2. shifted[k] = Missing
      BY <1>2, <1>10, <3>1
    <3>3. k + shifted[k] = Due + 1
      BY <1>2, <3>1, <3>2, FileTyped
    <3>4. data'[k] = Encoded(PlayedSample(k + shifted[k]))
      BY <1>2, <3>1, <3>3
    <3> QED  BY <3>4 DEF Encoded, PlayedSample
  <2> QED  BY <2>1, <2>2
<1>13. InOrder(shifted)'
  BY <1>2, <1>11, <1>12 DEF InOrder
<1>14. shifted \in [1 .. Len(data') -> 0 .. Missing']
  BY <1>2, <1>3, <1>10
<1> QED  BY <1>9, <1>13, <1>14 DEF FileAgrees

\* The range of a register is a multiple of the last bit of a sample.
LEMMA UnitDivides ==
  ASSUME NEW bits
  PROVE  Unit(bits) \in Nat \ {0} /\ \E m \in Nat \ {0} : kIntRange = m * Unit(bits)
<1>1. PICK n \in 1 .. kIntRange : kIntRange = 32 * (S15Unit * n)
  BY WidthAssumption
<1>2. CASE bits = 16
  <2>1. Unit(bits) = S15Unit /\ S15Unit \in Nat \ {0} /\ 32 * n \in Nat \ {0}
    BY <1>2, WidthAssumption, RangeAssumption DEF Unit
  <2>2. kIntRange = (32 * n) * Unit(bits)
    BY <1>1, <2>1
  <2> QED  BY <2>1, <2>2
<1>3. CASE bits # 16
  <2>1. Unit(bits) \in Nat \ {0} /\ kIntRange = kIntRange * Unit(bits)
    BY <1>3, RangeAssumption DEF Unit
  <2> QED  BY <2>1, RangeAssumption, Zenon
<1> QED  BY <1>2, <1>3, Zenon

\* Quotients of multiples.
LEMMA QuotientOfMultiple ==
  ASSUME NEW u \in Nat \ {0}, NEW m \in Nat
  PROVE  (m * u) \div u = m
<1> DEFINE q == (m * u) \div u
           r == (m * u) % u
<1>1. m * u \in Nat
  OBVIOUS
<1>2. q \in Nat /\ r \in 0 .. u - 1 /\ m * u = u * q + r
  BY <1>1
<1> HIDE DEF q, r
<1>3. q * u \in Nat /\ (q + 1) * u \in Nat /\ (m + 1) * u \in Nat
      /\ u * q = q * u /\ (q + 1) * u = q * u + u /\ (m + 1) * u = m * u + u
  BY <1>2
<1>4. m < q + 1
  BY <1>1, <1>2, <1>3, FactorIsLess
<1>5. q < m + 1
  BY <1>1, <1>2, <1>3, FactorIsLess
<1> QED  BY <1>2, <1>4, <1>5 DEF q

\* The encoding of a sample is a number, and a player gets it back to within
\* the bits it lacks: the sign too.
LEMMA RoundTrip ==
  ASSUME NEW v \in SF23
  PROVE  /\ Encoded(v) \in Nat
         /\ v - Decoded(Encoded(v)) \in 0 .. Unit(options.bits_per_sample) - 1
<1> DEFINE u == Unit(options.bits_per_sample)
<1>1. u \in Nat \ {0} /\ \E m \in Nat \ {0} : kIntRange = m * u
  BY UnitDivides, Zenon
<1> HIDE DEF u
<1>2. PICK m \in Nat \ {0} : kIntRange = m * u
  BY <1>1
<1>3. u \in Nat \ {0}
  BY <1>1
<1>4. kIntRange \div u = m /\ (2 * kIntRange) \div u = 2 * m
  <2>1. 2 * kIntRange = (2 * m) * u /\ 2 * m \in Nat
    BY <1>2, <1>3
  <2> QED  BY <1>2, <1>3, <2>1, QuotientOfMultiple
<1> DEFINE q == v \div u
           r == v % u
<1>5. q \in Int /\ r \in 0 .. u - 1 /\ v = u * q + r
  BY <1>3, FormatsAreInt
<1>6. q \in -m .. m - 1
  <2>1. v \in -(m * u) .. m * u
    BY <1>2, RangeAssumption DEF SF23, MIN, MAX
  <2>2. q \in -m .. m
    BY <1>2, <1>3, <2>1, QuotientBound
  <2> HIDE DEF q, r
  <2>3. q # m
    <3>1. v < m * u /\ v \in Int /\ m * u \in Int /\ u * m = m * u
      BY <1>2, <1>3, RangeAssumption DEF SF23, MIN, MAX
    <3> QED  BY <1>3, <1>5, <3>1
  <2> QED  BY <1>2, <2>2, <2>3
<1> HIDE DEF q, r
<1>7. q % (2 * m) = IF q < 0 THEN q + 2 * m ELSE q
  <2> DEFINE n == 2 * m
  <2>1. n \in Nat \ {0} /\ q \in -n .. n - 1
    BY <1>2, <1>6
  <2>2. q % n = IF q < 0 THEN q + n ELSE q
    <3> HIDE DEF n
    <3>1. CASE q < 0
      <4>1. q = n * (-1) + (q + n) /\ q + n \in 0 .. n - 1
        BY <2>1, <3>1
      <4> QED  BY <2>1, <3>1, <4>1
    <3>2. CASE q >= 0
      BY <2>1, <3>2
    <3> QED  BY <2>1, <3>1, <3>2
  <2> QED  BY <2>2
<1>8. Encoded(v) = q % (2 * m)
  BY <1>4 DEF Encoded, u, q
<1>9. Decoded(Encoded(v)) = u * q
  <2>1. Decoded(Encoded(v)) = u * (IF Encoded(v) < m THEN Encoded(v) ELSE Encoded(v) - (2 * m))
    BY <1>4 DEF Decoded, u
  <2>2. (IF Encoded(v) < m THEN Encoded(v) ELSE Encoded(v) - (2 * m)) = q
    BY <1>2, <1>6, <1>7, <1>8
  <2> QED  BY <2>1, <2>2
<1>10. v - u * q = r
  <2>1. u * q \in Int
    BY <1>3, <1>5
  <2> QED  BY <1>5, <2>1
<1> QED  BY <1>2, <1>5, <1>6, <1>7, <1>8, <1>9, <1>10 DEF u

\* The next sample to be written is the first that is not in the file yet.
LEMMA NextIsPlayed ==
  ASSUME FileInv, HostInv, PlayedInv, Sounding, stage = "write",
         written \in 0 .. 2 * blocksize - 1
  PROVE  /\ NextSample \in SF23
         /\ NextSample = PlayedSample(2 * FramesBefore + written + 1)
<1> DEFINE j == written \div 2
           b == FramesBefore
<1>1. /\ options.sample_count \in Nat /\ sample_count \in 0 .. options.sample_count
      /\ blocksize \in Nat /\ blocksize <= options.blocksize /\ options.blocksize \in Nat
  BY CallTyped, HostAssumption DEF HostInv
<1>2. b \in Nat
  BY <1>1 DEF FramesBefore
<1> HIDE DEF b
<1>3. /\ j \in 0 .. blocksize - 1
      /\ \/ written = 2 * j /\ written % 2 = 0
         \/ written = 2 * j + 1 /\ written % 2 = 1
  BY <1>1
<1>4. j \in 0 .. options.blocksize - 1
  BY <1>1, <1>3
<1> HIDE DEF j
<1>5. b + 1 + j = ((2 * b + written + 1) + 1) \div 2
  BY <1>1, <1>2, <1>3
<1>6. 1 + (written % 2) = IF (2 * b + written + 1) % 2 = 1 THEN 1 ELSE 2
  BY <1>1, <1>2, <1>3
<1>7. frames[j] \in SF23 \X SF23 /\ frames[j] = played[b + 1 + j]
  <2>1. FramesOfBlock = blocksize
    BY DEF FramesOfBlock
  <2> QED  BY <1>3, <1>4, <2>1 DEF PlayedInv, b
<1>8. 1 + (written % 2) \in {1, 2}
  BY <1>3
<1>9. PlayedSample(2 * b + written + 1) = frames[j][1 + (written % 2)]
  BY <1>5, <1>6, <1>7 DEF PlayedSample
<1>10. NextSample = frames[j][1 + (written % 2)]
  BY DEF NextSample, j
<1>11. frames[j][1 + (written % 2)] \in SF23
  BY <1>7, <1>8
<1> QED  BY <1>9, <1>10, <1>11 DEF b

\* The samples of a block go into the file one by one, in the order in which
\* they were played.
LEMMA DataNext ==
  ASSUME FileInv, HostInv, Inv, PlayedInv, DataInv, [ToolNext]_tool
  PROVE  DataInv'
<1>0. /\ options.sample_count \in Nat /\ options.blocksize \in Nat
      /\ sample_count \in Nat /\ blocksize \in Nat /\ sample_count <= options.sample_count
  BY CallTyped, HostAssumption DEF HostInv
<1>2. CASE ~Render
  <2>1. /\ UNCHANGED <<vars, options, wav>> /\ (Sounding' <=> Sounding)
        /\ Sounding => stage' = stage
        /\ ~Sounding /\ stage' = "write" => stage' = stage
    BY <1>2, QuietSound
  <2>2. UNCHANGED <<sample_count, blocksize, data, header, lost, written, played, options>>
    BY <2>1 DEF wav
  <2>3. DataTyped'
    BY <2>1, <2>2 DEF DataInv, DataTyped, WAVHeader, bytes_per_sample
  <2>4. Sounding => Due' = Due
    BY <2>1, <2>2 DEF Due, SamplesOfBlock, FramesBefore
  <2> QED  BY <2>1, <2>2, <2>3, <2>4, FileStays DEF DataInv
<1>3. CASE Render
  <2>0. /\ stage \in Rendering /\ options.tool = "wav" /\ options' = options
        /\ WAVHeader' = WAVHeader
    BY <1>3
    DEF Render, WavNext, CompileProgram, OpenOutput, WriteHeader, NextBlock, CallExecute,
        ExecuteFrame, EndOfFrame, ReturnFromExecute, WriteSample, LoseSample, EndOfBlock,
        CloseOutput, Rendering, Selected, FileInv, WAVHeader, bytes_per_sample
  <2>1. CASE CompileProgram(program) \/ OpenOutput
    <3>1. ~Sounding /\ ~Sounding' /\ stage' # "write"
          /\ UNCHANGED <<data, header, lost>>
      BY <2>0, <2>1 DEF CompileProgram, OpenOutput, Sounding, wav
    <3> QED  BY <2>0, <3>1 DEF DataInv, DataTyped
  <2>2. CASE WriteHeader
    <3>1. /\ stage = "header" /\ stage' = "loop" /\ ~Sounding /\ Sounding'
          /\ sample_count' = options.sample_count /\ data' = data
          /\ \/ header' = {WAVHeader} /\ lost' = 0
             \/ header' = {} /\ lost' = 1
      BY <2>0, <2>2 DEF WriteHeader, Sounding, DataInv, DataTyped
    <3>2. data' = <<>> /\ Len(data') = 0 /\ DOMAIN data' = {}
      BY <3>1 DEF DataInv, DataTyped
    <3>3. DataTyped'
      <4>1. lost' \in Nat /\ header' \subseteq {WAVHeader'}
            /\ (header' = {} => lost' # 0)
        BY <2>0, <3>1
      <4>2. data' \in Seq(Int)
        BY <3>2
      <4> QED  BY <3>1, <4>1, <4>2 DEF DataTyped
    <3>4. Due' = 0 /\ SamplesLost' = 0
      BY <1>0, <2>0, <3>1 DEF Due, FramesBefore, SamplesOfBlock, SamplesLost
    <3>5. Missing' = 0 /\ Whole' = {} /\ Cardinality(Whole') = 0
      <4>1. Missing' = 0
        <5>1. Missing' = Due' - Len(data')
          BY DEF Missing
        <5> QED  BY <3>2, <3>4, <5>1
      <4>2. Whole' = {}
        BY <3>2 DEF Whole
      <4> QED  BY <4>1, <4>2, FS_EmptySet
    <3>6. InOrder(<<>>)' /\ <<>> \in [1 .. Len(data') -> 0 .. Missing']
      BY <3>2, <3>5 DEF InOrder
    <3>7. FileAgrees'
      <4>1. Missing' \in 0 .. SamplesLost' /\ Cardinality(Whole') = Due' - SamplesLost'
        BY <3>4, <3>5
      <4> QED  BY <3>6, <4>1 DEF FileAgrees
    <3> QED  BY <3>3, <3>7 DEF DataInv
  <2>3. CASE NextBlock \/ CallExecute \/ ExecuteFrame \/ EndOfFrame
             \/ ReturnFromExecute \/ CloseOutput
    <3>1. /\ UNCHANGED <<sample_count, data, header, lost>>
          /\ Sounding /\ Sounding' /\ stage # "write"
          /\ stage' = "write" => written' = 0 /\ blocksize' = blocksize
      BY <2>0, <2>3
      DEF NextBlock, CallExecute, ExecuteFrame, EndOfFrame, ReturnFromExecute,
          CloseOutput, Sounding, wav
    <3>2. played' = played \/ \E f \in SF23 \X SF23 : played' = Append(played, f)
      <4>1. CASE EndOfFrame
        BY <4>1, HostRegisters DEF EndOfFrame, EndFrame, Output, Inv, Typed
      <4> QED  BY <2>3, <4>1
               DEF NextBlock, CallExecute, ExecuteFrame, ReturnFromExecute, CloseOutput, wav
    <3>3. DataTyped'
      BY <1>0, <2>0, <3>1 DEF DataInv, DataTyped
    <3>4. Due' = Due
      BY <2>0, <3>1 DEF Due, SamplesOfBlock, FramesBefore
    <3> QED  BY <2>0, <3>1, <3>2, <3>3, <3>4, FileStays DEF DataInv
  <2>4. CASE WriteSample
    <3> DEFINE b == FramesBefore
    <3>1. /\ UNCHANGED <<sample_count, blocksize, header, lost, played, stage>>
          /\ stage = "write" /\ written < 2 * blocksize /\ written' = written + 1
          /\ data' = Append(data, Encoded(NextSample))
          /\ Sounding /\ Sounding'
      BY <2>0, <2>4 DEF WriteSample, Sounding
    <3>2. written \in 0 .. 2 * blocksize - 1 /\ b \in Nat /\ b' = b
      <4>1. written \in 0 .. 2 * blocksize
        BY <3>1 DEF DataInv, DataTyped
      <4>2. b' = b
        BY <2>0, <3>1 DEF FramesBefore
      <4>3. b \in Nat
        BY <1>0 DEF FramesBefore
      <4> QED  BY <1>0, <3>1, <4>1, <4>2, <4>3
    <3>3. NextSample \in SF23 /\ NextSample = PlayedSample(2 * b + written + 1)
      BY <3>1, <3>2, NextIsPlayed
    <3>4. Encoded(NextSample) \in Int /\ Encoded(NextSample) # Torn
      BY <3>3, RoundTrip DEF Torn
    <3>5. data' \in Seq(Int)
      BY <3>1, <3>4 DEF DataInv, DataTyped
    <3>6. DataTyped'
      BY <1>0, <2>0, <3>1, <3>2, <3>5 DEF DataInv, DataTyped
    <3>7. Due = 2 * b + written /\ Due' = Due + 1
      BY <3>1, <3>2 DEF Due, SamplesOfBlock
    <3>8. Encoded(NextSample) = Encoded(PlayedSample(Due + 1))
      BY <3>2, <3>3, <3>7
    <3> QED  BY <2>0, <3>1, <3>4, <3>6, <3>7, <3>8, FileGrows DEF DataInv
  <2>5. CASE LoseSample
    <3>1. /\ UNCHANGED <<sample_count, blocksize, header, stage, played>> /\ stage = "write"
          /\ written < 2 * blocksize /\ written' = written + 1 /\ lost' = lost + 1
          /\ data' \in {data, Append(data, Torn)} /\ Sounding /\ Sounding'
      BY <2>0, <2>5 DEF LoseSample, Sounding
    <3>2. data' \in Seq(Int)
      <4>1. Torn \in Int /\ data \in Seq(Int)
        BY DEF Torn, DataInv, DataTyped
      <4>2. Append(data, Torn) \in Seq(Int)
        BY <4>1
      <4>3. data' = data \/ data' = Append(data, Torn)
        BY <3>1
      <4> QED  BY <4>1, <4>2, <4>3
    <3>3. lost \in Nat /\ lost' \in Nat /\ lost' # 0
      BY <3>1 DEF DataInv, DataTyped
    <3>4. DataTyped'
      BY <1>0, <2>0, <3>1, <3>2, <3>3 DEF DataInv, DataTyped
    <3>5. Due' = Due + 1
      <4> DEFINE b == FramesBefore
      <4>1. written \in 0 .. 2 * blocksize
        BY <3>1 DEF DataInv, DataTyped
      <4>2. b \in Nat /\ b' = b
        BY <1>0, <2>0, <3>1 DEF FramesBefore
      <4>3. Due = 2 * b + written /\ Due' = 2 * b' + (written + 1)
        BY <3>1 DEF Due, SamplesOfBlock
      <4> HIDE DEF b
      <4> QED  BY <1>0, <4>1, <4>2, <4>3
    <3>6. CASE data' = data
      BY <2>0, <3>1, <3>4, <3>5, <3>6, FileLacks DEF DataInv
    <3>7. CASE data' = Append(data, Torn)
      <4>1. Torn \in Int
        BY DEF Torn
      <4> QED  BY <2>0, <3>1, <3>4, <3>5, <3>7, <4>1, FileGrows DEF DataInv
    <3> QED  BY <3>1, <3>6, <3>7
  <2>6. CASE EndOfBlock
    <3>1. /\ UNCHANGED <<data, header, lost, played>> /\ stage = "write" /\ stage' = "loop"
          /\ written = 2 * blocksize /\ sample_count' = sample_count - blocksize
          /\ Sounding /\ Sounding'
      BY <2>0, <2>6 DEF EndOfBlock, Sounding
    <3>2. DataTyped'
      BY <2>0, <3>1 DEF DataInv, DataTyped
    <3>3. Due' = Due
      BY <1>0, <2>0, <3>1 DEF Due, FramesBefore, SamplesOfBlock
    <3> QED  BY <2>0, <3>1, <3>2, <3>3, FileStays DEF DataInv
  <2> QED  BY <1>3, <2>1, <2>2, <2>3, <2>4, <2>5, <2>6 DEF Render, WavNext
<1> QED  BY <1>2, <1>3

\* Both hold of every file.
LEMMA SoundInvariant ==
  ToolSpec => [](FileInv /\ HostInv /\ Inv /\ PlayedInv /\ DataInv)
<1>1. ToolInit => PlayedInv /\ DataInv
  BY DEF ToolInit, WavInit, PlayedInv, DataInv, DataTyped, Sounding
<1>2. FileInv /\ HostInv /\ Inv /\ PlayedInv /\ DataInv /\ [ToolNext]_tool
        => PlayedInv' /\ DataInv'
  BY PlayedNext, DataNext
<1> QED  BY <1>1, <1>2, HostInvariant, PTL DEF ToolSpec

\* The file has every sample that was played, once and in order, and in the
\* end as many as were asked for, but for the ones whose own write has failed:
\* for every number of samples, size of the blocks and width, and whatever
\* writes fail.
THEOREM WrittenAsPlayed == ToolSpec => []FileIsWhatPlayed
<1>1. ASSUME FileInv, HostInv, Inv, PlayedInv, DataInv
      PROVE  FileIsWhatPlayed
  <2>1. Len(data) \in Nat /\ Len(played) \in Nat /\ data \in Seq(Int)
        /\ DOMAIN data = 1 .. Len(data)
    BY <1>1 DEF DataInv, DataTyped, PlayedInv
  <2>2. CASE ~Sounding
    <3>1. data = <<>> /\ header = {} /\ lost = 0
      BY <1>1, <2>2 DEF DataInv, DataTyped
    <3>2. DOMAIN data = {} /\ Whole = {}
      BY <3>1 DEF Whole
    <3>3. <<>> \in [DOMAIN data -> 0 .. 2 * Len(played) - Len(data)]
      BY <3>2
    <3>4. /\ \A j, k \in DOMAIN data : j < k => <<>>[j] <= <<>>[k]
          /\ \A k \in Whole :
               /\ <<>>[k] <= SamplesLost
               /\ PlayedSample(k + <<>>[k]) - Decoded(data[k])
                    \in 0 .. Unit(options.bits_per_sample) - 1
      BY <3>2
    <3>5. ~(header # {} \/ lost > 0)
      BY <3>1
    <3> QED  BY <3>3, <3>4, <3>5 DEF FileIsWhatPlayed
  <2>3. CASE Sounding
    <3>1. PICK skipped \in [1 .. Len(data) -> 0 .. Missing] : InOrder(skipped)
      BY <1>1, <2>3 DEF DataInv, FileAgrees
    <3>2. 0 .. Missing \subseteq 0 .. 2 * Len(played) - Len(data)
      BY <1>1, <2>3, FileTyped
    <3>3. skipped \in [DOMAIN data -> 0 .. 2 * Len(played) - Len(data)]
      BY <2>1, <3>1, <3>2
    <3>4. ASSUME NEW k \in Whole
          PROVE  /\ skipped[k] <= SamplesLost
                 /\ PlayedSample(k + skipped[k]) - Decoded(data[k])
                      \in 0 .. Unit(options.bits_per_sample) - 1
      <4>1. k \in 1 .. Len(data) /\ skipped[k] \in 0 .. Missing
        BY <1>1, <2>3, <3>1, FileTyped
      <4>2. skipped[k] <= SamplesLost
        BY <1>1, <2>3, <4>1, FileTyped
      <4> DEFINE m == k + skipped[k]
      <4>3. m \in 1 .. 2 * Len(played)
        BY <1>1, <2>3, <4>1, FileTyped
      <4>4. data[k] = Encoded(PlayedSample(m))
        BY <3>1 DEF InOrder
      <4> HIDE DEF m
      <4>5. PlayedSample(m) \in SF23
        <5>1. (m + 1) \div 2 \in 1 .. Len(played)
          BY <2>1, <4>3
        <5> QED  BY <1>1, <5>1 DEF PlayedSample, PlayedInv
      <4>6. PlayedSample(m) - Decoded(data[k])
              \in 0 .. Unit(options.bits_per_sample) - 1
        BY <4>4, <4>5, RoundTrip
      <4> QED  BY <4>2, <4>6 DEF m
    <3>5. stage = "done" =>
            /\ Len(played) = options.sample_count
            /\ Cardinality(Whole) = 2 * options.sample_count - SamplesLost
      <4>1. options.sample_count \in Nat
        BY <1>1, CallTyped, HostAssumption
      <4> QED  BY <1>1, <2>3, <4>1
               DEF PlayedInv, DataInv, FileAgrees, Due, FramesBefore, FramesOfBlock,
                   SamplesOfBlock
    <3>6. \A j, k \in DOMAIN data : j < k => skipped[j] <= skipped[k]
      BY <2>1, <3>1 DEF InOrder
    <3> QED  BY <3>3, <3>4, <3>5, <3>6 DEF FileIsWhatPlayed
  <2> QED  BY <2>2, <2>3
<1> QED  BY <1>1, SoundInvariant, PTL

\* The sizes in the header are those of the file with what it lacks: no more is
\* missing than was lost, and there is never more in the file.
THEOREM HeaderTells == ToolSpec => []HeaderTellsSize
<1>1. ASSUME FileInv, HostInv, Inv, PlayedInv, DataInv
      PROVE  HeaderTellsSize
  <2> DEFINE bps == bytes_per_sample
             len == Len(data)
             gone == SamplesLost
             samples == options.sample_count
  <2>1. SUFFICES ASSUME NEW h \in header, stage = "done",
                        kHeaderSize + bps * len + bps * gone < kSizeRange
                 PROVE  /\ h.data \in bps * len .. bps * len + bps * gone
                        /\ h.riff = kHeaderSize + h.data
    BY DEF HeaderTellsSize
  <2>2. Sounding /\ h = WAVHeader
    BY <1>1, <2>1 DEF DataInv, DataTyped
  <2>3. samples \in Nat /\ bps \in {2, 3}
    <3>1. options.tool = "wav"
      BY <1>1, <2>2 DEF Sounding
    <3>2. options.bits_per_sample \in {16, 24}
      BY <1>1, <2>1, <3>1 DEF FileInv, ValidOptions
    <3>3. bps \in {2, 3}
      BY <3>2 DEF bytes_per_sample
    <3> QED  BY <1>1, <3>3, CallTyped, HostAssumption
  <2>4. len \in Nat /\ gone \in Nat /\ len <= 2 * samples /\ 2 * samples <= len + gone
    <3>1. Due = 2 * samples
      BY <1>1, <2>1, <2>2, <2>3 DEF PlayedInv, Due, FramesBefore, SamplesOfBlock
    <3>2. /\ len \in Nat /\ gone \in Nat
          /\ Missing \in Nat /\ Missing <= gone /\ len + Missing = Due
      BY <1>1, <2>2, FileTyped
    <3> HIDE DEF len, gone, samples
    <3> QED  BY <2>3, <3>1, <3>2
  <2>5. kSizeRange \in Nat \ {0}
    BY WavAssumption
  <2>6. h = [riff |-> (kHeaderSize + samples * 2 * bps) % kSizeRange,
             data |-> (2 * (samples % kSizeRange) * bps) % kSizeRange]
    BY <2>2 DEF WAVHeader
  <2> HIDE DEF bps, samples, len, gone
  <2> DEFINE bytes == samples * 2 * bps
  <2>7. bytes = 2 * samples * bps /\ bytes \in bps * len .. bps * len + bps * gone
    BY <2>3, <2>4
  <2>8. /\ bytes \in 0 .. kSizeRange - 1 /\ kHeaderSize + bytes \in 0 .. kSizeRange - 1
        /\ samples \in 0 .. kSizeRange - 1
    BY <2>1, <2>3, <2>4, <2>5, <2>7 DEF kHeaderSize
  <2> HIDE DEF bytes
  <2>9. /\ samples % kSizeRange = samples
        /\ bytes % kSizeRange = bytes
        /\ (kHeaderSize + bytes) % kSizeRange = kHeaderSize + bytes
    BY <2>5, <2>8, RemainderOfSmall
  <2>10. h.riff = kHeaderSize + bytes /\ h.data = bytes
    BY <2>6, <2>7, <2>9 DEF bytes
  <2> QED  BY <2>7, <2>10 DEF len, gone, bps
<1> QED  BY <1>1, SoundInvariant, PTL

-----------------------------------------------------------------------------
(***************************************************************************)
(* The disassembly.  Whatever comes after a line is another line for a     *)
(* later word, or a count: the lines so far keep telling the same words.   *)
(***************************************************************************)
LineItem == [ic : Nat, raw : Word]
CountItem == [repeats : Nat]
Item == LineItem \cup CountItem

\* The run that is being counted: the last count words, equal to last.
RunSoFar ==
  /\ count \in 0 .. head
  /\ \A i \in head - count .. head - 1 : program[i] = last
  /\ head - count > 0 => program[head - count - 1] # last
  /\ IF head = 0 THEN last = AllOnes
     ELSE count > 0 /\ last = program[head - 1]

ListingInv ==
  /\ head \in 0 .. kLength /\ line_ic = head /\ last \in Word
  /\ listing \in Seq(Item)
  /\ \A k \in Lines : listing[k].ic < head
  /\ stage \in {"parse", "read", "check", "select"} => head = 0 /\ listing = <<>>
  /\ RunSoFar
  /\ ListingTellsProgram

\* Only lines have an ic.
LEMMA KindsOfItem ==
  /\ \A x \in LineItem : "ic" \in DOMAIN x /\ x.ic \in Nat
  /\ \A x \in CountItem : "ic" \notin DOMAIN x /\ x.repeats \in Nat
  BY DEF LineItem, CountItem

\* A count goes behind what is there, or nothing does.
LEMMA CountBehind ==
  ASSUME NEW s \in Seq(Item), NEW n \in Nat
  PROVE  /\ s \o Repeats(n) \in Seq(Item)
         /\ Len(s \o Repeats(n)) = Len(s) + (IF n > 1 THEN 1 ELSE 0)
         /\ \A k \in 1 .. Len(s) : (s \o Repeats(n))[k] = s[k]
         /\ n > 1 => (s \o Repeats(n))[Len(s) + 1] = [repeats |-> n]
<1>1. CASE n > 1
  <2> DEFINE c == [repeats |-> n]
  <2>1. c \in Item
    BY DEF Item, CountItem
  <2> HIDE DEF c
  <2>2. Repeats(n) = <<c>>
    BY <1>1 DEF Repeats, c
  <2>3. <<c>> \in Seq(Item) /\ Len(<<c>>) = 1 /\ <<c>>[1] = c
    BY <2>1
  <2>4. /\ s \o <<c>> \in Seq(Item) /\ Len(s \o <<c>>) = Len(s) + 1
        /\ \A k \in 1 .. Len(s) : (s \o <<c>>)[k] = s[k]
        /\ (s \o <<c>>)[Len(s) + 1] = c
    BY <2>1, <2>3
  <2> QED  BY <1>1, <2>2, <2>4 DEF c
<1>2. CASE ~(n > 1)
  <2>1. Repeats(n) = <<>>
    BY <1>2 DEF Repeats
  <2>2. s \o <<>> = s
    OBVIOUS
  <2> QED  BY <1>2, <2>1, <2>2
<1> QED  BY <1>1, <1>2

\* A count does not change what the lines tell.
LEMMA CountTellsNoWord ==
  ASSUME ListingInv, listing' = listing \o Repeats(count)
  PROVE  /\ listing' \in Seq(Item)
         /\ Lines' = Lines /\ \A k \in Lines : listing'[k] = listing[k]
         /\ \A i \in Nat : Shown(i)' = Shown(i)
<1>1. listing \in Seq(Item) /\ count \in Nat
  BY DEF ListingInv, RunSoFar
<1>2. /\ listing' \in Seq(Item)
      /\ Len(listing') = Len(listing) + (IF count > 1 THEN 1 ELSE 0)
      /\ \A k \in 1 .. Len(listing) : listing'[k] = listing[k]
      /\ count > 1 => listing'[Len(listing) + 1] = [repeats |-> count]
  BY <1>1, CountBehind
<1>3. count > 1 => "ic" \notin DOMAIN listing'[Len(listing) + 1]
  <2>1. [repeats |-> count] \in CountItem
    BY <1>1 DEF CountItem
  <2> QED  BY <1>2, <2>1, KindsOfItem
<1>4. /\ DOMAIN listing = 1 .. Len(listing) /\ Len(listing) \in Nat
      /\ DOMAIN listing' = 1 .. Len(listing')
  BY <1>1, <1>2
<1>5. Lines' = Lines /\ \A k \in Lines : listing'[k] = listing[k]
  BY <1>2, <1>3, <1>4 DEF Lines
<1>6. ASSUME NEW i \in Nat
      PROVE  Shown(i)' = Shown(i)
  <2>1. LineOf(i)' = LineOf(i)
    BY <1>5 DEF LineOf, LinesUpTo
  <2>2. LineOf(i) \subseteq Lines
    BY DEF LineOf, LinesUpTo
  <2> QED  BY <1>5, <2>1, <2>2 DEF Shown
<1> QED  BY <1>2, <1>5, <1>6

\* The line behind all others tells the word at the head, and no word before it.
LEMMA NewestLine ==
  ASSUME NEW n \in Nat, NEW word, head \in Nat, Lines \subseteq 1 .. n,
         \A k \in Lines : /\ listing'[k] = listing[k]
                          /\ listing[k].ic \in Nat /\ listing[k].ic < head,
         Lines' = Lines \cup {n + 1},
         listing'[n + 1].ic = head, listing'[n + 1].raw = word
  PROVE  /\ \A k \in Lines' : listing'[k].ic < head + 1
         /\ \A i \in 0 .. head - 1 : Shown(i)' = Shown(i)
         /\ \A i \in Nat : i = head => Shown(i)' = {word}
<1>1. \A k \in Lines' : listing'[k].ic \in Nat /\ listing'[k].ic < head + 1
  OBVIOUS
<1>2. ASSUME NEW i \in 0 .. head - 1
      PROVE  Shown(i)' = Shown(i)
  <2>1. LinesUpTo(i)' = LinesUpTo(i)
    <3>1. LinesUpTo(i)' = {k \in Lines' : listing'[k].ic <= i}
      BY DEF LinesUpTo
    <3>2. ~(listing'[n + 1].ic <= i)
      OBVIOUS
    <3> QED  BY <3>1, <3>2 DEF LinesUpTo
  <2>2. LineOf(i)' = LineOf(i)
    BY <2>1 DEF LineOf
  <2>3. LineOf(i) \subseteq Lines
    BY DEF LineOf, LinesUpTo
  <2> QED  BY <2>2, <2>3 DEF Shown
<1>3. ASSUME NEW i \in Nat, i = head
      PROVE  Shown(i)' = {word}
  <2>1. LinesUpTo(i)' = Lines'
    <3>1. LinesUpTo(i)' = {k \in Lines' : listing'[k].ic <= i}
      BY DEF LinesUpTo
    <3>2. \A k \in Lines' : listing'[k].ic <= i
      BY <1>1, <1>3
    <3> QED  BY <3>1, <3>2
  <2>2. LineOf(i)' = {k \in Lines' : \A m \in Lines' : m <= k}
    BY <2>1 DEF LineOf
  <2>3. \A k \in Lines' : (\A m \in Lines' : m <= k) <=> k = n + 1
    OBVIOUS
  <2>4. LineOf(i)' = {n + 1}
    BY <2>2, <2>3
  <2> QED  BY <2>4 DEF Shown
<1> QED  BY <1>1, <1>2, <1>3

\* A line for the word at the head: the words before it are told as they were.
LEMMA LineTellsWord ==
  ASSUME ListingInv, NEW word \in Word,
         listing' = Append(listing, Line(head, word)) \o Repeats(count)
  PROVE  /\ listing' \in Seq(Item)
         /\ Len(listing') = Len(listing) + 1 + (IF count > 1 THEN 1 ELSE 0)
         /\ \A k \in 1 .. Len(listing) : listing'[k] = listing[k]
         /\ listing'[Len(listing) + 1] = Line(head, word) /\ Len(listing) + 1 \in Lines'
         /\ count > 1 => listing'[Len(listing) + 2] = [repeats |-> count]
         /\ \A k \in Lines' : listing'[k].ic < head + 1
         /\ \A i \in 0 .. head - 1 : Shown(i)' = Shown(i)
         /\ \A i \in Nat : i = head => Shown(i)' = {word}
<1> DEFINE line == Line(head, word)
           longer == Append(listing, line)
           n == Len(listing)
<1>1. /\ listing \in Seq(Item) /\ n \in Nat /\ count \in Nat /\ head \in Nat
      /\ DOMAIN listing = 1 .. n
  BY LengthAssumption DEF ListingInv, RunSoFar
<1>2. line \in LineItem /\ line.ic = head /\ line.raw = word
  BY <1>1 DEF Line, LineItem
<1>3. line \in Item
  BY <1>2 DEF Item
<1> HIDE DEF line
<1>4. /\ longer \in Seq(Item) /\ Len(longer) = n + 1 /\ longer[n + 1] = line
      /\ \A k \in 1 .. n : longer[k] = listing[k]
  BY <1>1, <1>3
<1>5. listing' = longer \o Repeats(count)
  BY DEF line
<1> HIDE DEF longer
<1>6. /\ listing' \in Seq(Item)
      /\ Len(listing') = n + 1 + (IF count > 1 THEN 1 ELSE 0)
      /\ \A k \in 1 .. n + 1 : listing'[k] = longer[k]
      /\ count > 1 => listing'[n + 2] = [repeats |-> count]
  BY <1>1, <1>4, <1>5, CountBehind
<1> HIDE DEF n
<1>7. count > 1 => "ic" \notin DOMAIN listing'[n + 2]
  <2>1. [repeats |-> count] \in CountItem
    BY <1>1 DEF CountItem
  <2> QED  BY <1>6, <2>1, KindsOfItem
<1>8. Lines' = Lines \cup {n + 1}
  <2>1. DOMAIN listing' = 1 .. Len(listing')
    BY <1>6
  <2>2. "ic" \in DOMAIN listing'[n + 1]
    BY <1>1, <1>2, <1>4, <1>6, KindsOfItem
  <2> QED  BY <1>1, <1>4, <1>6, <1>7, <2>1, <2>2 DEF Lines
<1>9. /\ listing'[n + 1].ic = head /\ listing'[n + 1].raw = word
      /\ Lines \subseteq 1 .. n /\ \A k \in Lines : listing'[k] = listing[k]
  <2>1. listing'[n + 1] = line
    BY <1>1, <1>4, <1>6
  <2>2. Lines \subseteq 1 .. n
    BY <1>1 DEF Lines
  <2>3. \A k \in 1 .. n : listing'[k] = listing[k]
    BY <1>1, <1>4, <1>6
  <2> QED  BY <1>2, <2>1, <2>2, <2>3
<1>10. \A k \in Lines : listing[k].ic \in Nat /\ listing[k].ic < head
  <2>1. \A k \in Lines : listing[k] \in LineItem
    BY <1>1, KindsOfItem DEF Lines, Item
  <2> QED  BY <2>1, KindsOfItem DEF ListingInv
<1>11. /\ listing'[n + 1] = line
       /\ \A k \in 1 .. n : listing'[k] = listing[k]
  BY <1>1, <1>4, <1>6
<1>12. /\ \A k \in Lines' : listing'[k].ic < head + 1
       /\ \A i \in 0 .. head - 1 : Shown(i)' = Shown(i)
       /\ \A i \in Nat : i = head => Shown(i)' = {word}
  BY <1>1, <1>8, <1>9, <1>10, NewestLine
<1> QED  BY <1>6, <1>8, <1>11, <1>12 DEF n, line

\* A word that is repeated is told by the line of the word before it, or by
\* there being no line.
LEMMA RepeatIsTold ==
  ASSUME ListingInv
  PROVE  Shown(head) = {last}
<1>1. /\ listing \in Seq(Item) /\ head \in Nat
      /\ \A k \in Lines : listing[k].ic \in Nat /\ listing[k].ic < head
  <2>1. \A k \in Lines : listing[k] \in LineItem
    BY KindsOfItem DEF Lines, Item, ListingInv
  <2> QED  BY <2>1, KindsOfItem, LengthAssumption DEF ListingInv
<1>2. CASE head = 0
  <2>1. Lines = {}
    BY <1>1, <1>2
  <2> QED  BY <1>2, <2>1 DEF Shown, LineOf, LinesUpTo, ListingInv, RunSoFar
<1>3. CASE head # 0
  <2>1. LineOf(head) = LineOf(head - 1)
    BY <1>1, <1>3 DEF LineOf, LinesUpTo
  <2>2. Shown(head - 1) = {program[head - 1]}
    BY <1>1, <1>3 DEF ListingInv, ListingTellsProgram
  <2> QED  BY <1>3, <2>1, <2>2 DEF Shown, ListingInv, RunSoFar
<1> QED  BY <1>2, <1>3

\* A count that stands behind a line tells the length of the run before it.
TellsRun(k) ==
  /\ k > 1 /\ k - 1 \in Lines
  /\ listing[k - 1].ic - listing[k].repeats \in Nat
  /\ IsRun(program, listing[k - 1].ic - listing[k].repeats, listing[k - 1].ic)

CountsInv ==
  /\ CountsTellRuns
  /\ stage # "done" => \A k \in Counts : TellsRun(k)

\* Nothing has been printed yet.
LEMMA ListingInit == ToolInit => ListingInv /\ CountsInv
<1> SUFFICES ASSUME ToolInit
             PROVE  ListingInv /\ CountsInv
  OBVIOUS
<1>1. /\ last = AllOnes /\ count = 0 /\ head = 0 /\ line_ic = 0 /\ listing = <<>>
      /\ AllOnes \in Word
  BY ToolAssumption DEF ToolInit, DisassemblyInit
<1>2. Lines = {} /\ Counts = {}
  BY <1>1 DEF Lines, Counts
<1> QED  BY <1>1, <1>2, LengthAssumption
         DEF ListingInv, CountsInv, CountsTellRuns, RunSoFar, ListingTellsProgram

\* What has been printed stays, and so does what its counts tell.
LEMMA CountsStay ==
  ASSUME listing \in Seq(Item), listing' \in Seq(Item), program' = program,
         Len(listing) <= Len(listing'),
         \A k \in 1 .. Len(listing) : listing'[k] = listing[k]
  PROVE  /\ Lines \subseteq Lines'
         /\ \A k \in Counts' : k \in Counts \/ k \in Len(listing) + 1 .. Len(listing')
         /\ \A k \in Counts : TellsRun(k) => TellsRun(k)'
<1>1. /\ DOMAIN listing = 1 .. Len(listing) /\ DOMAIN listing' = 1 .. Len(listing')
      /\ Len(listing) \in Nat /\ Len(listing') \in Nat
  OBVIOUS
<1>2. Lines \subseteq Lines'
  BY <1>1 DEF Lines
<1>3. \A k \in Counts' : k \in Counts \/ k \in Len(listing) + 1 .. Len(listing')
  BY <1>1 DEF Counts, Lines
<1>4. ASSUME NEW k \in Counts, TellsRun(k)
      PROVE  TellsRun(k)'
  <2>1. k - 1 \in 1 .. Len(listing) /\ k \in 1 .. Len(listing) /\ k - 1 \in Lines'
    BY <1>1, <1>2, <1>4 DEF TellsRun, Counts, Lines
  <2>2. listing'[k - 1] = listing[k - 1] /\ listing'[k] = listing[k]
    BY <2>1
  <2> QED  BY <1>4, <2>1, <2>2 DEF TellsRun, IsRun
<1> QED  BY <1>2, <1>3, <1>4

\* A count that tells a run is one that CountsTellRuns is content with.
LEMMA TellsEnough ==
  ASSUME NEW k \in Counts, TellsRun(k)
  PROVE  CountsARun(k, program)
  BY DEF TellsRun, CountsARun, EndsOfRun

\* A word unlike the one before it: a line for it, and the count of the run
\* that it ends.
LEMMA NewInstructionTells ==
  ASSUME FileInv, ListingInv, CountsInv, stage = "disassemble", stage' = stage,
         program' = program, NewInstruction(program)
  PROVE  ListingInv' /\ CountsInv'
<1>1. /\ head < kLength /\ program[head] # last /\ line_ic = head /\ head \in Nat
      /\ last' = program[head] /\ count' = 1 /\ head' = head + 1 /\ line_ic' = head + 1
      /\ listing' = Append(listing, Line(head, program[head])) \o Repeats(count)
      /\ head \in 0 .. kLength /\ count \in 0 .. head
  BY LengthAssumption DEF NewInstruction, available, ListingInv, RunSoFar
<1>2. program[head] \in Word
  <2>1. program \in [0 .. kProgramWords - 1 -> Word]
    BY DEF FileInv
  <2>2. kProgramWords = kLength
    BY ToolAssumption
  <2> QED  BY <1>1, <2>1, <2>2, LengthAssumption
<1>3. /\ listing' \in Seq(Item)
      /\ \A k \in Lines' : listing'[k].ic < head + 1
      /\ \A i \in 0 .. head - 1 : Shown(i)' = Shown(i)
      /\ \A i \in Nat : i = head => Shown(i)' = {program[head]}
  BY <1>1, <1>2, LineTellsWord
<1>4. ListingTellsProgram'
  <2>1. \A i \in 0 .. head - 1 : Shown(i)' = {program[i]}
    BY <1>3 DEF ListingInv, ListingTellsProgram
  <2>2. 0 .. head' - 1 = (0 .. head - 1) \cup {head}
    BY <1>1
  <2>3. \A i \in {head} : Shown(i)' = {program[i]}
    BY <1>1, <1>3
  <2> QED  BY <2>1, <2>2, <2>3 DEF ListingTellsProgram
<1>5. RunSoFar'
  BY <1>1 DEF RunSoFar, ListingInv
<1>6. ListingInv'
  <2>1. head' \in 0 .. kLength /\ line_ic' = head' /\ last' \in Word
    BY <1>1, <1>2, LengthAssumption
  <2>2. \A k \in Lines' : listing'[k].ic < head'
    BY <1>1, <1>3
  <2> QED  BY <1>3, <1>4, <1>5, <2>1, <2>2 DEF ListingInv
<1> DEFINE n == Len(listing)
<1>7. /\ listing \in Seq(Item) /\ n \in Nat
      /\ Len(listing') = n + 1 + (IF count > 1 THEN 1 ELSE 0)
      /\ \A k \in 1 .. n : listing'[k] = listing[k]
      /\ listing'[n + 1] = Line(head, program[head]) /\ n + 1 \in Lines'
      /\ count > 1 => listing'[n + 2] = [repeats |-> count]
  <2>1. listing \in Seq(Item) /\ Len(listing) \in Nat
    BY DEF ListingInv
  <2> QED  BY <1>1, <1>2, <2>1, LineTellsWord, Zenon
<1>8. /\ Lines \subseteq Lines'
      /\ \A k \in Counts' : k \in Counts \/ k \in n + 1 .. Len(listing')
      /\ \A k \in Counts : TellsRun(k) => TellsRun(k)'
  BY <1>3, <1>7, CountsStay
<1> HIDE DEF n
<1>9. ASSUME NEW k \in Counts'
      PROVE  TellsRun(k)'
  <2>1. CASE k \in Counts
    BY <1>8, <2>1 DEF CountsInv
  <2>2. CASE k \notin Counts
    <3>1. k \notin Lines' /\ k \in n + 1 .. Len(listing')
      BY <1>8, <2>2 DEF Counts
    <3>2. count > 1 /\ k = n + 2
      <4>1. k # n + 1 /\ n \in Nat
        BY <1>7, <3>1
      <4>2. Len(listing') = n + 1 + (IF count > 1 THEN 1 ELSE 0)
        BY <1>7
      <4> QED  BY <3>1, <4>1, <4>2
    <3>3. /\ k > 1 /\ k - 1 \in Lines' /\ k - 1 = n + 1
          /\ listing'[k - 1].ic = head /\ listing'[k].repeats = count
      BY <1>7, <3>2 DEF Line
    <3>4. head - count \in Nat
      BY <1>1
    <3>5. IsRun(program, head - count, head)
      <4>1. RunSoFar
        BY DEF ListingInv
      <4> QED  BY <1>1, <3>2, <4>1 DEF IsRun, RunSoFar
    <3> QED  BY <3>3, <3>4, <3>5 DEF TellsRun
  <2> QED  BY <2>1, <2>2
<1>10. CountsTellRuns'
  BY <1>9 DEF CountsTellRuns, TellsRun, CountsARun, EndsOfRun
<1> QED  BY <1>6, <1>9, <1>10 DEF CountsInv

\* A word like the one before it: nothing is printed.
LEMMA RepeatedInstructionTells ==
  ASSUME FileInv, ListingInv, CountsInv, stage = "disassemble", stage' = stage,
         program' = program, RepeatedInstruction(program)
  PROVE  ListingInv' /\ CountsInv'
<1>1. /\ head < kLength /\ program[head] = last /\ line_ic = head /\ head \in Nat
      /\ last' = last /\ count' = count + 1 /\ head' = head + 1 /\ line_ic' = head + 1
      /\ listing' = listing /\ kLength \in Nat
      /\ head \in 0 .. kLength /\ count \in 0 .. head
  BY LengthAssumption DEF RepeatedInstruction, available, ListingInv, RunSoFar
<1>2. Lines' = Lines /\ Counts' = Counts
  BY <1>1 DEF Lines, Counts
<1>3. ASSUME NEW i
      PROVE  Shown(i)' = Shown(i)
  BY <1>1, <1>2 DEF Shown, LineOf, LinesUpTo
<1>4. ListingTellsProgram'
  <2>1. \A i \in 0 .. head - 1 : Shown(i) = {program[i]}
    BY DEF ListingInv, ListingTellsProgram
  <2>2. 0 .. head' - 1 = (0 .. head - 1) \cup {head}
    BY <1>1
  <2>3. Shown(head) = {program[head]}
    BY <1>1, RepeatIsTold
  <2> QED  BY <1>3, <2>1, <2>2, <2>3 DEF ListingTellsProgram
<1>5. RunSoFar'
  <2>1. RunSoFar
    BY DEF ListingInv
  <2> QED  BY <1>1, <2>1 DEF RunSoFar
<1>6. ListingInv'
  <2>1. head' \in 0 .. kLength /\ line_ic' = head' /\ last' \in Word
    BY <1>1 DEF ListingInv
  <2>2. \A k \in Lines' : listing'[k].ic < head'
    <3>1. \A k \in Lines : listing[k].ic \in Nat /\ listing[k].ic < head
      BY KindsOfItem DEF Lines, Item, ListingInv
    <3> QED  BY <1>1, <1>2, <3>1
  <2> QED  BY <1>1, <1>4, <1>5, <2>1, <2>2 DEF ListingInv
<1>7. \A k \in Counts : TellsRun(k)'
  BY <1>1, <1>2 DEF CountsInv, TellsRun
<1>8. CountsTellRuns'
  BY <1>2, <1>7 DEF CountsTellRuns, TellsRun, CountsARun, EndsOfRun
<1> QED  BY <1>2, <1>6, <1>7, <1>8 DEF CountsInv

\* The end of the program is the end of the last run.
LEMMA EndListingTells ==
  ASSUME FileInv, ListingInv, CountsInv, stage = "disassemble", stage' = "done",
         program' = program, EndListing
  PROVE  ListingInv' /\ CountsInv'
<1>1. /\ head = kLength /\ head \in Nat /\ UNCHANGED <<last, count, head, line_ic>>
      /\ listing' = listing \o Repeats(count)
      /\ count \in 0 .. head
  BY LengthAssumption DEF EndListing, available, ListingInv, RunSoFar
<1>2. /\ listing' \in Seq(Item)
      /\ Lines' = Lines /\ \A k \in Lines : listing'[k] = listing[k]
      /\ \A i \in Nat : Shown(i)' = Shown(i)
  BY <1>1, CountTellsNoWord
<1>3. ListingTellsProgram'
  BY <1>1, <1>2 DEF ListingInv, ListingTellsProgram
<1>4. ListingInv'
  <2>1. RunSoFar'
    BY <1>1 DEF RunSoFar, ListingInv
  <2>2. \A k \in Lines' : listing'[k].ic < head'
    BY <1>1, <1>2 DEF ListingInv
  <2> QED  BY <1>1, <1>2, <1>3, <2>1, <2>2 DEF ListingInv
<1> DEFINE n == Len(listing)
<1>5. /\ listing \in Seq(Item) /\ n \in Nat
      /\ Len(listing') = n + (IF count > 1 THEN 1 ELSE 0)
      /\ \A k \in 1 .. n : listing'[k] = listing[k]
      /\ count > 1 => listing'[n + 1] = [repeats |-> count]
  <2>1. listing \in Seq(Item) /\ count \in Nat
    BY <1>1 DEF ListingInv
  <2> QED  BY <1>1, <2>1, CountBehind
<1>6. /\ \A k \in Counts' : k \in Counts \/ k \in n + 1 .. Len(listing')
      /\ \A k \in Counts : TellsRun(k) => TellsRun(k)'
  BY <1>2, <1>5, CountsStay
<1> HIDE DEF n
<1>7. ASSUME NEW k \in Counts'
      PROVE  CountsARun(k, program)'
  <2>1. CASE k \in Counts
    <3>1. TellsRun(k)'
      BY <1>6, <2>1 DEF CountsInv
    <3> QED  BY <3>1 DEF TellsRun, CountsARun, EndsOfRun
  <2>2. CASE k \notin Counts
    <3>1. k \in n + 1 .. Len(listing')
      BY <1>6, <2>2
    <3>2. count > 1 /\ k = n + 1 /\ k = Len(listing')
      BY <1>5, <3>1
    <3>3. listing'[k].repeats = count
      BY <1>5, <3>2
    <3>4. kLength \in EndsOfRun(k)'
      BY <1>1, <3>2 DEF EndsOfRun, available
    <3>5. kLength - count \in Nat
      BY <1>1
    <3>6. IsRun(program, kLength - count, kLength)
      <4>1. RunSoFar
        BY DEF ListingInv
      <4> QED  BY <1>1, <3>2, <4>1 DEF IsRun, RunSoFar
    <3> QED  BY <3>3, <3>4, <3>5, <3>6 DEF CountsARun
  <2> QED  BY <2>1, <2>2
<1>8. CountsTellRuns'
  BY <1>7 DEF CountsTellRuns
<1> QED  BY <1>4, <1>8 DEF CountsInv

\* All the rest of a tool leaves the listing alone.
LEMMA ListingNext ==
  ASSUME FileInv, ListingInv, CountsInv, [ToolNext]_tool
  PROVE  ListingInv' /\ CountsInv'
<1>1. CASE Disassemble
  BY <1>1, NewInstructionTells, RepeatedInstructionTells, EndListingTells
     DEF Disassemble, file
<1>2. CASE ~Disassemble
  <2>1. /\ UNCHANGED disassembler
        /\ program' = program \/ (head = 0 /\ listing = <<>>)
        /\ stage' # "done" => stage # "done"
        /\ stage' \in {"parse", "read", "check", "select"} =>
             stage \in {"parse", "read", "check", "select"}
    BY <1>2
    DEF ToolNext, Work, ParseCommandLine, ReadFile, CheckLength, SelectProgram, NoProgram,
        Render, WavNext, CompileProgram, OpenOutput, WriteHeader, NextBlock, CallExecute,
        ExecuteFrame, EndOfFrame, ReturnFromExecute, WriteSample, LoseSample, EndOfBlock,
        CloseOutput, tool, file, ListingInv
  <2>2. UNCHANGED <<last, count, head, line_ic, listing>>
    BY <2>1 DEF disassembler
  <2>3. Lines' = Lines /\ Counts' = Counts
    BY <2>2 DEF Lines, Counts
  <2>4. ASSUME NEW i
        PROVE  Shown(i)' = Shown(i)
    BY <2>2, <2>3 DEF Shown, LineOf, LinesUpTo
  <2>5. CASE program' = program
    <3>1. ListingInv'
      BY <2>1, <2>2, <2>3, <2>4, <2>5 DEF ListingInv, ListingTellsProgram, RunSoFar
    <3>2. ASSUME NEW k \in Counts
          PROVE  /\ TellsRun(k)' <=> TellsRun(k)
                 /\ CountsARun(k, program)' <=> CountsARun(k, program)
      BY <2>2, <2>3, <2>5 DEF TellsRun, CountsARun, EndsOfRun, available
    <3> QED  BY <2>1, <2>3, <2>5, <3>1, <3>2 DEF CountsInv, CountsTellRuns
  <2>6. CASE head = 0 /\ listing = <<>>
    <3>1. Counts' = {} /\ Lines' = {}
      BY <2>2, <2>6 DEF Counts, Lines
    <3>2. ListingInv'
      BY <2>1, <2>2, <2>6, <3>1, LengthAssumption
         DEF ListingInv, ListingTellsProgram, RunSoFar
    <3> QED  BY <3>1, <3>2 DEF CountsInv, CountsTellRuns
  <2> QED  BY <2>1, <2>5, <2>6
<1> QED  BY <1>1, <1>2

\* Both hold of every listing.
LEMMA ListingInvariant == ToolSpec => [](FileInv /\ ListingInv /\ CountsInv)
<1>1. ToolInit => ListingInv /\ CountsInv
  BY ListingInit
<1>2. FileInv /\ ListingInv /\ CountsInv /\ [ToolNext]_tool => ListingInv' /\ CountsInv'
  BY ListingNext
<1> QED  BY <1>1, <1>2, FileInvariant, PTL DEF ToolSpec

\* A listing tells every word of the program it has come to, for programs of
\* every length.
THEOREM ListingTells == ToolSpec => []ListingTellsProgram
<1>1. ListingInv => ListingTellsProgram
  BY DEF ListingInv
<1> QED  BY <1>1, ListingInvariant, PTL

\* And its counts tell how often a word is repeated.
THEOREM CountsTell == ToolSpec => []CountsTellRuns
<1>1. CountsInv => CountsTellRuns
  BY DEF CountsInv
<1> QED  BY <1>1, ListingInvariant, PTL

-----------------------------------------------------------------------------
\* Everything a tool keeps has its type, in particular the frames of a file and
\* the words of a listing.
THEOREM ToolTypeCorrect == ToolSpec => []ToolTypeOK
<1>1. ASSUME FileInv, HostInv, Inv, PlayedInv, ListingInv
      PROVE  ToolTypeOK
  <2>1. TypeOK
    BY <1>1 DEF Inv, TypeOK, Typed, HostTyped
  <2>2. /\ stage \in Stages /\ contents \in [Slot -> Word]
        /\ program \in [0 .. kProgramWords - 1 -> Word]
        /\ \E call \in Calls : options = call[1] /\ input = call[2]
    BY <1>1 DEF FileInv
  <2>3. length_ \in 0 .. kDervishBankSize
    BY <1>1, Sizes DEF FileInv
  <2>4. options.sample_count \in 0 .. kMaxFrames /\ kMaxFrames \in Nat
    BY <1>1, CallTyped, HostAssumption
  <2>5. /\ sample_count \in 0 .. options.sample_count
        /\ blocksize \in 0 .. options.sample_count
        /\ stage \in {"call", "execute", "write"} => blocksize \in 1 .. sample_count
        /\ stage = "execute" => num_frames \in 0 .. blocksize
    BY <1>1 DEF HostInv
  <2>6. Len(played) <= kMaxFrames
    <3>1. CASE Sounding
      <4>1. FramesOfBlock \in 0 .. sample_count
        BY <2>4, <2>5 DEF FramesOfBlock
      <4>2. Len(played) = options.sample_count - sample_count + FramesOfBlock
        BY <1>1, <3>1 DEF PlayedInv, FramesBefore
      <4> QED  BY <2>4, <2>5, <4>1, <4>2
    <3>2. CASE ~Sounding
      <4>1. played = <<>>
        BY <1>1, <3>2 DEF PlayedInv
      <4> QED  BY <2>4, <4>1
    <3> QED  BY <3>1, <3>2
  <2>7. \A f \in {frames[i] : i \in DOMAIN frames} : f \in SF23 \X SF23
    <3>1. CASE Sounding
      BY <1>1, <3>1 DEF PlayedInv
    <3>2. CASE ~Sounding
      <4>1. DOMAIN frames = {}
        BY <1>1, <3>2 DEF PlayedInv
      <4> QED  BY <4>1
    <3> QED  BY <3>1, <3>2
  <2>8. /\ head \in 0 .. kLength /\ count \in 0 .. kLength /\ line_ic \in 0 .. kLength
        /\ last \in Word
    BY <1>1, LengthAssumption DEF ListingInv, RunSoFar
  <2>9. sample_count \in 0 .. kMaxFrames /\ blocksize \in 0 .. kMaxFrames
    BY <2>4, <2>5
  <2> QED  BY <2>1, <2>2, <2>3, <2>6, <2>7, <2>8, <2>9 DEF ToolTypeOK
<1> QED  BY <1>1, SoundInvariant, ListingInvariant, PTL

-----------------------------------------------------------------------------
(***************************************************************************)
(* A tool comes to its end: the work left is a number, and every step      *)
(* takes at least one off.                                                 *)
(***************************************************************************)

\* The steps of the samples are those of a block and of the ones behind it.
LEMMA BlockSums ==
  ASSUME NEW s \in Nat, NEW z \in 0 .. s
  PROVE  /\ s * SampleSteps \in Nat /\ (s - z) * SampleSteps \in Nat
         /\ z * (kMaxInstructionCount + 2) \in Nat
         /\ z * (kMaxInstructionCount + 4) = z * (kMaxInstructionCount + 2) + 2 * z
         /\ s * SampleSteps = (s - z) * SampleSteps
                              + z * (kMaxInstructionCount + 2) + 6 * z
<1> DEFINE k == kMaxInstructionCount
           r == s - z
<1>1. k \in Nat /\ z \in Nat /\ r \in Nat /\ s = r + z
  BY CountAssumption
<1> HIDE DEF r
<1>2. \A x, y \in Nat : x * y \in Nat
  OBVIOUS
<1>3. z * (k + 4) = z * (k + 2) + 2 * z
  BY <1>1
<1>4. z * (k + 8) = z * (k + 2) + 6 * z
  BY <1>1
<1>5. (r + z) * (k + 8) = r * (k + 8) + z * (k + 8)
  BY <1>1
<1>6. r * (k + 8) \in Nat /\ z * (k + 2) \in Nat /\ s * (k + 8) \in Nat
  BY <1>1, <1>2
<1> QED  BY <1>1, <1>3, <1>4, <1>5, <1>6 DEF SampleSteps, r

\* The stages ahead of the work itself.
LEMMA AheadOfWork ==
  /\ DOMAIN StagesAhead = {"parse", "read", "check", "select", "compile", "open", "header"}
  /\ StagesAhead["parse"] = 8 /\ StagesAhead["read"] = 7 /\ StagesAhead["check"] = 6
  /\ StagesAhead["select"] = 5 /\ StagesAhead["compile"] = 4
  /\ StagesAhead["open"] = 3 /\ StagesAhead["header"] = 2
  BY DEF StagesAhead

\* What is left in each stage.
LEMMA WorkOfStage ==
  LET all   == options.sample_count * SampleSteps + kLength
      later == (sample_count - blocksize) * SampleSteps + 2
  IN  /\ stage \in DOMAIN StagesAhead => WorkLeft = all + StagesAhead[stage]
      /\ stage = "loop" => WorkLeft = sample_count * SampleSteps + 1
      /\ stage = "call" => WorkLeft = later + blocksize * (kMaxInstructionCount + 4) + 2
      /\ stage = "execute" => WorkLeft = later + 2 * blocksize + StepsLeft
      /\ stage = "write" => WorkLeft = later + 2 * blocksize - written
      /\ stage = "disassemble" => WorkLeft = kLength - head + 1
      /\ stage \in {"done", "failed"} => WorkLeft = 0
  BY AheadOfWork DEF WorkLeft

\* The same of the next state.
LEMMA WorkOfNextStage ==
  LET all   == options'.sample_count * SampleSteps + kLength
      later == (sample_count' - blocksize') * SampleSteps + 2
  IN  /\ stage' \in DOMAIN StagesAhead => WorkLeft' = all + StagesAhead[stage']
      /\ stage' = "loop" => WorkLeft' = sample_count' * SampleSteps + 1
      /\ stage' = "call" => WorkLeft' = later + blocksize' * (kMaxInstructionCount + 4) + 2
      /\ stage' = "execute" => WorkLeft' = later + 2 * blocksize' + StepsLeft'
      /\ stage' = "write" => WorkLeft' = later + 2 * blocksize' - written'
      /\ stage' = "disassemble" => WorkLeft' = kLength - head' + 1
      /\ stage' \in {"done", "failed"} => WorkLeft' = 0
  BY AheadOfWork DEF WorkLeft

\* Options, file and program lead one stage on, or to the end.
LEMMA StagesCountDown ==
  ASSUME FileInv, ListingInv, ToolNext, stage \in DOMAIN StagesAhead
  PROVE  WorkLeft \in Nat /\ WorkLeft' \in 0 .. WorkLeft - 1
<1> DEFINE all == options.sample_count * SampleSteps + kLength
<1>1. options.sample_count \in Nat /\ kLength \in Nat
  BY CallTyped, HostAssumption, LengthAssumption
<1>2. options.sample_count * SampleSteps \in Nat /\ all \in Nat
  <2> DEFINE n == options.sample_count
             r == n * SampleSteps
  <2>1. 0 \in 0 .. n
    BY <1>1
  <2>2. r \in Nat
    BY <1>1, <2>1, BlockSums
  <2> HIDE DEF r
  <2>3. r + kLength \in Nat
    BY <1>1, <2>2
  <2> QED  BY <2>2, <2>3 DEF r
<1>3. WorkLeft = all + StagesAhead[stage] /\ StagesAhead[stage] \in 2 .. 8
  BY WorkOfStage, AheadOfWork
<1>4. /\ options' = options
      /\ \/ stage' \in DOMAIN StagesAhead /\ StagesAhead[stage'] < StagesAhead[stage]
         \/ stage' = "loop" /\ sample_count' = options.sample_count
         \/ stage' = "disassemble" /\ head' = head
         \/ stage' \in {"done", "failed"}
  <2>1. CASE ParseCommandLine
    BY <2>1, AheadOfWork DEF ParseCommandLine
  <2>2. CASE ReadFile
    BY <2>2, AheadOfWork DEF ReadFile
  <2>3. CASE CheckLength \/ NoProgram
    BY <2>3, AheadOfWork DEF CheckLength, NoProgram
  <2>4. CASE SelectProgram
    BY <2>4, AheadOfWork DEF SelectProgram, disassembler
  <2>5. CASE Render
    BY <2>5, AheadOfWork
    DEF Render, WavNext, CompileProgram, OpenOutput, WriteHeader, NextBlock, CallExecute,
        ExecuteFrame, EndOfFrame, ReturnFromExecute, WriteSample, LoseSample, EndOfBlock,
        CloseOutput
  <2>6. CASE Disassemble
    BY <2>6, AheadOfWork DEF Disassemble
  <2> QED  BY <2>1, <2>2, <2>3, <2>4, <2>5, <2>6 DEF ToolNext, Work
<1>5. head \in 0 .. kLength
  BY DEF ListingInv
<1> HIDE DEF all
<1>6. CASE stage' \in DOMAIN StagesAhead /\ StagesAhead[stage'] < StagesAhead[stage]
  <2>1. WorkLeft' = all + StagesAhead[stage']
    BY <1>4, <1>6, WorkOfNextStage DEF all
  <2>2. StagesAhead[stage'] \in 2 .. 8
    BY <1>6, AheadOfWork
  <2> QED  BY <1>2, <1>3, <1>6, <2>1, <2>2
<1>7. CASE stage' = "loop" /\ sample_count' = options.sample_count
  <2> DEFINE r == options.sample_count * SampleSteps
  <2>1. WorkLeft' = r + 1
    BY <1>7, WorkOfNextStage
  <2>2. r \in Nat /\ all = r + kLength
    BY <1>2 DEF all
  <2> HIDE DEF r
  <2> QED  BY <1>1, <1>3, <2>1, <2>2
<1>8. CASE stage' = "disassemble" /\ head' = head
  <2> DEFINE r == options.sample_count * SampleSteps
  <2>1. WorkLeft' = kLength - head + 1
    BY <1>8, WorkOfNextStage
  <2>2. r \in Nat /\ all = r + kLength
    BY <1>2 DEF all
  <2> HIDE DEF r
  <2> QED  BY <1>1, <1>3, <1>5, <2>1, <2>2
<1>9. CASE stage' \in {"done", "failed"}
  <2>1. WorkLeft' = 0
    BY <1>9, WorkOfNextStage
  <2> QED  BY <1>2, <1>3, <2>1
<1> QED  BY <1>4, <1>6, <1>7, <1>8, <1>9

\* A listing has a line or a repetition less to come, or is done.
LEMMA ListingCountsDown ==
  ASSUME FileInv, ListingInv, ToolNext, stage = "disassemble"
  PROVE  WorkLeft \in Nat /\ WorkLeft' \in 0 .. WorkLeft - 1
<1>1. head \in 0 .. kLength /\ kLength \in Nat
  BY LengthAssumption DEF ListingInv
<1>2. WorkLeft = kLength - head + 1
  BY WorkOfStage
<1>3. Disassemble
  BY DEF ToolNext, Work, ParseCommandLine, ReadFile, CheckLength, SelectProgram, NoProgram,
         Render, WavNext, CompileProgram, OpenOutput, WriteHeader, NextBlock, CallExecute,
         ExecuteFrame, EndOfFrame, ReturnFromExecute, WriteSample, LoseSample, EndOfBlock,
         CloseOutput
<1>4. CASE stage' = "disassemble" /\ head' = head + 1 /\ head < kLength
  <2>1. WorkLeft' = kLength - head' + 1
    BY <1>4, WorkOfNextStage
  <2> QED  BY <1>1, <1>2, <1>4, <2>1
<1>5. CASE stage' = "done"
  <2>1. WorkLeft' = 0
    BY <1>5, WorkOfNextStage
  <2> QED  BY <1>1, <1>2, <2>1
<1> QED  BY <1>3, <1>4, <1>5
         DEF Disassemble, RepeatedInstruction, NewInstruction, EndListing, available

\* A block plays some of the samples, never none, and Execute comes back from
\* it; its samples are written one by one.
LEMMA BlocksOfToolCountDown ==
  ASSUME FileInv, HostInv, Inv, DataInv, ToolNext,
         stage \in {"loop", "call", "execute", "write"}
  PROVE  WorkLeft \in Nat /\ WorkLeft' \in 0 .. WorkLeft - 1
<1> DEFINE s == sample_count
           z == blocksize
           f == z * (kMaxInstructionCount + 2)
           r == (s - z) * SampleSteps
<1>1. Render /\ stage # "compile" /\ WavNext
  BY DEF ToolNext, Work, ParseCommandLine, ReadFile, CheckLength, SelectProgram, NoProgram,
         Disassemble, Render, CompileProgram
<1>2. /\ s \in Nat /\ z \in Nat /\ options.blocksize \in Nat \ {0}
      /\ stage # "loop" => z \in 1 .. s
  BY CallTyped, HostAssumption DEF HostInv, FileInv, ValidOptions, Rendering, Selected
<1>3. CASE NextBlock
  <2>1. /\ stage = "loop" /\ stage' = "call" /\ s' = s /\ s > 0
        /\ z' = IF s > options.blocksize THEN options.blocksize ELSE s
    BY <1>3 DEF NextBlock
  <2>2. z' \in 1 .. s
    BY <1>2, <2>1
  <2> DEFINE f1 == z' * (kMaxInstructionCount + 2)
             r1 == (s - z') * SampleSteps
  <2>3. /\ f1 \in Nat /\ r1 \in Nat
        /\ z' * (kMaxInstructionCount + 4) = f1 + 2 * z'
        /\ s * SampleSteps = r1 + f1 + 6 * z'
    <3> DEFINE y == z'
    <3>1. y \in 0 .. s
      BY <1>2, <2>2
    <3> HIDE DEF y
    <3>2. /\ y * (kMaxInstructionCount + 2) \in Nat /\ (s - y) * SampleSteps \in Nat
          /\ y * (kMaxInstructionCount + 4) = y * (kMaxInstructionCount + 2) + 2 * y
          /\ s * SampleSteps = (s - y) * SampleSteps + y * (kMaxInstructionCount + 2) + 6 * y
      BY <1>2, <3>1, BlockSums
    <3> QED  BY <3>2 DEF y
  <2>4. WorkLeft = s * SampleSteps + 1
    BY <2>1, WorkOfStage
  <2>5. WorkLeft' = r1 + 2 + z' * (kMaxInstructionCount + 4) + 2
    BY <2>1, WorkOfNextStage
  <2> DEFINE y == z'
  <2>6. y \in Nat /\ y >= 1 /\ f1 \in Nat /\ r1 \in Nat
    BY <1>2, <2>2, <2>3
  <2>7. WorkLeft = r1 + f1 + 6 * y + 1 /\ WorkLeft' = r1 + 2 + (f1 + 2 * y) + 2
    BY <2>3, <2>4, <2>5
  <2> HIDE DEF f1, r1, y
  <2> QED  BY <2>6, <2>7
<1>4. stage # "loop" =>
        /\ f \in Nat /\ r \in Nat /\ z * (kMaxInstructionCount + 4) = f + 2 * z
  <2> SUFFICES ASSUME stage # "loop"
               PROVE  f \in Nat /\ r \in Nat /\ z * (kMaxInstructionCount + 4) = f + 2 * z
    OBVIOUS
  <2>1. s \in Nat /\ z \in 0 .. s
    BY <1>2
  <2> QED  BY <2>1, BlockSums, Zenon
<1>5. CASE CloseOutput
  <2>1. stage = "loop" /\ s = 0 /\ stage' = "done"
    BY <1>5 DEF CloseOutput
  <2>2. s * SampleSteps \in Nat
    <3>1. 0 \in 0 .. s
      BY <1>2
    <3> QED  BY <1>2, <3>1, BlockSums
  <2> QED  BY <2>1, <2>2, WorkOfStage, WorkOfNextStage
<1>6. CASE CallExecute
  <2>1. /\ stage = "call" /\ stage' = "execute" /\ s' = s /\ z' = z
        /\ pc' = "loop" /\ num_frames' = z
    BY <1>6 DEF CallExecute, BeginBlock, wav
  <2>2. StepsLeft' = f + 1
    BY <2>1 DEF StepsLeft
  <2>3. WorkLeft = r + 2 + (f + 2 * z) + 2
    BY <1>4, <2>1, WorkOfStage
  <2>4. WorkLeft' = r + 2 + 2 * z + (f + 1)
    BY <2>1, <2>2, WorkOfNextStage
  <2>5. f \in Nat /\ r \in Nat /\ z \in Nat
    BY <1>2, <1>4, <2>1
  <2> HIDE DEF f, r, z
  <2> QED  BY <2>3, <2>4, <2>5
<1>7. ASSUME stage = "execute", Next
      PROVE  StepsLeft \in Nat /\ StepsLeft' \in 0 .. StepsLeft - 1
  BY <1>7, ExecuteCountsDown DEF HostInv
<1>8. CASE ExecuteFrame \/ EndOfFrame
  <2>1. /\ stage = "execute" /\ stage' = "execute" /\ s' = s /\ z' = z /\ Next
    BY <1>8, WavAssumption DEF ExecuteFrame, EndOfFrame, wav, Next, Execute
  <2>2. StepsLeft \in Nat /\ StepsLeft' \in 0 .. StepsLeft - 1
    BY <1>7, <2>1
  <2>3. WorkLeft = r + 2 + 2 * z + StepsLeft
    BY <2>1, WorkOfStage
  <2>4. WorkLeft' = r + 2 + 2 * z + StepsLeft'
    BY <2>1, WorkOfNextStage
  <2> DEFINE c == r + 2 + 2 * z
  <2>5. c \in Nat
    BY <1>2, <1>4, <2>1
  <2> HIDE DEF c
  <2>6. WorkLeft = c + StepsLeft /\ WorkLeft' = c + StepsLeft'
    BY <2>3, <2>4 DEF c
  <2>7. \A a \in Nat : \A b \in 0 .. a - 1 : c + a \in Nat /\ c + b \in 0 .. (c + a) - 1
    BY <2>5
  <2> QED  BY <2>2, <2>6, <2>7, Zenon
<1>9. CASE ReturnFromExecute
  <2>1. /\ stage = "execute" /\ stage' = "write" /\ s' = s /\ z' = z /\ Next
        /\ written' = 0
    BY <1>9 DEF ReturnFromExecute, Next, Execute
  <2>2. StepsLeft \in Nat /\ StepsLeft' \in 0 .. StepsLeft - 1
    BY <1>7, <2>1
  <2>3. WorkLeft = r + 2 + 2 * z + StepsLeft
    BY <2>1, WorkOfStage
  <2>4. WorkLeft' = r + 2 + 2 * z - 0
    BY <2>1, WorkOfNextStage
  <2>5. r \in Nat /\ z \in Nat
    BY <1>2, <1>4, <2>1
  <2> HIDE DEF r, z
  <2> QED  BY <2>2, <2>3, <2>4, <2>5
<1>10. CASE WriteSample \/ LoseSample
  <2>1. /\ stage = "write" /\ stage' = "write" /\ s' = s /\ z' = z
        /\ written < 2 * z /\ written' = written + 1
    BY <1>10 DEF WriteSample, LoseSample
  <2>2. written \in 0 .. 2 * z
    BY <2>1 DEF DataInv, DataTyped
  <2>3. WorkLeft = r + 2 + 2 * z - written
    BY <2>1, WorkOfStage
  <2>4. WorkLeft' = r + 2 + 2 * z - (written + 1)
    BY <2>1, WorkOfNextStage
  <2>5. r \in Nat /\ z \in Nat
    BY <1>2, <1>4, <2>1
  <2> HIDE DEF r, z
  <2> QED  BY <2>1, <2>2, <2>3, <2>4, <2>5
<1>11. CASE EndOfBlock
  <2>1. stage = "write" /\ stage' = "loop" /\ s' = s - z /\ written = 2 * z
    BY <1>11 DEF EndOfBlock
  <2>2. WorkLeft = r + 2 + 2 * z - 2 * z
    BY <2>1, WorkOfStage
  <2>3. WorkLeft' = r + 1
    BY <2>1, WorkOfNextStage
  <2>4. r \in Nat /\ z \in Nat
    BY <1>2, <1>4, <2>1
  <2> HIDE DEF r, z
  <2> QED  BY <2>2, <2>3, <2>4
<1>12. CASE OpenOutput \/ WriteHeader
  BY <1>12 DEF OpenOutput, WriteHeader
<1> QED  BY <1>1, <1>3, <1>5, <1>6, <1>8, <1>9, <1>10, <1>11, <1>12 DEF WavNext

\* A call of a tool is a bounded number of steps, for every file, program,
\* number of samples and size of the blocks, and whatever writes fail.
THEOREM ToolsCountDown == ToolSpec => ToolCountsDown
<1>1. FileInv /\ HostInv /\ Inv /\ DataInv /\ ListingInv /\ [ToolNext]_tool =>
        [/\ WorkLeft \in Nat
         /\ WorkLeft' \in 0 .. WorkLeft - 1]_tool
  <2> SUFFICES ASSUME FileInv, HostInv, Inv, DataInv, ListingInv, ToolNext
               PROVE  WorkLeft \in Nat /\ WorkLeft' \in 0 .. WorkLeft - 1
    OBVIOUS
  <2>1. \/ stage \in DOMAIN StagesAhead \/ stage = "disassemble"
        \/ stage \in {"loop", "call", "execute", "write"}
        \/ stage \in {"done", "failed"}
    BY AheadOfWork DEF FileInv, Stages
  <2>2. stage \notin {"done", "failed"}
    BY DEF ToolNext, Work, ParseCommandLine, ReadFile, CheckLength, SelectProgram,
           NoProgram, Disassemble, Render, WavNext, CompileProgram, OpenOutput, WriteHeader,
           NextBlock, CallExecute, ExecuteFrame, EndOfFrame, ReturnFromExecute, WriteSample,
           LoseSample, EndOfBlock, CloseOutput
  <2> QED  BY <2>1, <2>2, StagesCountDown, ListingCountsDown, BlocksOfToolCountDown
<1> QED  BY <1>1, SoundInvariant, ListingInvariant, PTL DEF ToolSpec, ToolCountsDown
=============================================================================
