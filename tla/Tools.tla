-------------------------------- MODULE Tools --------------------------------
(***************************************************************************)
(* src/tools: one call of fv1_wav or fv1_dump.  Both parse their options,  *)
(* read a file and take one program out of it; then they part.             *)
(***************************************************************************)
EXTENDS Wav, BinaryFile, Disassembler

CONSTANT Calls   \* pairs of options and the input they are given

ASSUME ToolAssumption ==
  /\ Calls \subseteq Options \X Input
  /\ AllOnes \in Word
  /\ kProgramWords = kMaxInstructionCount /\ kLength = kMaxInstructionCount
  /\ \A o \in Options : /\ o.tool \in {"wav", "dump"} /\ o.program \in Int
                        /\ {o.ofile, o.nodump} \subseteq BOOLEAN

ProgramOf(source, index) ==
  [i \in 0 .. kProgramWords - 1 |-> source.words[index * kProgramWords + i]]

\* Programs has what is in the files.
ASSUME ProgramsAssumption ==
  \A call \in Calls : \A index \in 0 .. kPrograms - 1 :
    call[1].tool = "wav" => Translated(ProgramOf(call[2], index)) \in Programs

VARIABLES
  input,     \* the file or pipe
  program    \* what program() points to

file == <<contents, length_, program>>
tool == <<vars, options, stage, wav, file, disassembler, input>>

ToolInit ==
  /\ Init /\ WavInit /\ DisassemblyInit
  /\ \E call \in Calls : options = call[1] /\ input = call[2]
  /\ stage = "parse"
  /\ contents = [i \in Slot |-> ZeroWord] /\ length_ = 0
  /\ program = [i \in 0 .. kProgramWords - 1 |-> ZeroWord]

\* Definitions named ...Mistake are not the code: each is a slip that some run
\* must notice when it replaces the definition below it.
EmptyBlocksMistake ==
  /\ options.program \in 0 .. kPrograms - 1
  /\ options.tool = "wav" =>
       /\ options.sample_count > 0 /\ options.ofile
       /\ options.bits_per_sample \in {16, 24}

\* What ParseCommandLine accepts.
ValidOptions ==
  /\ options.program \in 0 .. kPrograms - 1
  /\ options.tool = "wav" =>
       /\ options.sample_count > 0 /\ options.ofile
       /\ options.bits_per_sample \in {16, 24}
       /\ options.blocksize > 0

ParseCommandLine ==
  /\ stage = "parse"
  /\ stage' = IF ValidOptions THEN "read" ELSE "failed"
  /\ UNCHANGED <<vars, options, wav, file, disassembler, input>>

\* fv1_wav gives up when there is nothing to read; fv1_dump says so and goes
\* on, to a length that is not valid.
ReadFile ==
  /\ stage = "read"
  /\ Read(input)
  /\ stage' = IF options.tool = "wav" /\ length_' = 0 THEN "failed" ELSE "check"
  /\ UNCHANGED <<vars, options, wav, program, disassembler, input>>

\* The length is checked, and a dump without a listing is done.
CheckLength ==
  /\ stage = "check"
  /\ stage' = IF ~valid_length THEN "failed"
              ELSE IF options.tool = "dump" /\ options.nodump THEN "done"
              ELSE "select"
  /\ UNCHANGED <<vars, options, wav, file, disassembler, input>>

SelectProgram ==
  /\ stage = "select" /\ HasProgram(options.program)
  /\ program' = ProgramAt(options.program)
  /\ stage' = IF options.tool = "wav" THEN "compile" ELSE "disassemble"
  /\ UNCHANGED <<vars, options, wav, contents, length_, disassembler, input>>

NoProgram ==
  /\ stage = "select" /\ ~HasProgram(options.program)
  /\ stage' = "failed"
  /\ UNCHANGED <<vars, options, wav, file, disassembler, input>>

Render ==
  /\ WavNext \/ CompileProgram(program)
  /\ UNCHANGED <<file, disassembler, input>>

Disassemble ==
  /\ stage = "disassemble"
  /\ \/ RepeatedInstruction(program) /\ UNCHANGED stage
     \/ NewInstruction(program) /\ UNCHANGED stage
     \/ EndListing /\ stage' = "done"
  /\ UNCHANGED <<vars, options, wav, file, input>>

\* What a tool does without waiting for anybody.
Work ==
  \/ ParseCommandLine \/ CheckLength \/ SelectProgram \/ NoProgram
  \/ Render \/ Disassemble

ToolNext == ReadFile \/ Work

\* A pipe may never deliver anything.
ToolSpec == ToolInit /\ [][ToolNext]_tool /\ WF_tool(Work)

-----------------------------------------------------------------------------
Stages == {"parse", "read", "check", "select", "compile", "open", "header", "loop",
           "call", "execute", "write", "disassemble", "done", "failed"}

ToolTypeOK ==
  /\ TypeOK
  /\ stage \in Stages
  /\ \E call \in Calls : options = call[1] /\ input = call[2]
  /\ length_ \in 0 .. kDervishBankSize
  /\ contents \in [Slot -> Word]
  /\ program \in [0 .. kProgramWords - 1 -> Word]
  /\ sample_count \in 0 .. kMaxFrames /\ blocksize \in 0 .. kMaxFrames
  /\ Len(played) <= kMaxFrames
  /\ \A f \in {frames[i] : i \in DOMAIN frames} : f \in SF23 \X SF23
  /\ head \in 0 .. kLength /\ count \in 0 .. kLength /\ line_ic \in 0 .. kLength
  /\ last \in Word

Selected == {"compile", "open", "header", "loop", "call", "execute", "write",
             "disassemble"}

\* A tool works only on a program that has arrived whole and lies among the
\* programs of its file, not in the BankInfo behind them: whatever the size of
\* the file, the number of the program, and the piece that a pipe delivers.
SelectedProgramIsWhole ==
  stage \in Selected =>
    LET past == (options.program + 1) * kProgramSize
    IN  /\ past <= input.size /\ past <= kBankSize
        /\ program = ProgramOf(input, options.program)

\* At every point of a disassembly, the lines printed so far tell each of the
\* words read so far; also those at the start that are not printed, since the
\* first line does not have the number 0.
ListingTellsProgram ==
  \A i \in 0 .. head - 1 : Shown(i) = {program[i]}

\* A repeat count is the length of a run of equal words, exactly.
CountsTellRuns ==
  \A k \in Counts : CountsARun(k, program)

\* What a tool has before it at most.  A sample may take a block of its own:
\* four steps for the block, two for its writes, and its frame.
SampleSteps == kMaxInstructionCount + 8
StagesAhead == [parse |-> 8, read |-> 7, check |-> 6, select |-> 5,
                compile |-> 4, open |-> 3, header |-> 2]

WorkLeft ==
  LET later == (sample_count - blocksize) * SampleSteps + 2
  IN  IF stage \in DOMAIN StagesAhead
      THEN options.sample_count * SampleSteps + kLength + StagesAhead[stage]
      ELSE IF stage = "loop" THEN sample_count * SampleSteps + 1
      ELSE IF stage = "call" THEN later + blocksize * (kMaxInstructionCount + 4) + 2
      ELSE IF stage = "execute" THEN later + 2 * blocksize + StepsLeft
      ELSE IF stage = "write" THEN later + 2 * blocksize - written
      ELSE IF stage = "disassemble" THEN kLength - head + 1
      ELSE 0

\* A tool does no step that does not bring it nearer to its end: neither a
\* block that plays nothing nor a sample or a word that is done twice.  So
\* the time of a call is bounded by its sample_count or the length of a
\* program, whatever the block size, the program and the file.
ToolCountsDown ==
  [][/\ WorkLeft \in Nat
     /\ WorkLeft' \in 0 .. WorkLeft - 1]_tool

\* A tool that has read its input comes to an end.
ToolEnds == (stage \notin {"parse", "read"}) ~> (stage \in {"done", "failed"})
=============================================================================
