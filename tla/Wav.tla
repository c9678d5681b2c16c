--------------------------------- MODULE Wav ---------------------------------
(***************************************************************************)
(* src/tools/fv1_wav.cc from the compiled program on, and wav.h: the host  *)
(* of a virtual machine that plays silence to it, block by block, and      *)
(* writes what it answers to a WAV file.                                   *)
(*                                                                         *)
(* Nobody looks at the result of a write.  One may store nothing, or a     *)
(* part of a sample, and the tool goes on.                                 *)
(***************************************************************************)
EXTENDS Vm, FiniteSets

CONSTANTS
  Compiled,     \* what VM::Compile makes of each word
  Options,      \* the command lines, parsed
  kSizeRange,   \* 2^32: sizes in a WAVHeader are uint32_t
  kMaxLost      \* bound: writes that fail

\* What a program does to a pot is not in the promise: SetParameters undoes it
\* with the next block, wherever that begins (see ControlsHold in Vm).
ASSUME WavAssumption ==
  /\ \A p \in Programs : \A n \in DOMAIN p : ~StoresToPot(p[n])
  /\ <<0, 0>> \in Frames
  /\ kSizeRange \in Nat \ {0} /\ kMaxLost \in Nat

ASSUME OptionsAssumption ==
  \A o \in Options :
    /\ o.sample_count \in 0 .. kMaxFrames /\ o.sample_count <= kMaxBlock
    /\ o.blocksize \in Nat /\ o.bits_per_sample \in Nat
    /\ o.pots \in Int \X Int \X Int

VARIABLES
  options,
  stage,          \* where main is
  sample_count,   \* what is left to play
  blocksize,      \* of the block at work
  frames,         \* the vector out
  written,        \* samples of the block that are written
  header,         \* {} or what the file has for a WAVHeader
  data,           \* the samples in the file, without their sign
  lost,           \* history: writes that failed
  played          \* history: the output frames of the virtual machine

wav == <<sample_count, blocksize, frames, written, header, data, lost, played>>

\* Definitions named ...Mistake are not the code: each is a slip that some run
\* must notice when it replaces the definition below it.

\* In 16 bits, the 8 lowest of a register are left out.
Unit(bits) == IF bits = 16 THEN S15Unit ELSE 1
bytes_per_sample == options.bits_per_sample \div 8

\* std::clamp and FixedFromFloat, for a pot in units of 2^-23.
Position(pot) == SSAT(IF pot < 0 THEN 0 ELSE IF pot > kIntRange THEN kIntRange ELSE pot)
Positions(pots) == <<Position(pots[1]), Position(pots[2]), Position(pots[3])>>
params == Positions(options.pots)

ASSUME PotsAssumption == \A o \in Options : Positions(o.pots) \in Pots

WavInit ==
  /\ sample_count = 0 /\ blocksize = 0
  /\ frames = <<>>
  /\ written = 0
  /\ header = {}
  /\ data = <<>>
  /\ lost = 0
  /\ played = <<>>

-----------------------------------------------------------------------------
\* What the loader makes of the words of a program.
Translated(words) == [i \in 0 .. kMaxInstructionCount - 1 |-> Compiled[words[i]]]

CompileProgram(words) ==
  /\ stage = "compile"
  /\ Compile(Translated(words))
  /\ stage' = "open"
  /\ UNCHANGED <<options, wav>>

OpenOutput ==
  /\ stage = "open"
  /\ stage' \in {"header", "failed"}
  /\ UNCHANGED <<vars, options, wav>>

\* sizeof(WAVHeader) - sizeof(ChunkHeader)
kHeaderSize == 44 - 8

HeaderMistake ==
  [riff |-> (kHeaderSize + options.sample_count * 2 * bytes_per_sample) % kSizeRange,
   data |-> (options.sample_count * bytes_per_sample) % kSizeRange]

WAVHeader ==
  [riff |-> (kHeaderSize + options.sample_count * 2 * bytes_per_sample) % kSizeRange,
   data |-> (2 * (options.sample_count % kSizeRange) * bytes_per_sample) % kSizeRange]

\* The header is written before the samples it counts.
WriteHeader ==
  /\ stage = "header"
  /\ \/ header' = {WAVHeader} /\ UNCHANGED lost
     \/ lost < kMaxLost /\ lost' = lost + 1 /\ UNCHANGED header
  /\ frames' = [i \in 0 .. options.blocksize - 1 |-> <<0, 0>>]
  /\ sample_count' = options.sample_count
  /\ stage' = "loop"
  /\ UNCHANGED <<vars, options, blocksize, written, data, played>>

FullBlockMistake ==
  /\ stage = "loop" /\ sample_count > 0
  /\ blocksize' = options.blocksize
  /\ SetParameters(params)
  /\ stage' = "call"
  /\ UNCHANGED <<options, sample_count, frames, written, header, data, lost, played>>

NextBlock ==
  /\ stage = "loop" /\ sample_count > 0
  /\ blocksize' = IF sample_count > options.blocksize THEN options.blocksize ELSE sample_count
  /\ SetParameters(params)
  /\ stage' = "call"
  /\ UNCHANGED <<options, sample_count, frames, written, header, data, lost, played>>

CallExecute ==
  /\ stage = "call"
  /\ BeginBlock(blocksize)
  /\ stage' = "execute"
  /\ UNCHANGED <<options, wav>>

ExecuteFrame ==
  /\ stage = "execute"
  /\ BeginFrame(<<0, 0>>) \/ ExecuteInstruction
  /\ UNCHANGED <<options, stage, wav>>

EndOfFrame ==
  /\ stage = "execute"
  /\ EndFrame
  /\ frames' = [frames EXCEPT ![blocksize - num_frames] = out']
  /\ played' = Append(played, out')
  /\ UNCHANGED <<options, stage, sample_count, blocksize, written, header, data, lost>>

ReturnFromExecute ==
  /\ stage = "execute"
  /\ EndBlock
  /\ written' = 0
  /\ stage' = "write"
  /\ UNCHANGED <<options, sample_count, blocksize, frames, header, data, lost, played>>

-----------------------------------------------------------------------------
(***************************************************************************)
(* SampleWriter::Write.                                                    *)
(***************************************************************************)

\* A sample of which the file has a part.
Torn == -1

UnshiftedMistake(value) == value % ((2 * kIntRange) \div Unit(options.bits_per_sample))

\* The low two bytes of value >> 8, or the low three of value.
Encoded(value) ==
  LET unit == Unit(options.bits_per_sample)
  IN  (value \div unit) % ((2 * kIntRange) \div unit)

\* The next sample of the block, left before right.
NextSample == frames[written \div 2][1 + (written % 2)]

WriteSample ==
  /\ stage = "write" /\ written < 2 * blocksize
  /\ data' = Append(data, Encoded(NextSample))
  /\ written' = written + 1
  /\ UNCHANGED <<vars, options, stage, sample_count, blocksize, frames, header,
                 lost, played>>

LoseSample ==
  /\ stage = "write" /\ written < 2 * blocksize
  /\ lost < kMaxLost
  /\ data' \in {data, Append(data, Torn)}
  /\ written' = written + 1
  /\ lost' = lost + 1
  /\ UNCHANGED <<vars, options, stage, sample_count, blocksize, frames, header, played>>

EndOfBlock ==
  /\ stage = "write" /\ written = 2 * blocksize
  /\ sample_count' = sample_count - blocksize
  /\ stage' = "loop"
  /\ UNCHANGED <<vars, options, blocksize, frames, written, header, data, lost, played>>

CloseOutput ==
  /\ stage = "loop" /\ sample_count = 0
  /\ stage' = "done"
  /\ UNCHANGED <<vars, options, wav>>

WavNext ==
  \/ OpenOutput \/ WriteHeader \/ NextBlock \/ CallExecute \/ ExecuteFrame
  \/ EndOfFrame \/ ReturnFromExecute \/ WriteSample
  \/ LoseSample \/ EndOfBlock \/ CloseOutput

-----------------------------------------------------------------------------
\* What a player makes of a sample in the file, on the scale of a register.
Decoded(x) ==
  LET unit == Unit(options.bits_per_sample)
  IN  unit * (IF x < kIntRange \div unit THEN x ELSE x - ((2 * kIntRange) \div unit))

\* Sample k of what has been played, left before right.
PlayedSample(k) == played[(k + 1) \div 2][IF k % 2 = 1 THEN 1 ELSE 2]

\* The samples of which a write has failed, and those in the file.
SamplesLost == IF header = {} THEN lost - 1 ELSE lost
Whole == {k \in DOMAIN data : data[k] # Torn}

\* The file has every sample the virtual machine has played, once, left before
\* right, to within the 8 bits that 16 bit samples lack; and when the tool has
\* ended, as many as it was asked for.  So it is at every block size.  A write
\* that fails takes its own sample with it and no other: the ones behind it
\* move up, and stay in their order.  data has an entry for each write that
\* left something: which bytes of a sample cut short are there, and where they
\* put the ones behind it, is not told.
FileIsWhatPlayed ==
  /\ \E skipped \in [DOMAIN data -> 0 .. 2 * Len(played) - Len(data)] :
       /\ \A j, k \in DOMAIN data : j < k => skipped[j] <= skipped[k]
       /\ \A k \in Whole :
            /\ skipped[k] <= SamplesLost
            /\ PlayedSample(k + skipped[k]) - Decoded(data[k])
                 \in 0 .. Unit(options.bits_per_sample) - 1
  /\ stage = "done" /\ (header # {} \/ lost > 0) =>
       /\ Len(played) = options.sample_count
       /\ Cardinality(Whole) = 2 * options.sample_count - SamplesLost

\* The header is written first; at the end the sizes in it are those of the
\* file with the samples that are missing, if they fit in 32 bits.  A sample
\* that is in the file in part counts as one.
HeaderTellsSize ==
  LET bytes   == bytes_per_sample * Len(data)
      missing == bytes_per_sample * SamplesLost
  IN  \A h \in header :
        stage = "done" /\ kHeaderSize + bytes + missing < kSizeRange =>
          /\ h.data \in bytes .. bytes + missing
          /\ h.riff = kHeaderSize + h.data

(***************************************************************************)
(* What a sound file promises: the sound that the chip makes of silence.   *)
(* The program is loaded and the pots are turned before the first sample,  *)
(* nothing is touched after that, and there are no blocks.                 *)
(***************************************************************************)
Prepare ==
  /\ played = <<>>
  /\ \/ \E program \in Programs : FV1!Load(program)
     \/ \E pots \in Pots : FV1!TurnPots(pots)
  /\ UNCHANGED played

PlaySample ==
  /\ FV1!StartSample(<<0, 0>>) \/ FV1!PerformNext
  /\ UNCHANGED played

RecordSample ==
  /\ FV1!FinishSample
  /\ played' = Append(played, out')

\* fv1_wav implements it at every block size: neither the cut into blocks nor
\* setting the parameters again with each of them can be heard.
RendersLikeChip ==
  /\ FV1!Init /\ played = <<>>
  /\ [][Prepare \/ PlaySample \/ RecordSample]_<<FV1!chip, played>>
=============================================================================
