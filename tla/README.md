# A formal model of fv1vm

fv1vm runs programs for the Spin FV-1 audio processor: it decodes the binary
instructions of a program, compiles them into a byte code, and executes the byte
code once per sample, on 24 bit fixed-point registers, a 32768 sample delay
memory, two ramp and two sine oscillators. Two tools use it: `fv1_wav` renders
what a program makes of silence to a sound file, and `fv1_dump` disassembles
programs. This directory holds TLA+ modules translated from `src/src` and
`src/tools`, configurations that check them with TLC, and proofs that TLAPS
checks.

Paths below are relative to the repository (`src/` in `PROJECT.json`).

## The system

| part | state | operations | what makes it correct |
|---|---|---|---|
| fixed-point arithmetic, `core/core_fpmath.h`, `core/core_fixed_point.h` | none | SSAT, SX, `*`, `+`, `-`, ABS, AND, OR, XOR, NOT | a sum reaches the clamp before it wraps; the logical operations work on two's complement words |
| delay memory, `fv1/fv1_delay_memory.h` | buffer, cursor, last read sample | Reset, Load, Store, Tick | for any index it is a tapped shift register |
| ramp LFO, `vm/ramp_lfo.h` | phase; rate and range are registers of the VM | Jam, Tick, Read, value | reads stay in the range; a pointer jumps only while its crossfade is silent |
| sine LFO, `vm/sin_lfo.h` | sine, cosine; rate and range as above | Jam, Tick, Read, sin, cos | bounded for ever though nothing saturates; it never stops |
| execution, `vm/vm.h`, `vm/vm_execute_v1.h` with the engine `vm/engines/engine_i32_v1.h` | registers, acc_, pacc_, first_run, and the copies Execute works on | SetParameters, Execute, Tick, what Compile resets | one machine per sample, whatever the blocks are |
| compiler, `vm/vm_impl.h` | instructions_ | Compile, CompileInstruction, Optimize | a program is loaded as it was written, can be executed, and optimising changes no result |
| decoder, `fv1/fv1_asm_decode.*`, `fv1/fv1_instruction.h` | a constant table | Decode | every word has at most one meaning; operands keep sign, place and scale |
| program stream, `misc/program_stream.*` | read position | available, Next, Reset | big-endian words, 128 of them |
| program files, `tools/fv1_tools.*`, `fv1/fv1_bank.h` | buffer, length | Read, valid_length, program | only a whole program that is in the file is ever used |
| `tools/fv1_wav.cc`, `wav.h` | options, sample counter, block size, frames, the file | parse, read, compile, loop over blocks, Write | the file is what the chip plays, whatever the block size |
| `tools/fv1_dump.cc` | last word, count, ic, what is printed | parse, read, disassemble | the listing tells the program, and counts its runs |
| debug printing, type tags, tests | - | text and names | not modelled, see below |

How they interact: the host (a tool, a test, a firmware) hands a ProgramStream
to `Compile`, calls `SetParameters` between blocks, and calls `Execute` with a
block of frames. `Execute` calls the delay memory and the LFOs directly; the LFOs
hold pointers to their rate and range registers, so a program that stores to a
register changes its LFO at once, but the LFO fits its phase to the new range
only in its next Tick. A tool is such a host: it reads a file or a pipe with one
`read()`, selects a program of it, and either hands it to `Compile` and then to
`Execute` block by block, or reads the words itself. Everything is single
threaded; there are no callbacks, and nothing but the sound file is persistent.

What is hard here is therefore not concurrency between threads but

- order: which previous accumulator an instruction sees across instructions,
  frames and blocks; when a store to a register meets the tick of its LFO; what
  an earlier program leaves behind;
- boundaries of numbers: sums at the clamp, sign extension, negative indices,
  shifts by a register, rounding that accumulates over thousands of samples;
- host protocols: empty blocks, blocks of any size, recompiling, streams that
  are used up, parameters that are set between blocks only;
- files: a `read()` that returns less than the file, programs selected beyond
  its end, writes that fail and are not looked at, a header that is written
  before what it counts.

`PROJECT.json` lists these hazards line by line with the properties that cover
them.

## Modules

```
FixedPoint          arithmetic of SF23 at a symbolic width
  Accumulator       what the arithmetic promises for the accumulator
  Lfo               what both LFOs share
    RampLfo         one ramp and a program that stores its registers
    SinLfo          one oscillator
    Instructions    registers, and the instructions the switch takes
      Machine       the state and every case of the switch; uses DelayMemory,
                    RampLfo and SinLfo through INSTANCE
        Chip        abstract: the processor, sample by sample
          FreshChip   abstract: a chip switched off and on for every program
        Vm          Execute, SetParameters and Compile as the host calls them
          EchoProgram   a program whose sound can be told from the outside
          Wav       fv1_wav from the compiled program on: Vm and its host
            Tools   both tools, from the command line to the end; with
                    BinaryFile and Disassembler
      Compiler      CompileInstruction, Optimize, operands of each case
        Loader      the loop of Compile over a stream; with Decoder
          Assembler what the bits of a program mean to who writes it
        Optimizer   Machine and Compiler: an instruction before and after
DelayLine           abstract: a tapped shift register
DelayMemory         the ring buffer
Decoder             stream, bit fields, instruction table, operand types
BinaryFile          program files: the read, the layouts, the selection
Disassembler        the run-length loop of a listing
```

`MC...` modules give TLC its constants and inputs; `..._proofs` modules hold the
theorems. Three abstract specifications are implemented, as properties: DelayMemory
implements DelayLine (the refinement mapping unrolls the ring at the cursor), Vm
implements Chip (its accumulators are `acc_`, `pacc_` between blocks and the
locals inside one), and Vm implements FreshChip, in which every program begins
with everything at its initial value, `last_read_` too
(`ForgetsEarlierPrograms`). fv1_wav implements Chip once more, with a narrower promise:
`RendersLikeChip` has the program loaded and the pots turned before the first
sample, then only samples of silence and their record in `played`.

How state and actions correspond to the code:

- **FixedPoint.** `kIntRange` is 2^23 in the source and a constant here, with
  everything else in proportion, int32_t included (`Wrap32`). `Mul` is the
  version in C (64 bit product, arithmetic shift), which the ARM instructions
  equal. Logical operations are sets of bit positions. Accumulator has no step of
  its own: the machine of Vm and the small one of run `arithmetic` share it.
- **DelayMemory.** One action per method; the mask `& (size - 1)` is `%`, which
  it equals because the size is a power of two. Any integer is an index.
- **RampLfo.** The variables are phase_ and the two registers behind the
  pointers. `StoreRate`, `StoreRange` and `WLDR` are what programs do to the
  registers, `TickSample` is Tick. A negative range makes the shift count
  negative, which is undefined in C++: `Range` and `Crossfade` take the values
  that ARM and x86 shift instructions leave, a choice where they differ.
- **Machine.** One operator per case of the switch, named for the opcode. `Set`
  is a store without the clamp (copies of registers, `storei`), `Store` clamps.
  LOG and EXP have no code in the source and do nothing here either.
- **Vm.** `BeginBlock` is the entry of Execute, `BeginFrame` the loop head,
  `ExecuteInstruction` one pass of the `while`, `EndFrame` Tick and the output,
  `EndBlock` the copies back. `Compile` is one action: a finished program
  arrives in `instructions_` (how, is Loader's) and everything it resets is
  reset. It keeps what the code keeps: `last_read_`. A block of no frames is
  possible. `heard` and `leftover` are history variables: the input since the
  latest Compile, and whether the `last_read_` which that Compile kept is still
  hidden, has been overwritten by a read, or has been fed back by a WRAP. For
  FreshChip a hidden one counts as 0; the only steps it need not allow are those
  after which it is audible.
- **Loader.** The stream is bytes, a word is the set of its 1 bits. Compile
  is the loop (`LoadInstruction` per word, `EndOfStream`) and Optimize. The
  caller may compile a stream again without a Reset: nothing is loaded and
  Optimize runs again over what is there; the model does so too.
- **Decoder.** `Layouts` are the bit strings of `FV1_INSTRUCTION`, each as the
  places of its fields; `InstructionTable` has the slots that
  `RegisterInstruction` gives them (`SlotOf`: by the primary key, or one of the
  extra slots in the order of registration), and `Lookups` the search for a
  secondary key. `BitField` reads the bits of a field from the highest down.
- **Assembler.** The other direction, and not translated from a function of the
  source: `IsWritten` relates a word and a statement (an opcode and its operands)
  by the bits alone. It takes the layouts from Decoder and nothing else: no
  search, no slots, no sign extension, no shifts. `LoadsAsWritten` compares what
  Compile leaves with it.
- **Compiler.** `OptimizeWlds` computes the amplitude from the already shifted
  rate, as the code does through its reference. `Dispatch` says which constants
  a case of the switch takes, and as what.

- **BinaryFile.** Lengths are bytes, contents are words, model values that
  nothing looks into. `Read` is the one `read()` of the code: a file gives what
  the buffer holds, a pipe any part of it, both may give nothing. A word of which
  only some bytes have arrived is any word. `HasProgram` is the comparison of
  `program(index)`, as it stands: whether the first byte is in the file.
- **Wav.** `stage` is the place in `main`. `NextBlock` is the head of the loop
  with its SetParameters, `CallExecute`, `ExecuteFrame`, `EndOfFrame` and
  `ReturnFromExecute` are Vm's actions under the hand of the tool, `WriteSample`
  one call of `SampleWriter::Write`. `LoseSample` and the second half of
  `WriteHeader` are a write that stores nothing or a part, at any time;
  `OpenOutput` may fail. `Compiled` stands for the loader: a function from words
  to instructions, since Loader shows that Compile treats each word by itself.
  `data` holds a sample as the number that its bytes are without a sign, `Torn`
  one that is incomplete. `lost` and `played` are history variables.
- **Disassembler.** A line is its number and the word (`--verbose` prints it); a
  count is an entry of its own behind the line after which the code prints it.
  The text of a line is `debug::print_decoded_instruction` and left out.
- **Tools.** `ParseCommandLine` has the conditions under which the tools give up;
  `ReadFile`, `CheckLength`, `SelectProgram` and `NoProgram` are the steps both
  mains take in the same order, with the exits where they differ: a file of no
  bytes ends `fv1_wav` at once and `fv1_dump` at the length check, and `--nodump`
  ends `fv1_dump` ahead of its listing.

Definitions named `...Mistake` are not code. Each is a plausible slip in the
definition after it; a property that would not notice it says nothing about the
code. `PROJECT.json`, `mutants`, pairs them.

## Runs

| run | bounds | what it shows |
|---|---|---|
| vm | 8 bit samples, 32 samples of delay, 11 programs of 5 instructions, 2 frames, 1 pot setting, blocks of 0 to 3 frames, 3 frames after each Compile | types; `FirstRunIsFirstFrame`; `EchoIsOnTime`; `SinesSwing`; `FramesBeginSettled`; Vm implements Chip, and FreshChip but for a WRAP ahead of any read; every step of a block leaves less to do (`BlockCountsDown`), and it returns |
| delay_memory | 4 slots, 2 values, indices from below zero to past the size | it implements the shift register |
| ramp | 8 fraction bits, 16 samples of range, 7 rates, 6 ranges | `ReadsKeepToRange`, `FadeIsContinuous`, `JumpsAreSilent` under stores at any time; `SweepsForever`: once the stores end the ramp comes round for ever |
| sine | 8 fraction bits, every rate, each followed round its orbit | amplitude bounded, every tick can be undone (`Reversible`), never stuck |
| arithmetic | 8 bits: every accumulator, coefficient, addend and mask | the clamp sees the exact sum; logic is bitwise |
| loader | 24 real bits, programs of 2 instructions: all 24 opcodes with operands at their limits, junk in free bits, words of no opcode; two compiles | `LoadsAsWritten`, `IsExecutable`; with `TextAssumption`, that the words TLC assembles are what Assembler says |
| optimizer | 6 bits: every accumulator, the operands Optimize tests and neighbours of theirs | the short forms do what the long ones do |
| tools | 8 bit samples, programs of 5 words, banks of 2 programs; every length of file and pipe around those of the layouts, every selection inside and beyond a bank; 1, 4 and 5 samples in blocks of 1 to 4, in 16 and 24 bits; every program of three words as a listing; two failing writes | `SelectedProgramIsWhole`, `FileIsWhatPlayed`, `HeaderTellsSize`, `RendersLikeChip`, `ListingTellsProgram`, `CountsTellRuns`; every step leaves less to do (`ToolCountsDown`), every call ends (`ToolEnds`) |

The eleven programs of `vm` reach every case of the switch; they carry an
accumulator from one frame and block into the next (`Shelf`, `Carry`), branch
past the end (`Branch`, `Vibrato`), fold the delay address (`AllPass`,
`Pointer`), store LFO registers (`Sweep`, `Vibrato`), read a ramp whose range they
have just lowered (`Shrink`) and feed back what the
program before has read (`Feedback`; `AllPass` reads first and must not). Three
frames are enough for a block boundary before, inside and after the echo time of
2 and for the second frame after a Compile, which is where the run flag changes;
delay memory needs more samples to wrap, and that is run delay_memory, its
theorem, and `EchoOnTime`. `arithmetic` is at eight bits because that is enough
for a product with 2.0 to exceed the int32_t in proportion, and few enough to
try every value; what it shows is a theorem at every width.

In `tools`, 4 and 5 samples in blocks of 1 to 4 have blocks that divide the
length, that do not, and that are longer than what is left; one sample in a block
of 2 is a file shorter than its first block. A word has two bytes, so that one
can arrive in part; `kInfoSize` is 13, no multiple of that, as 693 is none of 4.
Two programs play: a sine scaled by a pot, which is silent unless the parameters
arrive, and a filter that needs the accumulators of the frame before, across
blocks. All 3^5 listings hold every pattern of runs of five words, with the word
of ones in every place. Two writes may fail, which is enough for one loss to move
the channels and for another to move them back, and for a lost header besides a
lost sample. `kSizeRange` stands for 2^32 and is small enough for the
sizes of one file to exceed it.

Bounds in guards: `kMaxBlock` (frames in a block), `kMaxFrames` (frames since a
Compile), `kMaxCompiles` (in Loader), `kMaxLost` (writes that fail, in Wav). Only
`tools` switches the deadlock check off: a tool really ends, and `ToolEnds` says
where.

Four runs show where the code does something else than a comment of the
repository says:

- **wlds_amplitude**: `vm_impl.h:126` shifts `f` where `a` is meant, and `f` is a
  reference to a constant shifted one line before. Every WLDS with a rate of 2
  or more gets full amplitude.
- **ramp_coefficient**: `engine_i32_v1.h:75` shifts by one bit too many, so the
  interpolation coefficient reaches almost 2.0; `lfo.h:37` says `[0, 1)`.
- **xor_all_bits**: XOR of a negative accumulator with all bits is not NOT, for
  which Optimize exchanges it (`vm_impl.h:101`): the sign survives in XOR
  (`core_fpmath.h:157`).
- **control_values**: `vm.h:65` says that the control values are `used for all
  frames` of a block. WRAX, WRHX and WRLX store to any register, the pots
  included, and only the next SetParameters brings a pot back: how many frames
  run with the other value depends on the size of the blocks.

That RMPx_RANGE can be stored between two ticks, so that a Read has the new range
with the old phase, is modelled too. `ReadsKeepToRange` says how far such a Read
goes, beyond an end of the range by no more than the phase hangs over; and
`FramesBeginSettled`, of the whole machine, that the overhang does not outlive the
frame, so no program can carry it into the next one.

A write that fails is no error to `fv1_wav`. `FileIsWhatPlayed` says what becomes
of the file: each failure costs the sample that was to be written and no other,
and those behind it move up in their order (an odd number of losses exchanges the
channels from there on). `HeaderTellsSize` says that the header exceeds the file by
no more than what was lost. A sample of which some bytes arrive is `Torn`:
`data` has an entry for it, as for every write that left something. How many of its
bytes those are is left out, and with it that whatever follows is no longer at a
multiple of the sample size, where a player looks for it.

## Fairness

- `WF_vars(Execute)` in Vm: Execute is a plain loop that waits for nothing, so
  once called it goes on. Nothing is assumed of the host: it need not call.
- `WF_vars(TickSample)` in RampLfo's `FairSpec` and SinLfo's `FreeRunningSpec`:
  samples keep coming. The liveness of the LFOs is about one that is ticked and,
  in SinLfo, whose rate the program has stopped changing; nothing follows for a
  host that stops.
- `WF_tool(Work)` in Tools: a tool is a plain program, so whatever it can do next
  it does, all but `ReadFile`. A pipe may never deliver, and then the tool waits
  for ever; `ToolEnds` begins behind the read.

No theorem uses fairness: where a specification has it, the proof is about its
initial states and steps.

## Proofs

All constants are arbitrary within their named assumptions: the width
(`RangeAssumption`, `FracAssumption`, `WidthAssumption`: powers of two with room for
the LFO fields; `WidestAssumption`: at most the 24 bits of the source, which only
the theorems on single bits use), the program length, the host's programs, frames
and pots (`HostAssumption`), the sizes of memory, and for the tools the calls, the words
and the sizes of the layouts (`FileAssumption`, `ToolAssumption`,
`OptionsAssumption`), with the two that join the tool to its virtual machine:
what it compiles and the pots it sets are inputs Vm allows
(`ProgramsAssumption`, `PotsAssumption`), and a program does not store to the pots
(`WavAssumption`; `control_values` shows what happens when it does).

The bits of an instruction word are not in proportion to the width, so Loader is
at that of the source (`FormatAssumption`), for programs of any length.
`TextAssumption` says that `TextOf` is what a binary was written from. It leaves
out no binary: `DecodesAsWritten` shows that every word was written from exactly
one statement.

- **DelayMemory_proofs**: `TypeCorrect`; `RingBufferIsShiftRegister`. Each
  method maps to one of DelayLine; the step for Tick is the arithmetic of moving
  the origin by one, `((c - 1) + a) % n = (c + (a - 1)) % n`.
- **FixedPoint_proofs**: `MacExact` and `BlendExact`, no multiply-accumulate
  wraps before it is clamped, from bounds on a product and on a quotient.
  `LogicHasOneResult`: AND, OR and XOR, defined as the numbers that have certain bits,
  have exactly one result, since a number is known by its bits (`SameBits`)
  and every set of bits is that of a number (`EveryBits`). `XorAllBits`: XOR with
  a full mask is NOT for the operands that are not negative and for no other, so
  the finding of run `xor_all_bits` bites exactly there. Both go by induction on
  the width. The induction theorems of the library cannot be used, so the
  induction is over a set of numbers: one that has 0, and with n also n + 1, is
  Nat, because otherwise there is a least number outside (`SetInduction`).
- **RampLfo_proofs**: `TypeCorrect` (the phase is in its type whatever is stored,
  negative ranges too), `ContinuousFade`, `JumpsAreSilent` as `SilentJumps`, and
  `ReadsKeepToRange` as `ReadsInRange`. All three need only the types: a period has
  an even number of phases, a step is no longer than a period, and the triangle
  times 4 / range is below 1.0 because the period is. A phase that hangs over is
  below the range plus the overhang, and no bit operation on it (`PointerInReach`)
  adds more than that.
- **Machine_proofs**: every instruction keeps the machine in its ranges
  (`PerformTyped`), likewise Tick and the resets. One lemma per way to change
  state, one step per case of the switch. After a Tick and after a Compile every
  ramp is settled, whatever is in its registers (`TickSettles`, `ClearSettles`).
- **Vm_proofs**: `TypeCorrect`, `FirstRun`, `Refinement`. The invariant is
  `Inv == Typed /\ HostTyped /\ LocalsAgree`. Types alone are not inductive:
  `num_frames` falls in EndFrame, and stays a number only because a frame at work
  is not yet counted (`pc = "frame" => num_frames > 0`). Refinement needs the
  other half of `LocalsAgree`: inside Execute `prev_acc = acc`, so that
  `pacc = prev_acc` is what the chip does, `pacc = acc` before the instruction.
  Then `Compile`, `SetParameters`, `BeginFrame`, `ExecuteInstruction` and
  `EndFrame` are steps of Chip, and `BeginBlock` and `EndBlock` stutter.
  `SumsStayExact`, `LogicStaysBitwise` and `XorStaysBitwise`: what run
  `arithmetic` checks of a small machine holds in every state of the real one,
  because its accumulator is an SF23 (`Typed`).
  `EchoOnTime`: the echo program, with any echo time that fits the delay memory
  and for any width, is on time for ever and starts from silence. `EchoIsOnTime`
  speaks of the latest output only and is far from inductive; `EchoInv` says what
  the whole delay memory holds, that tap `a` is the input of `a` frames ago, and
  where in a frame the sample is on its way from ADCL to DACL. Stores touch one
  tap (`TapsDiffer`), a tick moves all taps by one (`TapsMove`), Compile empties
  them. It needs programs of at least five instructions, those of the echo; 128
  in the source.
  `ProgramsStartFresh`: Vm implements FreshChip. Compile is its `PowerUp`, since
  it resets all that PowerUp does and hides the one thing it does not. An
  instruction is the same on both sides although one of them has another
  `last_read_`: of all cases of the switch only WRAP looks at it, and only those
  of `ReadsDelay` overwrite it, so there is a lemma per group of cases
  (`FreshArithmetic` to `OthersForget`). This is what hazard
  `fv1_delay_memory.h:40` amounts to: one sample, for programs that execute a WRAP
  before they read anything, and nothing else.
  `SinesReversible` and `SinesKeepSwinging`: Tick adds to one term a function of
  the other, so each half is undone by the same sum with the other sign, wrapped
  or not (`WrapUndone`, `SumsUndone`, `TickUndone`). No two states merge, at any
  rate; as 0 stays 0, nothing else can come to rest there (`TickSwings`), and only
  Tick, JAM and Compile touch the terms (`PerformSines`). That needs no bound on
  the amplitude, which is why it holds under any stores where `AmplitudeStays`
  does not.
  `FramesSettled`: only an instruction unsettles a ramp, and every frame ends with a
  Tick. The range is a register that any program may store to, negative too, so
  the argument is in `TickSettles`: masking brings the phase below the period of
  whatever range it meets.
  `BlocksCountDown`: each step of Execute lowers `StepsLeft`, the frames left times
  the length of the program and two, with what is left of this frame. It is the
  part of `BlockReturns` that a proof can state: fairness adds that the next step
  comes.
  `ControlsHoldUnlessStored`: if no program stores to a pot, the pots stand still
  within a block, so the finding of run `control_values` bites for no others.
- **Optimizer_proofs**: `ShortFormsPreserve`, which is all of `OptimizePreserves`:
  what Optimize puts in the place of RDFX, MAXX, AND, XOR and SKP changes nothing
  (and OR is left alone). AND with no bits is CLR, and XOR with all bits is NOT
  unless the accumulator is negative, which `OptimizePreserves` excepts.
- **Loader_proofs**: from the bytes of a program to what Execute is given.
  `DecodesAsWritten`: for all 2^32 words, `Decode(word)` is the one statement that
  the word was written from. A field is read as the number whose bits it has
  (induction on its width), sign extension and shift restore the operand
  (`OperandDecodes`), and the search with its extra slots finds the layout whose
  keys match, and there is at most one (`LookupsMatch`, `OneMatches`).
  `TypeCorrect`: the loop does not leave `instructions_`. The code has no check:
  the invariant (`IndexInv`) is that it stores no more words than it has taken,
  `4 * instruction_count <= head`, and streams end. `WholeProgramIsLoaded`: after
  a Compile from the start of a stream every instruction is that of its word,
  whatever was there before (`SourceInv`). With `DecodesAsWritten` that is
  `LoadsAsWritten` (`ProgramIsAsWritten`).
  `LoadsExecutable`: `IsExecutable`, every instruction has operands that its case
  of the switch takes. Not inductive as it stands, since Optimize may run again
  over what it has made: `FormInv` has the form of every instruction, compiled or
  optimised, with the ranges of its constants, and is closed under Optimize
  (`OptimizedForm`). It also discharges, for programs that come from a stream,
  what `HostAssumption` asks of Vm's `Programs`.
- **Tools_proofs**: a theorem for each safety property of run `tools` and for
  `RendersLikeChip`. The argument goes in layers, each an invariant that needs
  the ones before it.
  `FileInv`: the words in front of `length_` are those of the file, and behind
  the length check every selected program is in front of it, since a program is
  as large as a single file and banks are multiples of it (`SelectedIsWhole`).
  `HostInv`: a block has between 1 and `sample_count` frames, and Vm is inside
  Execute exactly at stage `execute`; so every step of a tool is one that Vm
  allows its host, and what Vm_proofs shows of Vm holds here (`HostInvariant`).
  `SoundInv` adds that after the first NextBlock the pots are at their positions
  and stay there, so that setting them again is no step of Chip at all
  (`Rendered`; its steps are the lemmas of `Refinement`).
  `PlayedInv` and `DataInv` count: `played` has the frames of the blocks before
  and of this one, the vector out holds its end, and there were as many calls of
  write as the blocks before have samples and `written` more (`Due`). What the file
  lacks of them is at most what was lost. That each loss is of one sample is not
  to be seen in a state, so `FileAgrees` carries a witness: a function `skipped`
  that says of each sample in the file how many are missing in front of it, and
  that never falls. A write that succeeds adds to it the number of those missing
  so far, and one that fails adds nothing (`FileGrows`, `FileLacks`), while frames
  that are played on leave it right (`FileStays`). With `RoundTrip`, for a sample
  through the bytes of the file, that is `WrittenAsPlayed`; with the count of the
  whole samples, `HeaderTells`.
  `ListingInv` and `CountsInv`: `last` is the word before the head, the last
  `count` words are that word and no more of them are, and every line is for a
  word before the head. So a later line changes nothing that was told
  (`ListingTells`), and a count that is printed after the next line still is the
  length of the run before that line (`CountsTell`).
  `ToolsCountDown`: each step of a tool lowers `WorkLeft`, which takes the layers
  above: that a block has at least one frame and at most those that are left
  (`HostInv`), that no sample is written twice (`DataInv`), that the head is inside
  the program (`ListingInv`), and `ExecuteCountsDown` of Vm_proofs inside a block.

Only model-checked:

- liveness (`BlockReturns`, `SweepsForever`, `Oscillates`, `ToolEnds`): the prover
  does not do liveness under fairness. For the first and the last the bound on the
  number of steps is proved (`BlocksCountDown`, `ToolsCountDown`);
- `AmplitudeStays`: the exact rotation keeps a quadratic form, but rounding after
  each product lets it drift a little up or down, so the set of reachable points
  of a rate is closed only as it is enumerated; TLC follows every rate's orbit;
- the types of the small machine of run `arithmetic`: `TypeCorrect` of Vm_proofs
  has the accumulator of the real one;
- the four findings: a counterexample is their proof. `XorAllBits` says in
  addition exactly for which accumulators the one of them is, and
  `ControlsHoldUnlessStored` for which programs another.

## Not modelled

- Debug printing (`fv1/debug`), type tags: text and compile-time names only. The
  same of the usage texts, the messages and the BankInfo that the tools print.
- Float conversions (`to_float`, `FixedFromFloat`), except that of a pot: `Position`
  clamps it and scales it to the register; a pot that is not a number is left out.
- How `getopt_long`, `atoi` and `sscanf` read an option: `options` is what they
  leave. A block size for which the vector of frames cannot be allocated stops the
  tool with an exception and is left out.
- What a short write leaves of the header: it is there or it is not.
- Programs that store to a pot, under `RendersLikeChip`: see `control_values`.
- The REG flag of CHO: no code looks at it.
- The ARM versions of `*`, `+`, `-`, ABS and SSAT: they are the same functions.
  `-` and unsaturated `+` in SinLfo wrap in the model where the C++ is undefined.
- Reading `constants` of an instruction array shorter than the program: the
  stream always has 128 words.

## Plan

Done: FixedPoint, DelayMemory, the LFOs, Machine, Vm and its refinement, the
loader and its decoder, the optimizer, the tools; theorems for all safety
properties but the ones listed under "Only model-checked". What is left, in this
order:

1. Compose Loader and Vm: `Programs` from decoded streams, Compile as several
   steps with its resets first. `LoadsExecutable` is the link.
2. Sine LFO under a program that changes its rate: what bound survives (the one of
   `AmplitudeStays` does not), and the coefficient of its reads.
3. Wav composed with Loader, so that `Compiled` of the tools is the decoder
   instead of a function that is given.
