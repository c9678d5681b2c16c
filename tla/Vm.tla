--------------------------------- MODULE Vm ---------------------------------
(***************************************************************************)
(* src/src/vm/vm.h and vm_execute_v1.h: the virtual machine as its host    *)
(* drives it.  The host compiles a program, sets the pots and hands over   *)
(* blocks of frames; Execute works on copies of acc_ and pacc_ and writes  *)
(* them back when the block is done.                                       *)
(*                                                                         *)
(* Calls are not concurrent: Compile and SetParameters come between two    *)
(* calls of Execute.                                                       *)
(***************************************************************************)
EXTENDS Machine, Sequences

CONSTANTS
  Programs,        \* what Compile leaves in instructions_
  Frames,          \* AudioFrames <<l, r>>, any int32_t
  Pots,            \* Parameters::pots, any int32_t
  InitialBuffer,   \* the caller's delay memory; the constructor keeps it
  kMaxBlock,       \* bound: frames in a block
  kMaxFrames       \* bound: frames since the latest Compile

ASSUME HostAssumption ==
  /\ Programs \subseteq Program
  /\ Frames \subseteq Int \X Int
  /\ Pots \subseteq Int \X Int \X Int
  /\ InitialBuffer \in [0 .. DelaySize - 1 -> SF23]
  /\ kMaxBlock \in Nat /\ kMaxFrames \in Nat

VARIABLES
  instructions_,
  acc_, pacc_,     \* state_: between two calls of Execute
  prev_acc,        \* with acc, pacc and ic: the locals of Execute
  ic,
  num_frames,      \* frames left in the block
  pc,              \* "idle", or where Execute is: the loop head or a frame
  out,             \* the latest output frame
  heard,           \* history: the input frames since the latest Compile
  leftover         \* history: what has become of the last_read_ that Compile
                   \* left: "hidden" in it, "gone" since the next read of the
                   \* delay memory, or "audible" since a WRAP ahead of that

state_ == <<acc_, pacc_, registers, first_run>>
locals == <<acc, pacc, prev_acc, ic, num_frames>>
vars == <<state_, delay, lfos, locals, instructions_, pc, out, heard, leftover>>

TypeOK ==
  /\ {acc, pacc, prev_acc, acc_, pacc_, last_read_} \subseteq SF23
  /\ registers \in [Register -> SF23]
  /\ buffer_ \in [0 .. DelaySize - 1 -> SF23]
  /\ cursor_ \in 0 .. DelaySize - 1
  /\ ramp_phase \in [0 .. 1 -> Nat]
  /\ sine \in [0 .. 1 -> Int32] /\ cosine \in [0 .. 1 -> Int32]
  /\ first_run \in BOOLEAN
  /\ instructions_ \in Program
  /\ ic \in Nat
  /\ num_frames \in 0 .. kMaxBlock
  /\ pc \in {"idle", "loop", "frame"}
  /\ out \in SF23 \X SF23
  /\ heard \in Seq(Frames)
  /\ leftover \in {"hidden", "gone", "audible"}

Init ==
  /\ acc = 0 /\ pacc = 0 /\ prev_acc = 0 /\ acc_ = 0 /\ pacc_ = 0
  /\ registers = [r \in Register |-> 0]
  /\ buffer_ = InitialBuffer /\ cursor_ = 0 /\ last_read_ = 0
  /\ ramp_phase = [n \in 0 .. 1 |-> 0]
  /\ sine = [n \in 0 .. 1 |-> 0] /\ cosine = [n \in 0 .. 1 |-> MIN]
  /\ first_run = TRUE
  /\ instructions_ = [i \in 0 .. kMaxInstructionCount - 1 |-> [opcode |-> "NOP"]]
  /\ ic = 0
  /\ num_frames = 0
  /\ pc = "idle"
  /\ out = <<0, 0>>
  /\ heard = <<>>
  /\ leftover = "gone"

-----------------------------------------------------------------------------
(***************************************************************************)
(* The host's calls.                                                       *)
(***************************************************************************)
Compile(program) ==
  /\ pc = "idle"
  /\ instructions_' = program
  /\ acc_' = 0 /\ pacc_' = 0
  /\ ClearAll
  /\ heard' = <<>>
  /\ leftover' = "hidden"
  /\ UNCHANGED <<locals, pc, out>>

SetParameters(pots) ==
  /\ pc = "idle"
  /\ StorePots(pots)
  /\ UNCHANGED <<acc_, pacc_, first_run, delay, lfos, locals, instructions_,
                 pc, out, heard, leftover>>

\* Execute is called: the locals are loaded.
BeginBlock(n) ==
  /\ pc = "idle"
  /\ Len(heard) + n <= kMaxFrames
  /\ num_frames' = n
  /\ acc' = acc_
  /\ pacc' = pacc_
  /\ prev_acc' = acc_
  /\ pc' = "loop"
  /\ UNCHANGED <<state_, delay, lfos, ic, instructions_, out, heard, leftover>>

-----------------------------------------------------------------------------
(***************************************************************************)
(* Inside Execute.                                                         *)
(***************************************************************************)
BeginFrame(in) ==
  /\ pc = "loop" /\ num_frames > 0
  /\ StoreInput(in)
  /\ ic' = 0
  /\ pc' = "frame"
  /\ heard' = Append(heard, in)
  /\ UNCHANGED <<acc_, pacc_, first_run, delay, lfos, acc, pacc, prev_acc,
                 num_frames, instructions_, out, leftover>>

ReadsDelay(i) == i.opcode \in {"RDA", "RMPA", "CHO_RDA_RMP", "CHO_RDA_SIN"}

Leftover(i) ==
  IF leftover = "hidden" /\ ReadsDelay(i) THEN "gone"
  ELSE IF leftover = "hidden" /\ i.opcode = "WRAP" THEN "audible"
  ELSE leftover

ExecuteInstruction ==
  /\ pc = "frame" /\ ic < kMaxInstructionCount
  /\ Perform(instructions_[ic])
  /\ pacc' = prev_acc
  /\ prev_acc' = acc'
  /\ ic' = ic + Advance(instructions_[ic])
  /\ leftover' = Leftover(instructions_[ic])
  /\ UNCHANGED <<acc_, pacc_, first_run, num_frames, instructions_, pc, out, heard>>

\* Definitions named ...Mistake are not the code: each is a slip that some run
\* must notice when it replaces the definition below it.
ExactEndMistake ==
  /\ pc = "frame" /\ ic = kMaxInstructionCount
  /\ TickAll
  /\ first_run' = FALSE
  /\ out' = Output
  /\ num_frames' = num_frames - 1
  /\ pc' = "loop"
  /\ UNCHANGED <<acc_, pacc_, registers, acc, pacc, prev_acc, ic,
                 instructions_, heard, leftover>>

EndlessBlockMistake ==
  /\ pc = "frame" /\ ic >= kMaxInstructionCount
  /\ TickAll
  /\ first_run' = FALSE
  /\ out' = Output
  /\ num_frames' = IF num_frames > 1 THEN num_frames - 1 ELSE num_frames
  /\ pc' = "loop"
  /\ UNCHANGED <<acc_, pacc_, registers, acc, pacc, prev_acc, ic,
                 instructions_, heard, leftover>>

EndFrame ==
  /\ pc = "frame" /\ ic >= kMaxInstructionCount
  /\ TickAll
  /\ first_run' = FALSE
  /\ out' = Output
  /\ num_frames' = num_frames - 1
  /\ pc' = "loop"
  /\ UNCHANGED <<acc_, pacc_, registers, acc, pacc, prev_acc, ic,
                 instructions_, heard, leftover>>

ForgottenPaccMistake ==
  /\ pc = "loop" /\ num_frames = 0
  /\ acc_' = acc
  /\ pc' = "idle"
  /\ UNCHANGED <<pacc_, registers, first_run, delay, lfos, locals,
                 instructions_, out, heard, leftover>>

\* Execute returns: the locals are written back.
EndBlock ==
  /\ pc = "loop" /\ num_frames = 0
  /\ acc_' = acc
  /\ pacc_' = pacc
  /\ pc' = "idle"
  /\ UNCHANGED <<registers, first_run, delay, lfos, locals, instructions_,
                 out, heard, leftover>>

Execute ==
  \/ \E in \in Frames : BeginFrame(in)
  \/ ExecuteInstruction
  \/ EndFrame
  \/ EndBlock

Next ==
  \/ \E program \in Programs : Compile(program)
  \/ \E pots \in Pots : SetParameters(pots)
  \/ \E n \in 0 .. kMaxBlock : BeginBlock(n)
  \/ Execute

\* Once called, Execute runs to its end: it waits for nothing.
Spec == Init /\ [][Next]_vars /\ WF_vars(Execute)

-----------------------------------------------------------------------------
(***************************************************************************)
(* The virtual machine implements the chip.                                *)
(***************************************************************************)
FV1 == INSTANCE Chip WITH
         acc     <- IF pc = "idle" THEN acc_ ELSE acc,
         pacc    <- IF pc = "idle" THEN pacc_ ELSE pacc,
         running <- pc = "frame"

\* How the host cuts the samples into blocks, the empty block included, and
\* where it calls SetParameters between them, changes no accumulator, no
\* register, no delay sample and no output: acc_, pacc_, their copies in
\* Execute and prev_acc always amount to the chip's two accumulators.
ImplementsChip == FV1!Spec

\* A chip that has just been switched on.
SwitchedOn == INSTANCE FreshChip WITH
                acc        <- IF pc = "idle" THEN acc_ ELSE acc,
                pacc       <- IF pc = "idle" THEN pacc_ ELSE pacc,
                running    <- pc = "frame",
                last_read_ <- IF leftover = "hidden" THEN 0 ELSE last_read_

\* Compile leaves last_read_ to the next program, and nothing else.  Whatever
\* ran before, and however long, from a Compile on every step is one of a chip
\* that had been switched on there; unless the program feeds last_read_ back
\* (WRAP) before it has read anything.
ForgetsEarlierPrograms ==
  /\ SwitchedOn!Init
  /\ [][SwitchedOn!FreshNext \/ leftover' = "audible"]_(SwitchedOn!chip)

\* Sine and cosine are never both 0, from where no rate would move them: the
\* rounded and wrapped sums of a tick lose nothing, at any rate and however
\* often the program changes it.
SinesSwing == \A n \in 0 .. 1 : sine[n] # 0 \/ cosine[n] # 0

\* Wherever in a frame a program has stored a range, and whatever it stored,
\* the phase fits the register again before the next frame: neither the end of
\* a block nor SetParameters nor a Compile carries an overhang into a frame.
FramesBeginSettled == pc # "frame" => \A n \in 0 .. 1 : Ramp(n)!Settled

\* SKP RUN falls through exactly during the first frame after each Compile,
\* whatever the blocks are and whether the earlier program ever ran.
FirstRunIsFirstFrame ==
  first_run <=> (Len(heard) = 0 \/ (Len(heard) = 1 /\ pc = "frame"))

\* vm.h:65, "control values used for all frames": what SetParameters has set
\* stays for all the frames of a block.
ControlsHold ==
  [][pc # "idle" => \A pot \in {"POT0", "POT1", "POT2"} :
                      registers'[pot] = registers[pot]]_vars

\* The instructions that break it.
StoresToPot(i) ==
  i.opcode \in {"WRAX", "WRHX", "WRLX"} /\ i.addr \in {"POT0", "POT1", "POT2"}

\* What Execute has before it at most: an instruction at a time to the end of
\* the program, then the end of the frame, and the end of the block.
StepsLeft ==
  IF pc = "idle" THEN 0
  ELSE IF pc = "loop" THEN num_frames * (kMaxInstructionCount + 2) + 1
  ELSE (num_frames - 1) * (kMaxInstructionCount + 2) + 2
       + IF ic < kMaxInstructionCount THEN kMaxInstructionCount - ic ELSE 0

\* The time a block takes is bounded by its frames, whatever the program is:
\* no SKP or JMP leads back, none stays where it is, and no frame is counted
\* twice, so that every step leaves less to do than the one before it.
BlockCountsDown ==
  [][pc # "idle" => StepsLeft \in Nat /\ StepsLeft' \in 0 .. StepsLeft - 1]_vars

\* Execute returns from every block, also when a SKP or JMP leads past the
\* end of the program.
BlockReturns == (pc # "idle") ~> (pc = "idle")
=============================================================================
