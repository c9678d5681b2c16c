---------------------------- MODULE Disassembler ----------------------------
(***************************************************************************)
(* The loop of disassemble() in src/tools/fv1_dump.cc.  It prints a line   *)
(* for each word that differs from the one before, and counts the others.  *)
(*                                                                         *)
(* The count of a run is printed when the next run starts, after the first *)
(* line of that.  The words are compared with 0xffffffff at first, so a    *)
(* program that begins with it gets no line for it.                        *)
(***************************************************************************)
EXTENDS Integers, Sequences

CONSTANTS
  kLength,     \* 128: words of a program
  AllOnes      \* the word 0xffffffff

ASSUME LengthAssumption == kLength \in Nat

VARIABLES
  last,        \* the word of the latest run
  count,       \* its length so far
  head,        \* the position of the stream, in words
  line_ic,     \* ic
  listing      \* what has been printed

disassembler == <<last, count, head, line_ic, listing>>

\* debug::print_decoded_instruction, with the raw word as --verbose has it.
Line(i, instruction) == [ic |-> i, raw |-> instruction]

\* "... x%d"
Repeats(n) == IF n > 1 THEN <<[repeats |-> n]>> ELSE <<>>

DisassemblyInit ==
  /\ last = AllOnes
  /\ count = 0
  /\ head = 0
  /\ line_ic = 0
  /\ listing = <<>>

available == head < kLength

\* Definitions named ...Mistake are not the code: each is a slip that some run
\* must notice when it replaces the definition below it.
UncountedMistake(program) ==
  /\ available /\ program[head] = last
  /\ count' = count + 1
  /\ head' = head + 1
  /\ UNCHANGED <<last, line_ic, listing>>

RepeatedInstruction(program) ==
  /\ available /\ program[head] = last
  /\ count' = count + 1
  /\ head' = head + 1
  /\ line_ic' = line_ic + 1
  /\ UNCHANGED <<last, listing>>

KeptCountMistake(program) ==
  /\ available /\ program[head] # last
  /\ listing' = Append(listing, Line(line_ic, program[head])) \o Repeats(count)
  /\ last' = program[head]
  /\ head' = head + 1
  /\ line_ic' = line_ic + 1
  /\ UNCHANGED count

NewInstruction(program) ==
  /\ available /\ program[head] # last
  /\ listing' = Append(listing, Line(line_ic, program[head])) \o Repeats(count)
  /\ last' = program[head]
  /\ count' = 1
  /\ head' = head + 1
  /\ line_ic' = line_ic + 1

EndListing ==
  /\ ~available
  /\ listing' = listing \o Repeats(count)
  /\ UNCHANGED <<last, count, head, line_ic>>

-----------------------------------------------------------------------------
(***************************************************************************)
(* What a reader makes of a listing.                                       *)
(***************************************************************************)
Lines == {k \in DOMAIN listing : "ic" \in DOMAIN listing[k]}
Counts == DOMAIN listing \ Lines

\* The word at i is the one of the last line up to i; ahead of the first line
\* it is 0xffffffff.
LinesUpTo(i) == {k \in Lines : listing[k].ic <= i}
LineOf(i) == {k \in LinesUpTo(i) : \A m \in LinesUpTo(i) : m <= k}
Shown(i) ==
  IF LineOf(i) = {} THEN {AllOnes} ELSE {listing[k].raw : k \in LineOf(i)}

\* The words first .. past - 1 are alike, and unlike their neighbours.
IsRun(program, first, past) ==
  /\ \A i \in first .. past - 1 : program[i] = program[first]
  /\ first > 0 => program[first - 1] # program[first]
  /\ past < kLength => program[past] # program[first]

\* A count stands behind the first line of the next run; the last one may
\* stand at the end of the program.
EndsOfRun(k) ==
  (IF k > 1 /\ k - 1 \in Lines THEN {listing[k - 1].ic} ELSE {})
    \cup (IF k = Len(listing) /\ ~available THEN {kLength} ELSE {})
CountsARun(k, program) ==
  \E past \in EndsOfRun(k) :
    /\ past - listing[k].repeats \in Nat
    /\ IsRun(program, past - listing[k].repeats, past)
=============================================================================
