------------------------------- MODULE MCTools -------------------------------
(***************************************************************************)
(* Small calls of the tools: programs of five words, banks of two, words   *)
(* of two bytes.                                                           *)
(***************************************************************************)
EXTENDS Tools

\* The words, and what they are compiled to.  All bits 0 are RDA of nothing.
Table == <<
  [opcode |-> "RDA", addr |-> 0, c |-> 0],
  [opcode |-> "UNKNOWN"],
  [opcode |-> "SKP", cmask |-> {"RUN"}, n |-> 1],
  [opcode |-> "WLDS", n |-> 0, f |-> 100, a |-> 120],
  [opcode |-> "CHO_RDAL", n |-> "SIN0_COS"],
  [opcode |-> "MULX", addr |-> "POT1"],
  [opcode |-> "WRAX", addr |-> "DACL", c |-> kIntRange],
  [opcode |-> "WRHX", addr |-> "REG0", c |-> kIntRange \div 2],
  [opcode |-> "SOF", c |-> kIntRange \div 2, d |-> -37],
  [opcode |-> "RDAX", addr |-> "POT0", c |-> kIntRange],
  [opcode |-> "WRAX", addr |-> "DACR", c |-> -kIntRange]>>
Words == 0 .. Len(Table) - 1
Translation == [w \in Words |-> Table[w + 1]]
\* A sine that the second pot scales, and a filter fed by the first, which
\* needs the accumulators of the frame before.
Tone == <<2, 3, 4, 5, 6>>
Filter == <<7, 9, 6, 8, 10>>
FilePrograms ==
  {[i \in 0 .. kMaxInstructionCount - 1 |-> Translation[p[i + 1]]] :
     p \in {Tone, Filter}}

File(piped, size, words) ==
  [piped |-> piped, size |-> size,
   words |-> [i \in Slot |-> IF i < Len(words) THEN words[i + 1] ELSE ZeroWord]]

\* A bank, and one with the words of a BankInfo behind it.
Bank == Tone \o Filter
Dervish == Bank \o <<1, 2, 1, 2, 1, 2>>

Sizes ==
  {0, kProgramSize - 1, kProgramSize, kProgramSize + 1, kBankSize - 1, kBankSize,
   kBankSize + 1, kDervishBankSize - 1, kDervishBankSize, kDervishBankSize + 1}

AnyInput == {File(piped, size, Dervish) : piped \in BOOLEAN, size \in Sizes}
GoodInput == {File(FALSE, kBankSize, Bank)}

Command ==
  [tool |-> "wav", program |-> 0, sample_count |-> 1, blocksize |-> 2,
   bits_per_sample |-> 24, pots |-> <<90, 2 * kIntRange, -3>>, ofile |-> TRUE,
   nodump |-> FALSE]

Playing ==
  {[Command EXCEPT !.program = p, !.sample_count = s, !.blocksize = z,
                   !.bits_per_sample = b] :
     p \in 0 .. 1, s \in {1, 4, 5}, z \in 1 .. 4, b \in {16, 24}}

Selecting ==
  {[Command EXCEPT !.tool = t, !.program = p, !.nodump = n] :
     t \in {"wav", "dump"}, p \in -1 .. 2, n \in BOOLEAN}

Refused ==
  {[Command EXCEPT !.sample_count = 0], [Command EXCEPT !.blocksize = 0],
   [Command EXCEPT !.bits_per_sample = 8], [Command EXCEPT !.ofile = FALSE]}

Dump == [Command EXCEPT !.tool = "dump"]
Listed == {File(FALSE, kProgramSize, <<a, b, c, d, e>>) :
             a \in 0 .. 2, b \in 0 .. 2, c \in 0 .. 2, d \in 0 .. 2, e \in 0 .. 2}

AllOptions == Playing \cup Selecting \cup Refused \cup {Dump}
AllCalls == (Playing \X GoodInput) \cup (Selecting \X AnyInput)
              \cup (Refused \X GoodInput) \cup ({Dump} \X Listed)

ZeroBuffer == [i \in 0 .. DelaySize - 1 |-> 0]
Silent == {<<0, 0>>}
SomePots == {<<90, kIntRange - 1, 0>>}
=============================================================================
