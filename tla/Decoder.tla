------------------------------- MODULE Decoder -------------------------------
(***************************************************************************)
(* src/src/fv1/fv1_asm_decode.h and .cc, and the BufferStream that feeds   *)
(* them: from the bytes of a program to decoded instructions.              *)
(*                                                                         *)
(* A word is the set of the positions, 0 .. 31, of its bits that are 1.  A *)
(* byte of the stream is such a set of positions 0 .. 7.                   *)
(***************************************************************************)
EXTENDS Integers, Sequences, FiniteSets

\* The number that the `width' bits of a word from `shift' up stand for, taken
\* from the highest bit down.
BitField(word, shift, width) ==
  LET value[n \in 0 .. width] ==
        IF n = 0 THEN 0
        ELSE 2 * value[n - 1] + (IF shift + width - n \in word THEN 1 ELSE 0)
  IN  value[width]

-----------------------------------------------------------------------------
(***************************************************************************)
(* ProgramStream::Next: a little-endian load, and a swap of the bytes      *)
(* since programs are stored with the most significant byte first.         *)
(***************************************************************************)
ReadNext(bytes, head) ==
  UNION {{8 * b + i : i \in bytes[head + b]} : b \in 0 .. 3}

BSwap32(word) == {8 * (3 - (i \div 8)) + (i % 8) : i \in word}

NextWord(bytes, head) == BSwap32(ReadNext(bytes, head))

-----------------------------------------------------------------------------
(***************************************************************************)
(* The instruction table.  A layout says where the fixed bits are (the     *)
(* primary key, and the values the secondary key may take) and where each  *)
(* operand is, in the order of the decoded operands.                       *)
(***************************************************************************)
Operand(type, shift, width) == [type |-> type, shift |-> shift, width |-> width]

Layout(opcode, primary, secondary, operands) ==
  [opcode |-> opcode, primary |-> primary, secondary |-> secondary,
   operands |-> operands]

AnyKey == 0 .. 3

AddrC == <<Operand("ADDR", 5, 16), Operand("S1F9", 21, 11)>>
RegsC == <<Operand("REGS", 5, 6), Operand("S1F14", 16, 16)>>
CD == <<Operand("S1F14", 16, 16), Operand("SF10", 5, 11)>>
Mask24 == <<Operand("MASK", 8, 24)>>
ChoNC == <<Operand("INT", 21, 2), Operand("INT", 24, 6)>>

Layouts == <<
  Layout("RDA",       0, AnyKey, AddrC),
  Layout("RMPA",      1, AnyKey, <<Operand("S1F9", 21, 11)>>),
  Layout("WRA",       2, AnyKey, AddrC),
  Layout("WRAP",      3, AnyKey, AddrC),
  Layout("RDAX",      4, AnyKey, RegsC),
  Layout("RDFX",      5, AnyKey, RegsC),
  Layout("WRAX",      6, AnyKey, RegsC),
  Layout("WRHX",      7, AnyKey, RegsC),
  Layout("WRLX",      8, AnyKey, RegsC),
  Layout("MAXX",      9, AnyKey, RegsC),
  Layout("MULX",     10, {0},    <<Operand("REGS", 5, 6)>>),
  Layout("LOG",      11, AnyKey, CD),
  Layout("EXP",      12, AnyKey, CD),
  Layout("SOF",      13, AnyKey, CD),
  Layout("AND",      14, AnyKey, Mask24),
  Layout("OR",       15, AnyKey, Mask24),
  Layout("XOR",      16, AnyKey, Mask24),
  Layout("SKP",      17, AnyKey, <<Operand("MASK", 27, 5), Operand("INT", 21, 6)>>),
  Layout("WLDS",     18, {0},    <<Operand("INT", 29, 1), Operand("INT", 20, 9),
                                   Operand("INT", 5, 15)>>),
  Layout("WLDR",     18, {1},    <<Operand("INT", 29, 1), Operand("I16", 13, 16),
                                   Operand("INT", 5, 2)>>),
  Layout("JAM",      19, {0},    <<Operand("INT", 6, 1)>>),
  Layout("CHO_RDA",  20, {0},    Append(ChoNC, Operand("ADDR", 5, 16))),
  Layout("CHO_SOF",  20, {2},    Append(ChoNC, Operand("I16", 5, 16))),
  Layout("CHO_RDAL", 20, {3},    ChoNC)
>>

\* OpcodeMatcher::match.
Match(layout, word) ==
  /\ BitField(word, 0, 5) = layout.primary
  /\ BitField(word, 30, 2) \in layout.secondary

kOpcodeMax == 31
kNumSecondaryOpcodes == 3

\* RegisterInstruction: a layout goes to the slot of its primary key, or, if it
\* needs a secondary key other than 0, to the next one from kOpcodeMax on.
NeedsKey(layout) == layout.secondary \notin {AnyKey, {0}}

SlotOf(i) ==
  IF NeedsKey(Layouts[i])
  THEN kOpcodeMax + Cardinality({j \in 1 .. i - 1 : NeedsKey(Layouts[j])})
  ELSE Layouts[i].primary

InstructionTable ==
  [slot \in 0 .. kOpcodeMax + kNumSecondaryOpcodes - 1 |->
     {Layouts[i] : i \in {j \in DOMAIN Layouts : SlotOf(j) = slot}}]

\* InstructionDecoder::Decode finds at most one layout: that of the slot which
\* the low five bits name, and failing that any later one that matches.  31
\* names the first of the later ones, which no word with those bits matches.
Lookups(word) ==
  LET entry == InstructionTable[BitField(word, 0, 5)]
      later == UNION {InstructionTable[slot] : slot \in kOpcodeMax .. kOpcodeMax + kNumSecondaryOpcodes - 1}
  IN  IF \A layout \in entry : layout.secondary = AnyKey \/ Match(layout, word)
      THEN entry
      ELSE {layout \in later : Match(layout, word)}

-----------------------------------------------------------------------------
(***************************************************************************)
(* Operands.  A fixed-point field is sign extended from its own width and  *)
(* shifted until it is an SF23; every other field is the number it holds.  *)
(***************************************************************************)
Frac == [S1F9 |-> 9, S1F14 |-> 14, SF10 |-> 10, I16 |-> 15]

\* Definitions named ...Mistake are not the code: each is a slip that some run
\* must notice when it replaces the definition below it.
SXFieldMistake(v, width) == IF v > 2 ^ (width - 1) THEN v - 2 ^ width ELSE v

SXField(v, width) == IF v >= 2 ^ (width - 1) THEN v - 2 ^ width ELSE v

DecodeOperand(operand, word) ==
  LET raw == BitField(word, operand.shift, operand.width)
  IN  IF operand.type \in DOMAIN Frac
      THEN SXField(raw, operand.width) * 2 ^ (23 - Frac[operand.type])
      ELSE raw

\* InstructionImpl::Decode.
DecodeAs(layout, word) ==
  [opcode |-> layout.opcode,
   operands |-> [k \in DOMAIN layout.operands |-> DecodeOperand(layout.operands[k], word)]]

\* InstructionDecoder::Decode.
Decode(word) ==
  IF Lookups(word) = {}
  THEN [opcode |-> "UNKNOWN", operands |-> <<>>]
  ELSE DecodeAs(CHOOSE layout \in Lookups(word) : TRUE, word)
=============================================================================
