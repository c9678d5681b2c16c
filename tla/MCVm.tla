-------------------------------- MODULE MCVm --------------------------------
(***************************************************************************)
(* Small instances of Vm: eight-bit samples, 32 samples of delay memory,   *)
(* programs of five instructions.  Between them the programs reach every   *)
(* case of the switch.                                                     *)
(***************************************************************************)
EXTENDS EchoProgram

One == kIntRange
Half == kIntRange \div 2

Op(o) == [opcode |-> o]
OpN(o, n) == [opcode |-> o, n |-> n]
OpA(o, addr) == [opcode |-> o, addr |-> addr]
OpAC(o, addr, c) == [opcode |-> o, addr |-> addr, c |-> c]
OpM(o, mask) == [opcode |-> o, mask |-> mask]
OpS(o, c, d) == [opcode |-> o, c |-> c, d |-> d]
Skp(cmask, n) == [opcode |-> "SKP", cmask |-> cmask, n |-> n]
Wld(o, n, f, a) == [opcode |-> o, n |-> n, f |-> f, a |-> a]
ChoRda(o, n, flags, addr) == [opcode |-> o, n |-> n, flags |-> flags, addr |-> addr]
ChoSof(o, n, flags, d) == [opcode |-> o, n |-> n, flags |-> flags, d |-> d]

Text(seq) == [i \in 0 .. kMaxInstructionCount - 1 |-> seq[i + 1]]

\* Shelving filters, which live on pacc, and a first instruction that reads
\* the accumulator of the previous frame.
Shelf == Text(<<OpAC("RDAX", "ADCL", Half), OpAC("RDFX", "REG0", Half),
                OpAC("WRHX", "REG0", -Half), OpAC("WRLX", "REG0", Half),
                OpAC("WRAX", "DACL", One)>>)

\* The first instruction reads pacc, which only the last one of the previous
\* frame can have left.
Carry == Text(<<OpAC("WRHX", "REG0", Half), OpA("LDAX", "ADCR"),
                Skp({"ZRC"}, 1), OpS("SOF", One, 5), OpAC("WRAX", "DACR", One)>>)

AllPass == Text(<<OpAC("RDA", 3, Half), OpAC("WRAP", 1, -Half),
                  OpS("SOF", -Half, 3), OpA("MULX", "POT0"),
                  OpAC("WRAX", "DACR", Half)>>)

Sweep == Text(<<Skp({"RUN"}, 1), Wld("WLDR", 0, 68, 64),
                ChoRda("CHO_RDA_RMP", 0, {"COMPC"}, 3),
                ChoSof("CHO_SOF_RMP", 0, {"NA"}, 1), OpN("JAM", 1)>>)

Vibrato == Text(<<Skp({"RUN"}, 1), Wld("WLDS", 1, 64, 100),
                  ChoRda("CHO_RDA_SIN", 1, {"COS", "COMPA"}, 3),
                  ChoSof("CHO_SOF_SIN", 1, {}, 1), OpN("JMP", 63)>>)

Logic == Text(<<OpA("LDAX", "POT1"), OpM("AND", 180), OpM("OR", 3),
                OpM("XOR", 129), Op("NOT")>>)

Pointer == Text(<<OpAC("RDAX", "ADCL", One), OpAC("WRAX", "ADDR_PTR", One),
                  [opcode |-> "RMPA", c |-> Half], OpAC("MAXX", "REG0", -One),
                  Op("ABSA")>>)

Branch == Text(<<Skp({"NEG"}, 3), OpN("CHO_RDAL", "SIN0_COS"),
                 Skp({"GEZ", "ZRO"}, 60), OpN("CHO_RDAL", "RMP1_VAL"),
                 Op("LOG")>>)

\* Stores a range under a ramp that runs, and reads it before the next tick.
Shrink == Text(<<OpAC("RDAX", "ADCL", One), OpAC("WRAX", "RMP0_RATE", One),
                 OpAC("WRAX", "RMP0_RANGE", 0),
                 ChoRda("CHO_RDA_RMP", 0, {"COMPA"}, 3),
                 OpAC("WRAX", "DACR", One)>>)

\* Feeds back what a read of the program before it has left.
Feedback == Text(<<OpAC("WRAP", 1, Half), OpAC("WRAX", "DACL", Half),
                   OpAC("RDA", 2, One), OpAC("WRAP", 3, Half), Op("CLR")>>)

AllPrograms ==
  {Echo(2), Shelf, Carry, AllPass, Sweep, Vibrato, Logic, Pointer, Branch, Feedback,
   Shrink}

\* Smooths the first pot, in its own register.
PotFilter == Text(<<OpAC("RDAX", "POT0", Half), OpAC("RDAX", "REG0", Half),
                    OpAC("WRAX", "REG0", One), OpAC("WRAX", "POT0", One),
                    OpAC("WRAX", "DACL", 0)>>)
PotPrograms == {PotFilter}

SomeFrames == {<<100, -128>>, <<-7, 300>>}
SomePots == {<<-5, 90, 0>>}
DirtyBuffer == [i \in 0 .. DelaySize - 1 |-> 5]
=============================================================================
