---------------------------- MODULE MCOptimizer ----------------------------
(***************************************************************************)
(* Optimizer at a width of six bits: every accumulator, and for every      *)
(* instruction the operands that Optimize tests, and some that it does not *)
(* take for them.                                                          *)
(***************************************************************************)
EXTENDS Optimizer

SomeValues == {MIN, -1, 0, 1, MAX}

Names ==
  [k \in 0 .. 63 |->
     IF \E r \in SpecialRegister : RegisterNumber[r] = k
     THEN CHOOSE r \in SpecialRegister : RegisterNumber[r] = k
     ELSE "REG0"]

SomeRegisters == {[r \in Register |-> v] : v \in SomeValues}

SomeCompiled ==
       [opcode : {"RDFX", "MAXX"},
        constants : {Constants(32, c, 0) : c \in {-2 * kIntRange, -1, 0, 1, kIntRange}}]
  \cup [opcode : {"AND", "OR", "XOR"},
        constants : {Constants(mask, 0, 0) : mask \in {0, 1, kIntRange, MASK - 1, MASK}}]
  \cup [opcode : {"SKP"},
        constants : {Constants(cmask, n, 0) : cmask \in {0, 1, 2, 4, 8, 12, 16}, n \in {0, 1, 63}}]
=============================================================================
