SPECIFICATION Spec
CONSTANTS
  kIntRange = 128
  kFracBits = 7
INVARIANTS
  TypeOK
  NoWrapBeforeClamp
  LogicIsBitwise
  XorIsBitwise
