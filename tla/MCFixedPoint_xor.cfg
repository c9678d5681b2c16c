SPECIFICATION Spec
CONSTANTS
  kIntRange = 64
  kFracBits = 6
INVARIANT XorAllBitsIsNot
