CONSTANTS
  kIntRange = 8388608
  kFracBits = 23
  S15Unit = 256
  GeneralRegister <- Registers
  RegisterName <- Names
  kMaxInstructionCount = 2
  Binaries <- AllBinaries
  TextOf <- Written
  kMaxCompiles = 2
SPECIFICATION Spec
INVARIANTS
  AmplitudeIsLoaded
