CONSTANTS
  kIntRange = 32
  kFracBits = 5
  S15Unit = 1
  GeneralRegister = {"REG0"}
  kMaxInstructionCount = 1
  RegisterName <- Names
  Compiled <- SomeCompiled
  PreviousValues <- SomeValues
  RegisterStates <- SomeRegisters
SPECIFICATION Spec
PROPERTIES
  OptimizePreserves
