CONSTANTS
  kIntRange = 128
  kFracBits = 7
  S15Unit = 4
  GeneralRegister = {"REG0"}
  kMaxInstructionCount = 5
  Programs <- PotPrograms
  Frames <- SomeFrames
  Pots <- SomePots
  InitialBuffer <- DirtyBuffer
  kMaxBlock = 3
  kMaxFrames = 3
SPECIFICATION Spec
PROPERTY ControlsHold
