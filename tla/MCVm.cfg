CONSTANTS
  kIntRange = 128
  kFracBits = 7
  S15Unit = 4
  GeneralRegister = {"REG0"}
  kMaxInstructionCount = 5
  Programs <- AllPrograms
  Frames <- SomeFrames
  Pots <- SomePots
  InitialBuffer <- DirtyBuffer
  kMaxBlock = 3
  kMaxFrames = 3
SPECIFICATION Spec
INVARIANTS
  TypeOK
  FirstRunIsFirstFrame
  EchoIsOnTime
  SinesSwing
  FramesBeginSettled
PROPERTIES
  ImplementsChip
  ForgetsEarlierPrograms
  BlockCountsDown
  BlockReturns
