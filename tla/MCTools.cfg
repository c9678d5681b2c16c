SPECIFICATION ToolSpec
CONSTANTS
  kIntRange = 128
  kFracBits = 7
  S15Unit = 4
  GeneralRegister = {"REG0"}
  kMaxInstructionCount = 5
  Programs <- FilePrograms
  Frames <- Silent
  Pots <- SomePots
  InitialBuffer <- ZeroBuffer
  kMaxBlock = 5
  kMaxFrames = 5
  Compiled <- Translation
  Options <- AllOptions
  kSizeRange = 60
  kMaxLost = 2
  Word <- Words
  ZeroWord = 0
  AllOnes = 1
  kWordSize = 2
  kProgramWords = 5
  kLength = 5
  kPrograms = 2
  kInfoSize = 13
  Calls <- AllCalls
INVARIANTS
  ToolTypeOK
  SelectedProgramIsWhole
  FileIsWhatPlayed
  HeaderTellsSize
  ListingTellsProgram
  CountsTellRuns
PROPERTIES
  RendersLikeChip
  ToolCountsDown
  ToolEnds
CHECK_DEADLOCK FALSE
