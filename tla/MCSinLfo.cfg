SPECIFICATION FreeRunningSpec
CONSTANTS
  kIntRange = 256
  kFracBits = 8
  S15Unit = 4
  RateInput <- AllRates
INVARIANT AmplitudeStays
PROPERTY Reversible
PROPERTY Oscillates
