SPECIFICATION FairSpec
CONSTANTS
  kIntRange = 256
  kFracBits = 8
  S15Unit = 2
  RateInput <- MCRateInput
  RangeInput <- MCRangeInput
INVARIANTS
  TypeOK
  ReadsKeepToRange
PROPERTIES
  FadeIsContinuous
  JumpsAreSilent
  SweepsForever
