SPECIFICATION Spec
CONSTANTS
  kIntRange = 256
  kFracBits = 8
  S15Unit = 2
  RateInput <- MCRateInput
  RangeInput <- MCFreeRange
INVARIANT CoefficientBelowOne
