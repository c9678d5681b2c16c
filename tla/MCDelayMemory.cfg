SPECIFICATION Spec
CONSTANTS
  kDelayMemorySize = 4
  Value <- MCValue
  Index <- MCIndex
INVARIANT TypeOK
PROPERTY ImplementsDelayLine
