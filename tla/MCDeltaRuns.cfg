SPECIFICATION Spec
CONSTANTS
  Byte = {0, 1}
  Target <- MCTarget
  Kept <- MCKept
  BlockSize = 3
  ReadAhead = 2
  LiteralFlush = 2
  WeakBase = 2
  MaxLength = 9




CHECK_DEADLOCK FALSE
INVARIANT UnchangedIsOneCopy
