CONSTANTS
  Contents <- TwoContents
  MaxWrites = 1
  MaxFaults = 1
  MaxDrops = 2
  Overlapping = {3}
SPECIFICATION FairSpec
CHECK_DEADLOCK FALSE
INVARIANT TypeOK
INVARIANT Acknowledged
INVARIANT HashVouches
INVARIANT TurnsKept
INVARIANT NothingLeftBehind
PROPERTY ReplacesAtomically
PROPERTY ActionsEnd
