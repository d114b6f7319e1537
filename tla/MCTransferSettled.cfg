CONSTANTS
  Contents <- TwoContents
  MaxWrites = 1
  MaxFaults = 1
  MaxDrops = 2
  Overlapping = {3}
SPECIFICATION Spec
CHECK_DEADLOCK FALSE
INVARIANT LooksSettled
