CONSTANTS
  Name <- MCName
  Files <- FewFiles
  MaxRetries = 3
  PassFaults = FALSE
  MaxChanges = 2
  MaxFaults = 2
  MaxStops = 0
SPECIFICATION FairSpec
CHECK_DEADLOCK FALSE
PROPERTY QuietTreeConverges
