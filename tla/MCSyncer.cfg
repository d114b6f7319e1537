CONSTANTS
  Name <- MCName
  Files <- MCFiles
  MaxRetries = 1
  PassFaults = TRUE
  MaxChanges = 2
  MaxFaults = 2
  MaxStops = 2
SPECIFICATION FairSpec
CHECK_DEADLOCK FALSE
INVARIANT TypeOK
INVARIANT NothingElseAbandoned
PROPERTY NoisyTreeConverges
