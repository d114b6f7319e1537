SPECIFICATION FairSpec
CONSTANTS
  Syncs = 2
  OnceAttempts = 2
  MaxActions = 1
  MaxFaults = 1
INVARIANT TypeOK
INVARIANT ExitTellsTruth
PROPERTY Ends
CHECK_DEADLOCK FALSE
