SPECIFICATION FairSpec
CONSTANTS
  Syncs = 2
  OnceAttempts = 1
  MaxActions = 1
  MaxFaults = 1
INVARIANT StoppingIsAnError
CHECK_DEADLOCK FALSE
