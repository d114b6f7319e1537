SPECIFICATION FairSpec
CONSTANTS
  Syncs = 1
  OnceAttempts = 1
  MaxActions = 1
  MaxFaults = 1
\* One at a time.
PROPERTY OneShotEnds
\* PROPERTY StoppingEnds
CHECK_DEADLOCK FALSE
