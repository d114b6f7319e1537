SPECIFICATION FairSpec
CONSTANTS
  Contents <- MCContents
  MaxChanges = 1
  MaxFaults = 1
  MaxCrashes = 1
\* One at a time.
PROPERTY ModesAreRepaired
\* PROPERTY LeftoversAreHarmless
CHECK_DEADLOCK FALSE
