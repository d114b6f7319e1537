SPECIFICATION FairSpec
CONSTANTS
  Contents <- MCContents
  MaxChanges = 2
  MaxFaults = 1
  MaxCrashes = 1
INVARIANT TypeOK
INVARIANT Acknowledged
INVARIANT LeftAsFound
PROPERTY ReplacesAtomically
PROPERTY Settles
CHECK_DEADLOCK FALSE
