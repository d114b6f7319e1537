SPECIFICATION FairSpec
CONSTANTS
  Clients = {"daemon", "command"}
  Stubborn = {"daemon"}
  Version <- MCVersion
  Header <- MCHeader
  Hosts <- MCHosts
  Size = 2
  Shells = 3
  MaxFaults = 1
INVARIANT NothingHalfInstalled
CHECK_DEADLOCK FALSE
