SPECIFICATION FairSpec
CONSTANTS
  Clients = {"daemon", "command"}
  Stubborn = {"daemon"}
  Version <- MCVersion
  Header <- MCHeader
  Hosts <- MCHosts
  Size = 2
  Shells = 3
  MaxFaults = 2
INVARIANT TypeOK
INVARIANT RunsWhole
PROPERTY Heals
CHECK_DEADLOCK FALSE
