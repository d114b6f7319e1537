CONSTANTS
  Name <- MCName
  Root <- MCRoot
  Watched <- MCWatched
  Reports <- MCReports
  Capacity = 2
SPECIFICATION WatcherFairSpec
INVARIANT WatcherTypeOK
INVARIANT NothingLost
INVARIANT LossFlagged
PROPERTY EverythingHeard
