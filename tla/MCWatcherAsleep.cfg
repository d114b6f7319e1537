CONSTANTS
  Name <- MCName
  Root <- MCRoot
  Watched <- MCWatched
  Reports <- MCReports
  Capacity = 2
SPECIFICATION WatcherFairSpec
PROPERTY EverythingIsHeard
