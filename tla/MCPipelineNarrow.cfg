CONSTANTS
  Name <- MCName
  Root <- MCRoot
  Watched <- MCWatched
  Reports <- MCReports
  Capacity = 1
  Events <- MCEvents
  Rescans <- AnyDirectory
  NoCookie = NoCookie
  MaxPending = 2
  Delay = 1
CHECK_DEADLOCK FALSE
SPECIFICATION Spec
INVARIANT NothingForgotten
