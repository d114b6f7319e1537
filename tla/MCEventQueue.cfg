CONSTANTS
  Name <- MCName
  Root <- MCRoot
  Events <- MCEvents
  Rescans <- AnyDirectory
  NoCookie = NoCookie
  MaxPending = 2
  Delay = 2
CHECK_DEADLOCK FALSE
SPECIFICATION QueueFairSpec
INVARIANT QueueTypeOK
INVARIANT RenamesAreSuspect
INVARIANT BatchSized
PROPERTY ForgottenOnlyByRescan
PROPERTY WindowEnds
