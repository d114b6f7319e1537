CONSTANTS
  Name <- MCName
  Patterns <- AnchoredBN
  Temporary <- NamedT
  Deletes <- DeleteOn
  Preserve = TRUE
  Trees <- DeepTrees
  Scopes <- BelowTheRoot
  DefaultMode = 0
  MaxFaults = 0
  MaxChanges = 0
SPECIFICATION Spec
CHECK_DEADLOCK FALSE
INVARIANT EverythingAccounted
