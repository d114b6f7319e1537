CONSTANTS
  Name <- MCName
  Patterns <- NamedN
  Temporary <- NamedT
  Deletes <- DeleteOn
  Preserve = TRUE
  Trees <- ExcludedTrees
  Scopes <- NamingExcluded
  DefaultMode = 0
  MaxFaults = 0
  MaxChanges = 0
SPECIFICATION Spec
CHECK_DEADLOCK FALSE
PROPERTY ExcludedNeverTouched
