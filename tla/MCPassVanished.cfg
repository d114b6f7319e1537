CONSTANTS
  Name <- MCName
  Patterns <- NamedN
  Temporary <- NamedT
  Deletes <- DeleteOn
  Preserve = TRUE
  Trees <- MCTrees
  Scopes <- WholeScope
  DefaultMode = 0
  MaxFaults = 0
  MaxChanges = 1
SPECIFICATION Spec
CHECK_DEADLOCK FALSE
INVARIANT RemovedWasAlwaysMissing
