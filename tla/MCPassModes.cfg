CONSTANTS
  Name <- MCName
  Patterns <- NamedN
  Temporary <- NamedT
  Deletes <- DeleteOn
  Preserve = TRUE
  Trees <- MCTrees
  Scopes <- MCScopes
  DefaultMode = 0
  MaxFaults = 0
  MaxChanges = 0
SPECIFICATION Spec
CHECK_DEADLOCK FALSE
INVARIANT ModesAccounted
