CONSTANTS
  Name <- MCName
  Patterns <- NamedNorM
  Temporary <- NamedT
  Deletes <- Either
  Preserve = TRUE
  Trees <- AllTrees
  Scopes <- MCScopes
  DefaultMode = 0
  MaxFaults = 1
  MaxChanges = 1
SPECIFICATION Spec
CHECK_DEADLOCK FALSE
INVARIANT TypeOK
INVARIANT Accounted
INVARIANT OrderSucceeds
INVARIANT RemovedWasMissing
PROPERTY NothingRemoved
PROPERTY ExcludedUntouched
