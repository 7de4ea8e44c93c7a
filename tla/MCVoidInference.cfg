SPECIFICATION Spec
CONSTANTS
  x = x
  f = f
  Names <- OneName
  Functions <- MCFunctions
  Declared <- OnlyInferred
  None = None
  MaxScopes = 4
  MaxReturns = 2
  MaxPending = 1
  MaxModules = 1
  MaxRounds = 1
  MaxErrors = 2
INVARIANTS
  VoidOnlyWithoutReturns
CHECK_DEADLOCK FALSE
