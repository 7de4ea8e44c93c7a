SPECIFICATION Spec
CONSTANTS
  x = x
  f = f
  Names <- OneName
  Functions <- MCFunctions
  Declared <- AllDeclared
  None = None
  MaxScopes = 5
  MaxReturns = 2
  MaxPending = 1
  MaxModules = 2
  MaxRounds = 2
  MaxErrors = 1
INVARIANTS
  LookupIsLexical
  ReturnTypeShared
  InferLocKnown
  ReturnsFit
  PendingStaysBound
PROPERTIES
  CheckEnds
CHECK_DEADLOCK FALSE
