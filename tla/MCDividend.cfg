SPECIFICATION Spec
CHECK_DEADLOCK FALSE
CONSTANTS
  Overloads  <- MCOverloads
  Members    <- MCMembers
  MaxInt     <- MCMaxInt
  Globals    = {"G"}
  Parameters <- MCParameters
  Foreign    = {"h"}
  AddressOf  <- MCAddressOf
  Trees      <- Divided
  Inputs     <- MCInputs
  Env        <- MCEnv
  Shared     <- MCShared
INVARIANTS
  DividendExtended
