SPECIFICATION Spec
CHECK_DEADLOCK FALSE
CONSTANTS
  Overloads  <- MCOverloads
  Members    <- MCMembers
  MaxInt     <- MCMaxInt
  Globals    = {"G"}
  Parameters <- MCParameters
  Foreign    = {"h"}
  AddressOf  <- MCAddressOf
  Trees      <- MCTrees
  Inputs     <- MCInputs
  Env        <- MCEnv
  Shared     <- MCShared
INVARIANTS
  OperandsKeepValues
  AcceptedIsSelected
  Encodable
  CodeDoesWhatTreeSays
