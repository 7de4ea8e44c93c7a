SPECIFICATION Spec
CONSTANTS
  general = general
  float = float
  byte = byte
  half = half
  word = word
  pair = pair
  flag = flag
  count = count
  ptr = ptr
  st = st
  save = save
  NoReg = NoReg
  MaxParams = 5
  Class <- MCClass
  Conventions <- Both
  Signatures <- MCSignatures
  Name <- Names
  StructVars <- StructSet
  DataType <- MCDataType
  TypesOf <- NameTypes
  Size <- MCSize
  Alignment <- MCAlignment
INVARIANTS
  CallerCalleeAgree
  FollowsConvention
  ArgsFit
  SlotsApart
PROPERTIES
  SlotsAligned
CHECK_DEADLOCK FALSE
