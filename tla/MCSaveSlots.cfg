SPECIFICATION Spec
CONSTANTS
  general = general
  float = float
  byte = byte
  half = half
  word = word
  pair = pair
  flag = flag
  count = count
  ptr = ptr
  st = st
  save = save
  NoReg = NoReg
  MaxParams = 0
  Class <- MCClass
  Conventions <- UnixOnly
  Signatures <- MCSignatures
  Name <- Saves
  StructVars <- NoNames
  DataType <- MCDataType
  TypesOf <- SaveTypes
  Size <- MCSize
  Alignment <- MCAlignment
INVARIANTS
  AccessesFit
CHECK_DEADLOCK FALSE
