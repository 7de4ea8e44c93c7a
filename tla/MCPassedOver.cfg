SPECIFICATION MSpec
CONSTANTS
  Shape = "pressure"
  Size = 4
  ret = ret
  l1 = l1
  l2 = l2
  x = x
  y = y
  z = z
  w = w
  arg1 = arg1
  ret1 = ret1
  arg2 = arg2
  ret2 = ret2
  arg3 = arg3
  ret3 = ret3
  t1 = t1
  t2 = t2
  t3 = t3
  general = general
  rax = rax
  rbx = rbx
  rdi = rdi
  None = None
  NoLabel = NoLabel
  NoReg = None
  Slot = Slot
  Junk = Junk
  Label <- MCLabel
  Name <- Variables
  Class <- OneClass
  CallerSaved <- OneCaller
  CalleeSaved <- OneCallee
  ClassOf <- AllGeneral
  FixedReg <- NoFixed
  ArgReg <- NoFixed
  Routines <- MCRoutineSet
INVARIANTS
  AllScanned
CHECK_DEADLOCK FALSE
