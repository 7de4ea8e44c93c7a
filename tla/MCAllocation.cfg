SPECIFICATION MSpec
CONSTANTS
  Shape = "all"
  Size = 3
  ret = ret
  l1 = l1
  l2 = l2
  x = x
  y = y
  z = z
  w = w
  arg1 = arg1
  ret1 = ret1
  arg2 = arg2
  ret2 = ret2
  arg3 = arg3
  ret3 = ret3
  t1 = t1
  t2 = t2
  t3 = t3
  general = general
  rax = rax
  rbx = rbx
  rdi = rdi
  None = None
  NoLabel = NoLabel
  NoReg = None
  Slot = Slot
  Junk = Junk
  Label <- MCLabel
  Name <- CallNames
  Class <- OneClass
  CallerSaved <- CallCaller
  CalleeSaved <- OneCallee
  ClassOf <- CallGeneral
  FixedReg <- CallFixed
  ArgReg <- CallArgs
  Routines <- MCRoutineSet
INVARIANTS
  NoAssertionFails
  ActiveDistinct
  HandledOnce
  ReadsSeeLastWrite
PROPERTIES
  UsesPool
  Terminates
CHECK_DEADLOCK FALSE
