SPECIFICATION MCSpec
CONSTANTS
  Requests <- SomeRequests
  Addresses <- SomeAddresses
  HeaderSize = 1
  BlockSize = 8
  Page = 4
  MaxPushes = 5
  Names <- FourNames
  Values <- TwoValues
  None = None
  Hash <- Hashes
  FirstSize = 2
  GrowSize = 2
  general = general
  float = float
  rax = rax
  rcx = rcx
  rbx = rbx
  xmm0 = xmm0
  xmm1 = xmm1
  Class <- MCClass
  CallerSaved <- MCCallerSaved
  CalleeSaved <- MCCalleeSaved
INVARIANTS
  PoolConserved
  BlocksApart
  LiveBelowTop
  AllocationsApart
  NeverNull
PROPERTY
  IsMap
CHECK_DEADLOCK FALSE
