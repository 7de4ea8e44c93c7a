SPECIFICATION Spec
CONSTANTS
  x = x
  y = y
  l1 = l1
  l2 = l2
  ret = ret
  NoLabel = NoLabel
  Name <- MCName
  Label <- MCLabel
  Routines <- MCRoutines
INVARIANTS
  LiveSetsExact
  FlowStaysCovered
  IntervalsApart
PROPERTIES
  Terminates
CHECK_DEADLOCK FALSE
