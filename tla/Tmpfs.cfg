CONSTANTS
  Cpu = {c1}
  Free = Free
  Dir = {root}
  NodesMax = 3
  SizeMax = 4
  BufSiz = 2
  Val = {a, b}
  Junk = Junk
  MaxLen = 2
  MaxEnd = 3
  MaxBack = 3
SPECIFICATION Spec
INVARIANTS CopiesInBounds ReadBack InoUnique SpaceBound
CHECK_DEADLOCK FALSE
