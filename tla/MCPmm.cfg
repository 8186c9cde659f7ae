CONSTANTS
  Cpu = {c1, c2}
  Free = Free
  PageSize = 4
  MemSize = 28
  WordBits = 2
  Regions <- MCRegions
  KernelEnd = 3
  UsedMod = 8
SPECIFICATION FairSpec
INVARIANTS NoDoubleAlloc NoLeak
PROPERTIES CallsReturn
CHECK_DEADLOCK FALSE
