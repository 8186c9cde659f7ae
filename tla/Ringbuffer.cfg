CONSTANTS
  Cpu = {c1, c2}
  Byte = {0, 1}
  Size = 2
  Lengths = {1, 3}
  Free = Free
SPECIFICATION FairSpec
INVARIANT FullMeansWrapped
PROPERTIES AtomicCalls LockReleased
