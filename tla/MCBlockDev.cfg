CONSTANTS
  BlkSize = 3
  BlkCount = 5
  Offs = {0, 1}
  BlkMax = 2
  Writes <- MCWrites
  MaxOffset = 12
  MaxSize = 11
  New = 100
SPECIFICATION Spec
INVARIANTS CacheCoherent ReadExact WriteExact
\* An assertion of a driver stops the kernel.
CHECK_DEADLOCK FALSE
