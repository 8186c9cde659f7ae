CONSTANTS
  P = 2
  Program <- MCProgram
  Stack = 2
  MaxBrk = 18
  HeapBase = 30
  Prealloc = 4
  MaxHeap = 12
  MaxMore = 2
  Frames = 16
SPECIFICATION AspaceSpec
\* A panic stops the kernel.
CHECK_DEADLOCK FALSE
INVARIANTS BrkMapped SegmentsMapped PagesAccounted HeapMapped AlignedNeverRemaps
