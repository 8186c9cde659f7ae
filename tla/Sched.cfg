CONSTANTS
  N = 2
  LateCores = FALSE
  SplitFlags = TRUE
SPECIFICATION FairSpec
\* A CPU that missed an acknowledgement, or a kernel that panicked, stops.
CHECK_DEADLOCK FALSE
INVARIANTS AssertionsHold OneCpuPerTask WalkHasTarget NoSelfDeadlock
PROPERTIES BootEnds InterruptsReturn
