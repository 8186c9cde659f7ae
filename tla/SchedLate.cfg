CONSTANTS
  N = 2
  LateCores = TRUE
  SplitFlags = FALSE
SPECIFICATION Spec
CHECK_DEADLOCK FALSE
INVARIANT SwitchesToComplete
