CONSTANTS
  N = 2
  LateCores = FALSE
  SplitFlags = FALSE
SPECIFICATION FairSpec
CHECK_DEADLOCK FALSE
PROPERTY TicksGoOn
