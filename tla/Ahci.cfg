CONSTANTS
  Cpu = {c1}
  Boot = c1
  Port = {0, 1}
  Atapi = {1}
  NSlots = 2
  Lba = {l1, l2}
  Data = {v1, v2}
  Zero = Zero
  Info = Info
  Stride = 1
  Sector = 2
  MaxPosts = 2
SPECIFICATION FairSpec
INVARIANTS ReadExact WriteDurable CompletionsMatch
PROPERTIES CallsReturn
CHECK_DEADLOCK FALSE
