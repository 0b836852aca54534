CONSTANTS
  NBlocks = 8
  NDirect = 1
  NIndirect = 1
  BlkFiles = 2
  BlkSize = 1
  MaxSize = 2
  Name = {n1}
  Motd = motd
  NotFound = n1
  NoName = none
  Spelled = 3
SPECIFICATION Spec
INVARIANTS
  BlocksExactAlways
CHECK_DEADLOCK FALSE
