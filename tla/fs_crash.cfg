CONSTANTS
  NBlocks = 9
  NDirect = 1
  NIndirect = 1
  BlkFiles = 2
  BlkSize = 1
  MaxSize = 2
  Name = {n1, n2}
  Motd = motd
  NotFound = n1
  NoName = none
  Spelled = 3
SPECIFICATION Spec
INVARIANTS
  BlocksExact
  CrashSafe
  FlushedIsStored
CHECK_DEADLOCK FALSE
