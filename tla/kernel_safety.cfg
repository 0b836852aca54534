CONSTANTS
  CPU = {c1, c2}
  BSP = c1
  NENV = 3
  NBoot = 1
  GenLimit = 5
  MaxBirths = 6
  None = None
SPECIFICATION HSpec
INVARIANTS
  TypeOK
  LockExcludes
  OneCpuPerEnv
  NoUseAfterFree
  FreeListExact
  ReceiverBlocked
  MonitorIsLast
PROPERTIES
  ImplementsEnvLife
  ZombiesOnlyDie
  OnlyParentControls
CHECK_DEADLOCK FALSE
