CONSTANTS
  CPU = {c1, c2}
  BSP = c1
  NENV = 3
  NBoot = 1
  GenLimit = 2
  None = None
SPECIFICATION FairSpec
PROPERTIES
  ZombiesAreFreed
  RunnableRuns
CHECK_DEADLOCK FALSE
