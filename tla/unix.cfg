CONSTANTS
  N = 11
  Chain = 6
  MaxSegments = 3
  Proc <- MCProc
  Line <- MCLine
  PipeId <- MCPipeId
  Capacity = 1
  Tty = Tty
  File = File
  None = None
SPECIFICATION Spec
INVARIANTS
  JoinedAsTyped
  ForegroundIsOver
  PrimesInOrder
  MainEndsLast
PROPERTIES
  
  SieveEnds
CHECK_DEADLOCK FALSE
