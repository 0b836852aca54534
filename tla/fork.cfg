CONSTANTS
  Proc = {p1, p2, p3}
  First = p1
  Val = {0, 1}
  None = None
  NPages = 3
  Shared = {1}
  Frame = {m1, m2, m3, m4, m5}
SYMMETRY Symmetry
SPECIFICATION Spec
INVARIANTS
  WriterIsAlone
  NoFaultKills
PROPERTY
  ImplementsAddressSpaces
CHECK_DEADLOCK FALSE
