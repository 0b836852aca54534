CONSTANTS
  Proc = {p1, p2}
  First = p1
  Reader = p2
  Writer = p1
  NCpu = 1
  Num = {n1, n2, n3}
  Size = 2
  MaxBytes = 3
  None = None
SYMMETRY Symmetry
SPECIFICATION Spec
INVARIANTS
  BytesInOrder
  ClosedMeansClosed
CHECK_DEADLOCK FALSE
