CONSTANTS
  Proc = {p1, p2}
  First = p1
  Reader = p2
  Writer = p1
  NCpu = 1
  Num = {n1, n2}
  Size = 1
  MaxBytes = 2
  None = None
SYMMETRY Symmetry
SPECIFICATION Spec
INVARIANT
  EndOfFileIsTheEnd
CHECK_DEADLOCK FALSE
