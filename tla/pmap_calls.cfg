CONSTANTS
  CPU = {c1, c2}
  Page = {p1, p2, p3, p4, p5}
  Env = {e1, e2}
  Dir = {d1, d2}
  Tab = {t1, t2}
  None = None
SYMMETRY Symmetry
SPECIFICATION Spec
INVARIANTS
  RefCounts
  FreeExact
  TablesArePrivate
  TlbCoherent
PROPERTY
  WriteComesFromAWriter
CHECK_DEADLOCK FALSE
