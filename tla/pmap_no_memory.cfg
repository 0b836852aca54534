CONSTANTS
  CPU = {c1, c2}
  Page = {p1, p2, p3, p4, p5, p6}
  Env = {e1, e2}
  Dir = {d1, d2}
  Tab = {t1}
  None = None
SYMMETRY Symmetry
SPECIFICATION Spec
INVARIANT NoPanic
CHECK_DEADLOCK FALSE
