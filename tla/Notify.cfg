CONSTANTS
  From = {f1, f2}
  Contact = {c1, c2}
  To = {t1, t2}
  CallId = {i1, i2}
SYMMETRY Symmetry
SPECIFICATION Spec
INVARIANTS
  NothingDangles
PROPERTIES
  ImplementsSubscriptions
CHECK_DEADLOCK FALSE
