CONSTANTS
  a = a
  b = b
  Name = {n}
  Contact = {a, b}
  Host <- MCHost
  Numeric = {"two"}
  Ids = 2
  Expires = {0, 1}
  Requests <- MCRequests
  MaxQuery = 3
  MaxEvent = 3
SPECIFICATION Spec
INVARIANTS
  ReachesContact
  QueriesReturn
CHECK_DEADLOCK FALSE
