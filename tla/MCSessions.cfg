SPECIFICATION Spec
CONSTANTS
  t1 = t1
  t2 = t2
  l1 = l1
  l2 = l2
  r1 = r1
  r2 = r2
  r3 = r3
  None = None
  Tab <- MCTab
  Login <- MCLogin
  Request <- MCRequest
  Owner <- MCOwner
  MaxLost = 1
CHECK_DEADLOCK FALSE
SYMMETRY Symmetry
INVARIANTS TypeOK StoredIsKnown RejectedForCause WaitersAreWoken
PROPERTY ImplementsChains
