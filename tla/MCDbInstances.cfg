SPECIFICATION Spec
CONSTANTS
  c1 = c1
  c2 = c2
  o1 = o1
  o2 = o2
  shop = shop
  Nobody = Nobody
  Create <- MCCreate
  Op <- MCOp
  Name <- MCName
  InitOnly = FALSE
  MaxCrashes = 1
CHECK_DEADLOCK FALSE
INVARIANTS TypeOK RowKeepsContainer NoStrayContainer
