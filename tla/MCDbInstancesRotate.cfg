SPECIFICATION Spec
CONSTANTS
  c1 = c1
  c2 = c2
  o1 = o1
  o2 = o2
  shop = shop
  Nobody = Nobody
  Create <- MCOneCreate
  Op <- MCOneOp
  Name <- MCName
  InitOnly = TRUE
  MaxCrashes = 0
CHECK_DEADLOCK FALSE
INVARIANT PasswordWorks
