SPECIFICATION Spec
CONSTANTS
  m1 = m1
  m2 = m2
  allowWeb = allowWeb
  denyPanel = denyPanel
  NoId = NoId
  MetaId <- MCMetaId
  Rule <- MCRule
  Lockout <- MCLockout
  External <- MCNoExternal
  ConfirmTicks = 1
  OrphanTicks = 2
  MaxCrashes = 0
INVARIANT ConfirmedKept
SYMMETRY IdSymmetry
