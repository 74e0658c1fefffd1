SPECIFICATION FairSpec
CONSTANTS
  m1 = m1
  m2 = m2
  allowWeb = allowWeb
  denyPanel = denyPanel
  NoId = NoId
  MetaId <- MCOneId
  Rule <- MCRule
  Lockout <- MCLockout
  External <- MCNoExternal
  ConfirmTicks = 1
  OrphanTicks = 2
  MaxCrashes = 1

PROPERTY EveryStageResolved

