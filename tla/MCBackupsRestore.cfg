SPECIFICATION Spec
CONSTANTS
  b1 = b1
  b2 = b2
  b3 = b3
  f1 = f1
  f2 = f2
  f3 = f3
  shop = shop
  nightly = nightly
  weekly = weekly
  NoGroup = NoGroup
  NoFile = NoFile
  NoBackup = NoBackup
  Backup <- MCBackup
  Instance <- MCInstance
  File <- MCFile
  Request <- MCTwoTasks
  SameInstant = FALSE
  MaxStuck = 1
  MaxCrashes = 1
CHECK_DEADLOCK FALSE
SYMMETRY MCSymmetry
INVARIANT RestoreFindsFile
