SPECIFICATION FairSpec
CONSTANTS
  a = a
  s = s
  t = t
  Conn <- MCConn
  Kind <- MCKind
CHECK_DEADLOCK FALSE
INVARIANTS TypeOK NoOrphanWork TimerIsForChild
PROPERTIES EndsWhenGone
