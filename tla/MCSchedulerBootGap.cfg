SPECIFICATION FairSpec
CONSTANTS
  t1 = t1
  r1 = r1
  r2 = r2
  Purge = Purge
  Renew = Renew
  UserTask <- MCUserTask
  Run <- MCRun
  MaxCrashes = 2
CHECK_DEADLOCK FALSE
INVARIANT HandleHasRunner
