SPECIFICATION Spec
CONSTANTS
  s1 = s1
  s2 = s2
  j1 = j1
  j2 = j2
  cl = cl
  me = me
  None = None
  Site <- MCSite
  Job <- MCJob
  Client <- MCClient
  Email <- MCEmail
  MaxCrashes = 0
CHECK_DEADLOCK FALSE
INVARIANTS SuccessIsServedAnyway
