SPECIFICATION NexusSpec
CONSTANTS
  i1 = i1
  p1 = p1
  p2 = p2
  None = None
  Instance <- MCInstance
  Poll <- MCPoll
  Bucket = 2
  Retention = 2
  MaxTime = 4
  MaxServed = 2
  MaxSamples = 3
  MaxRestarts = 1
CHECK_DEADLOCK FALSE
SYMMETRY MCSymmetry
INVARIANTS NoNegativeRate
