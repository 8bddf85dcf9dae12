CONSTANTS
  Calls = {c1, c2, c3}
  MaxNoise = 1
SPECIFICATION TransportFairSpec
PROPERTY OwnAnswer
PROPERTY LockFreed
CHECK_DEADLOCK FALSE
