CONSTANTS
  Tasks = {t1, t2}
  MaxConcurrent = 1
  QueueSize = 1
  MaxMessages = 2
SPECIFICATION FairSpec
INVARIANT NothingLost
INVARIANT ReportedOnce
PROPERTY ImplementsTaskLife
PROPERTY LaunchedIsTold
CHECK_DEADLOCK FALSE
