SPECIFICATION FairSpec
CONSTANTS
  Workers = {w1, w2}
  Producers = {fcgi, ws}
  NoTask = NoTask
  Free = Free
  Chunk = 1
  MaxTasks = 2
  MaxStarts = 2
CHECK_DEADLOCK FALSE
INVARIANTS
  PoolTypeOK
  AcceptedBeforeStopRuns
PROPERTIES
  PoolIsFifo
  AcceptedRuns
  ShutdownReturns
