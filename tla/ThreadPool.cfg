SPECIFICATION PoolSpec
CONSTANTS
  Workers = {w1, w2}
  Tasks = {k1, k2}
  Controller = ctl
  None = none
  InitialSizes = {1, 2}
  MaxCalls = 3
  MaxSpurious = 1
CHECK_DEADLOCK FALSE
INVARIANTS QueuedTaskIsSeen StopRunsAll
