SPECIFICATION FairSpec
CONSTANTS
  Workers = {w1, w2}
  Tasks = {k1, k2}
  Controller = ctl
  None = none
  InitialSizes = {2}
  MaxCalls = 1
  MaxSpurious = 0
  MaxCells = 1
CHECK_DEADLOCK FALSE
INVARIANTS TypeOK CellsKept
PROPERTY LaunchesEnd
