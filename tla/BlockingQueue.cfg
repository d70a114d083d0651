SPECIFICATION FairSpec
CONSTANTS
  Threads = {t1, t2}
  Producers = {p1, p2}
  MaxBulk = 2
  MaxBatch = 2
  MaxEntries = 3
  Second = 2
  Timeout = 1
CHECK_DEADLOCK FALSE
INVARIANTS
  TypeOK
  Balance
  EntriesBacked
PROPERTIES
  SemaphoreKept
  CallsReturn
