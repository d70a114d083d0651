SPECIFICATION Spec
CONSTANTS
  Consumers = {c1, c2}
  Blocks = {b1, b2, b3}
  Null = null
  BLOCK_SIZE = 2
  IMPLICIT_INITIAL_INDEX_SIZE = 2
  MaxElements = 5
  MaxReserved = 4
  MaxBulk = 2
CHECK_DEADLOCK FALSE
INVARIANTS ClaimsAreEnqueued ElementsAreFound BlocksAreKept
PROPERTY FailureIsExplained
SYMMETRY Symmetry
