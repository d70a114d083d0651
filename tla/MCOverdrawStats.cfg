SPECIFICATION FairSpec
CONSTANTS
  Overdrawns = {o1, o2, o3}
  MaxBuilt = 4
CHECK_DEADLOCK FALSE
INVARIANTS
  TypeOK
  MaxRightWithoutOverlap
  SumWithinBounds
PROPERTY ConstructorsFinish
