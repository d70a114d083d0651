SPECIFICATION Spec
CONSTANTS
  Overdrawns = {o1, o2}
  MaxBuilt = 2
CHECK_DEADLOCK FALSE
SYMMETRY Symmetry
INVARIANT MaxIsPeak
