SPECIFICATION Spec
CONSTANTS
  Threads = {t1, t2, t3}
  None = None
SYMMETRY Symmetry
INVARIANTS
  TypeOK
  OneHolder
  SleepersAreDue
  EarlyOnlyIfReverted
