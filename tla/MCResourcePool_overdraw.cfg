SPECIFICATION Spec
CONSTANTS
  Threads = {t1, t2}
  Lockeds = {h1, h2, h3}
  Weaks = {w1}
  MaxResources = 1
  Spares = {s1}
  Overdrawns = {o1}
  AllowOverdraws = TRUE
  BuilderMayThrow = TRUE
  None = None
SYMMETRY Symmetry
INVARIANTS
  TypeOK
  ExclusiveRental
  CallbacksAlternate
  ListedOnce
  BorrowAssertions
  PermitsBacked
  NoResourceStranded
PROPERTY ContractKept
