SPECIFICATION Spec
CONSTANTS
  Threads = {t1, t2}
  Lockeds = {h1, h2}
  Weaks = {w1, w2}
  MaxResources = 2
  Spares = {}
  Overdrawns = {o1}
  AllowOverdraws = TRUE
  BuilderMayThrow = TRUE
  None = None
SYMMETRY Symmetry
INVARIANTS
  IndexConserved
  IInv
