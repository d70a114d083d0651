SPECIFICATION FairSpec
CONSTANTS
  Threads = {t1, t2, t3}
  Lockeds = {h1, h2}
  Weaks = {w1}
  MaxResources = 1
  Spares = {}
  Overdrawns = {}
  AllowOverdraws = FALSE
  BuilderMayThrow = FALSE
  None = None
INVARIANTS
  NoResourceStranded
PROPERTIES
  CallsReturn
