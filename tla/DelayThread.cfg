SPECIFICATION FairSpec
CONSTANTS
  Clients = {c1}
  Worker = worker
  MaxActions = 2
  Delays = {0, 2}
  Idle = 2
CHECK_DEADLOCK FALSE
INVARIANTS
  TypeOK
  PromptIsNotLost
  HeldBackOnlyIfLowered
  AtMostOneAfterDestroy
PROPERTY ActionsEnd
