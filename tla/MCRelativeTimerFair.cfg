CONSTANTS
  Sids = {t1}
  Clients = {c1}
  TaskThread = task
  None = None
  IntMax = 7
  Delays = {1}
  MaxTime = 2
  MaxWaits = 2
  MayCancel = TRUE
  MayUninit = TRUE
  Urgent = FALSE
  Slack = 0
SPECIFICATION FairSpec
PROPERTIES Answered UninitReturns SilentAfterUninit
CHECK_DEADLOCK FALSE
