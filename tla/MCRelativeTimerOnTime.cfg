CONSTANTS
  Sids = {t1, t2}
  Clients = {c1}
  TaskThread = task
  None = None
  IntMax = 7
  Delays = {0, 1, 2}
  MaxTime = 4
  MaxWaits = 3
  MayCancel = FALSE
  MayUninit = FALSE
  Urgent = TRUE
  Slack = 0
SPECIFICATION Spec
SYMMETRY TimerSymmetry
INVARIANTS NoOversleep Timely
CHECK_DEADLOCK FALSE
