CONSTANTS
  Sids = {t1, t2}
  Clients = {c1}
  TaskThread = task
  None = None
  IntMax = 7
  Delays = {0, 1}
  MaxTime = 1
  MaxWaits = 3
  MayCancel = TRUE
  MayUninit = FALSE
  Urgent = FALSE
  Slack = 0
SPECIFICATION Spec
SYMMETRY TimerSymmetry
INVARIANTS TypeOK Indexed AtMostOnce NeverEarly
PROPERTIES CancelTakes
CHECK_DEADLOCK FALSE
