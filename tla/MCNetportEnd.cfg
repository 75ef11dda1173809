CONSTANTS
  A = a
  B = b
  None = None
  Senders = {a}
  Sizes = {0}
  Magics = {TRUE}
  MaxRecv = 2
  MaxSends = 2
  WireMax = 1
  MayClear = TRUE
  MayFail = TRUE
  MayRefuse = FALSE
SPECIFICATION FairSpec
INVARIANTS KeepsReceiving
PROPERTIES LossNoticed Reclaimed
CHECK_DEADLOCK FALSE
