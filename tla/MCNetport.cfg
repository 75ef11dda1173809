CONSTANTS
  A = a
  B = b
  None = None
  Senders = {a}
  Sizes = {0, 2, 3, 5}
  Magics = {TRUE}
  MaxRecv = 2
  MaxSends = 3
  WireMax = 2
  MayClear = FALSE
  MayFail = FALSE
  MayRefuse = FALSE
SPECIFICATION FairSpec
INVARIANTS TypeOK
PROPERTIES ReliableChannel
CHECK_DEADLOCK FALSE
