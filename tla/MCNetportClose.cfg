CONSTANTS
  A = a
  B = b
  None = None
  Senders = {a}
  Sizes = {3}
  Magics = {TRUE, FALSE}
  MaxRecv = 2
  MaxSends = 2
  WireMax = 1
  MayClear = TRUE
  MayFail = FALSE
  MayRefuse = TRUE
SPECIFICATION Spec
INVARIANTS Owned OneWrite
PROPERTIES FifoChannel QuietAfterClear
CHECK_DEADLOCK FALSE
