CONSTANTS
  BlockSize = 8
  HeaderSize = 1
  MaxBlocks = 1
  Sizes = {1, 3}
  Resizes = {}
  MaxLost = 0
SPECIFICATION Spec
INVARIANTS FreeCounted
CHECK_DEADLOCK FALSE
