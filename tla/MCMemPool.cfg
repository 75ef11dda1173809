CONSTANTS
  BlockSize = 7
  HeaderSize = 1
  MaxBlocks = 2
  Sizes = {1, 3, 7}
  Resizes = {1, 3, 7}
  MaxLost = 1
SPECIFICATION FairSpec
INVARIANTS TypeOK UnitsSound Lent
PROPERTIES FreeReturns
CHECK_DEADLOCK FALSE
