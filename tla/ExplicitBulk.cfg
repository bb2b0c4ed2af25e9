SPECIFICATION Spec
CONSTANTS
  Consumers = {c1, c2}
  Blocks = {b1, b2, b3}
  None = None
  MaxTake = 2
  W = 12
  BlockSize = 2
  FirstIndex = 2
  BulkSizes = {3}
  BulkFails = TRUE
  Throws = FALSE
  Starts = {0}
  MaxFutile = 0
  MaxPut = 8
INVARIANT IndexLeadsToElement
CHECK_DEADLOCK FALSE
