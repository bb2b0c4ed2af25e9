SPECIFICATION Spec
CONSTANTS
  Consumers = {c1, c2}
  Blocks = {b1, b2, b3}
  None = None
  MaxTake = 2
  W = 28
  BlockSize = 2
  FirstIndex = 2
  BulkSizes = {3}
  BulkFails = FALSE
  Throws = TRUE
  Starts = {0, 26}
  MaxFutile = 1
  MaxPut = 5
INVARIANTS
  TypeOK
  HeadBehindTail
  CountersBalance
  IndexLeadsToElement
  BlocksAccounted
  DestructorCleansUp
PROPERTY ImplementsSubQueue
CHECK_DEADLOCK FALSE
SYMMETRY Symmetry
