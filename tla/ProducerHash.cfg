SPECIFICATION LiveSpec
CONSTANTS
  t1 = t1
  t2 = t2
  t3 = t3
  Threads <- MCThreads
  Hash <- MCHash
  InitCap = 2
  MaxFails = 1
  Leaving = {t1}
  MaxExits = 1
INVARIANTS
  OwnProducer
  ProducersApart
  RoomBeforeExits
PROPERTY CallsEnd
CHECK_DEADLOCK FALSE
