SPECIFICATION StallSpec
CONSTANTS
  Last = 16
  Threads <- MCThreads
  Hash <- MCHash
  InitCap = 8
  MaxFails = 0
  Leaving <- MCThreads
  MaxExits = 16
INVARIANT SlotFree
CHECK_DEADLOCK FALSE
