SPECIFICATION FreeListLiveSpec
CONSTANTS
  Threads = {t1, t2, t3}
  Nodes = {n1, n2}
  Null = Null
  Should = 8
INVARIANTS
  OneTaker
  OneLinker
  NothingLost
PROPERTY GetsBack
