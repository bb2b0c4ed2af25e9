SPECIFICATION BlockingSpec
CONSTANTS
  p1 = p1  p2 = p2  c1 = c1  c2 = c2
  Producing = {p1, p2}
  Signallers = {p1, p2}
  Consumers = {c1, c2}
  Waiters = {c1, c2}
  Tokened = {c1}
  Offset <- MCOffset
  Quota = 1
  Puts = {1, 2}
  Asks = {1, 2}
  Kinds = {"ever", "timed", "try", "zero"}
  MaxPut = 2
INVARIANTS SleepersCovered PermitForEachElement NoneMissed
PROPERTIES LoopsEnd SleepersWake
CHECK_DEADLOCK FALSE
