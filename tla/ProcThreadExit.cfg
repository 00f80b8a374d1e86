SPECIFICATION Spec
CONSTANTS
  p1 = p1
  p2 = p2
  t1 = t1
  idle = idle
  Tids <- ProcessAndThread
  Leader <- LedByP1
  Initial <- NoneAlive
  Idle <- idle
  NCpus = 1
  Sleeps <- JustSleep
  MaxProcs = 1
  MaxThreads = 2
  MaxEvents = 0
  MaxRuntime = 0
  MaxLives = 1
PROPERTY OnlyDeadReaped
CHECK_DEADLOCK FALSE
