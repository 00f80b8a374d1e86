SPECIFICATION FairSpec
CONSTANTS
  p1 = p1
  p2 = p2
  t1 = t1
  idle = idle
  Tids <- TwoProcesses
  Leader <- OwnLeaders
  Initial <- OneAlive
  Idle <- idle
  NCpus = 1
  Sleeps <- SleepOrTrace
  MaxProcs = 2
  MaxThreads = 2
  MaxEvents = 0
  MaxRuntime = 1
  MaxLives = 1
INVARIANTS TypeOK LiveShown NoOvercount
PROPERTIES SoloReaped DeadReaped HeaderCounts
CHECK_DEADLOCK FALSE
