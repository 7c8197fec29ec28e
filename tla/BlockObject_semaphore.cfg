CONSTANTS
  t1 = t1
  t2 = t2
  th1 = th1
  b1 = b1
  b2 = b2
  Tasks = {t1, t2}
  Threads = {th1}
  Blocks = {b1}
  Yielders = {}
  NoTask = NoTask
  NoBlock = NoBlock
  InitWakeup = 0
  MaxWakeup = 1
  MaxSeq = 1
  Timeouts = {0, 1}
SPECIFICATION FairSpec
PROPERTIES
  ImplementsSemaphore
  TimedWaitEnds
