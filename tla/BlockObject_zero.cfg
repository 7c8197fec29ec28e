\* A coroutine calls CoBlockWaitTimed with a zero timeout.
CONSTANTS
  t1 = t1
  th1 = th1
  b1 = b1
  Tasks = {t1}
  Threads = {th1}
  Blocks = {b1}
  Yielders = {}
  NoTask = NoTask
  NoBlock = NoBlock
  InitWakeup = 0
  MaxWakeup = 1
  MaxSeq = 1
  Timeouts = {0}
SPECIFICATION FairSpec
PROPERTY EveryTimedWaitEnds
