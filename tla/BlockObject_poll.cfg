\* A thread outside coroutines calls CoBlockWaitTimed.
CONSTANTS
  t1 = t1
  th1 = th1
  b1 = b1
  Tasks = {t1}
  Threads = {th1}
  Blocks = {b1}
  Yielders = {}
  NoTask = NoTask
  NoBlock = NoBlock
  InitWakeup = 0
  MaxWakeup = 1
  MaxSeq = 1
  Timeouts = {1}
SPECIFICATION Spec
INVARIANT WaitReportsSignal
