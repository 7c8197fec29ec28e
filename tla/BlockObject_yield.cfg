\* A coroutine whose wait AddWaitTask ended yields.
CONSTANTS
  t1 = t1
  th1 = th1
  b1 = b1
  Tasks = {t1}
  Threads = {th1}
  Blocks = {b1}
  Yielders = {t1}
  NoTask = NoTask
  NoBlock = NoBlock
  InitWakeup = 0
  MaxWakeup = 1
  MaxSeq = 1
  Timeouts = {1}
SPECIFICATION Spec
INVARIANT YieldDoesNotWait
