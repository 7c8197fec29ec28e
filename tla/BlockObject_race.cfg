\* Two coroutines, a thread outside coroutines, one object, timed and untimed waits, yields.
CONSTANTS
  t1 = t1
  t2 = t2
  th1 = th1
  b1 = b1
  Tasks = {t1, t2}
  Threads = {th1}
  Blocks = {b1}
  Yielders = {t1}
  NoTask = NoTask
  NoBlock = NoBlock
  InitWakeup = 0
  MaxWakeup = 1
  MaxSeq = 2
  Timeouts = {0, 1}
SPECIFICATION Spec
INVARIANTS
  TypeOK
  NoLostWakeup
  QueuedOnce
  WokenOnce
  CoroutineWaitReportsSignal
  RefsBalanced
  TimerEndsWithWait
