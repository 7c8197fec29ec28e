SPECIFICATION FairSpec
CONSTANTS
  t1 = t1
  t2 = t2
  t3 = t3
  a = a
  b = b
  m = m
  NoTask = NoTask
  Tasks <- ThreeTasks
  Threads <- OneThread
  Outsiders <- NoOne
  MaxProc = 3
PROPERTY RunReturns
PROPERTY ListMoves
PROPERTY EveryTaskEnds
