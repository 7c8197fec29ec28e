SPECIFICATION Spec
CONSTANTS
  t1 = t1
  t2 = t2
  t3 = t3
  a = a
  b = b
  m = m
  NoTask = NoTask
  Tasks <- ThreeTasks
  Threads <- TwoThreads
  Outsiders <- Main
  MaxProc = 3
SYMMETRY Symmetry
INVARIANT TypeOK
INVARIANT OnePlace
INVARIANT TaskCounted
INVARIANT VictimIsOther
PROPERTY ReturnsWhenDone
