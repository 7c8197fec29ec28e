\* Three coroutines on one scheduler thread.
CONSTANTS
  t1 = t1
  t2 = t2
  t3 = t3
  m = m
  Tasks = {t1, t2, t3}
  Objects = {m}
  mtx_ = m
  NoObject = NoObject
  Procs = 1
SPECIFICATION FairSpec
INVARIANT NoStaleBlock
PROPERTY WriterEnters
