CONSTANTS
  t1 = t1
  t2 = t2
  t3 = t3
  w = w
  r = r
  q = q
  NoObject = NoObject
  Tasks = {t1, t2, t3}
  Objects = {w, r, q}
  write_block_ = w
  read_block_ = r
  queue_lock_ = q
  Procs = 1
  Capacity = 1
SPECIFICATION FairSpec
CHECK_DEADLOCK FALSE
INVARIANTS NoSignalLost
PROPERTIES  TryPopReturns
