\* Three coroutines on three scheduler threads.
CONSTANTS
  t1 = t1
  t2 = t2
  t3 = t3
  m = m
  Tasks = {t1, t2, t3}
  Objects = {m}
  mtx_ = m
  NoObject = NoObject
  Procs = 3
SPECIFICATION Spec
SYMMETRY Symmetry
INVARIANTS
  TypeOK
  Exclusion
  ReadersCounted
  NoDoubleUnlock
CHECK_DEADLOCK FALSE
