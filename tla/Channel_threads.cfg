CONSTANTS
  t1 = t1
  t2 = t2
  t3 = t3
  w = w
  r = r
  q = q
  NoObject = NoObject
  Tasks = {t1, t2, t3}
  Objects = {w, r, q}
  write_block_ = w
  read_block_ = r
  queue_lock_ = q
  Procs = 2
  Capacity = 1
SPECIFICATION Spec
SYMMETRY Symmetry
CHECK_DEADLOCK FALSE
INVARIANTS TypeOK PopHasValue CapacityKept 
