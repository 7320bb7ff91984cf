SPECIFICATION Spec
CONSTANTS
  Fds = {f1, f2}
  MaxTime = 2
  Ms = 2
  wait_time_ = 1
  kEventSize = 2
  Disciplined = FALSE
SYMMETRY FdSymmetry
INVARIANTS
  TypeOK
  IteratorValid
CHECK_DEADLOCK FALSE
