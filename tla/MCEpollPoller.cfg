SPECIFICATION Spec
CONSTANTS
  e1 = e1
  e2 = e2
  e3 = e3
  e4 = e4
  f1 = f1
  f2 = f2
  f3 = f3
  Events = {e1, e2, e3, e4}
  Fds = {f1, f2, f3}
  FdOf <- MCFdOf
  Null = Null
  kInitEventListSize = 1
  BadFds = {f3}
INVARIANTS KernelAsWanted IndexCoherent
CHECK_DEADLOCK FALSE
SYMMETRY Symmetry
