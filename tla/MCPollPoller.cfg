SPECIFICATION Spec
CONSTANTS
  e1 = e1
  e2 = e2
  e3 = e3
  e4 = e4
  f1 = f1
  f2 = f2
  f3 = f3
  Events = {e1, e2, e3, e4}
  Fds = {f1, f2, f3}
  FdOf <- MCFdOf
  Null = Null
INVARIANTS WatchedAsWanted EntriesAgree
PROPERTY ReportsRegistered
CHECK_DEADLOCK FALSE
SYMMETRY Symmetry
