SPECIFICATION Spec
CONSTANTS
  t1 = t1
  t2 = t2
  t3 = t3
  p1 = p1
  p2 = p2
  Tasks = {t1, t2}
  Callers = {p1}
  Fds = {fd}
  WakeFd = wake
  CallbacksThrow = TRUE
PROPERTY ExecutorSpec
INVARIANTS TypeOK TasksRunAtMostOnce
