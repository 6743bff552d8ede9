SPECIFICATION FairSpec
CONSTANTS
  t1 = t1
  t2 = t2
  t3 = t3
  p1 = p1
  p2 = p2
  Tasks = {t1, t2, t3}
  Callers = {p1, p2}
  Fds = {fd}
  WakeFd = wake
  CallbacksThrow = FALSE
INVARIANTS NoLostTaskWakeup NoLostStopWakeup
PROPERTIES UrgentTaskRuns StopEndsLoop QueuedTaskRuns
