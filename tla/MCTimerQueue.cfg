SPECIFICATION FairSpec
CONSTANTS
  t1 = t1
  t2 = t2
  t3 = t3
  Timers = {t1, t2, t3}
  Expirations = {0, 1, 2, 3}
  Interval = 1
  MaxNow = 3
  None = None
CHECK_DEADLOCK FALSE
INVARIANTS MapsAgree OnlyCallbacksEndanger
PROPERTIES RunsAreDue PendingTimerRuns
