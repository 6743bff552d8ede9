SPECIFICATION Spec
CONSTANTS
  p1 = p1
  Callers = {}
  MaxBytes = 3
  MaxSend = 2
  Room = 1
  HighWaterMark = 3
  HighWaterCalls = FALSE
INVARIANT PendingIsWatched
CHECK_DEADLOCK FALSE
