SPECIFICATION DrainedSpec
CONSTANTS
  p1 = p1
  Callers = {p1}
  MaxBytes = 4
  MaxSend = 2
  Room = 2
  HighWaterMark = 2
  HighWaterCalls = TRUE
INVARIANTS WatchedWhileOpen StreamIntact
PROPERTIES PeerCloseIsNoticed ForceCloseCompletes WatchedDataIsSent
CHECK_DEADLOCK FALSE
