SPECIFICATION FairSpec
CONSTANTS
  MaxAttempts = 4
  InitRetryDelay = 1
  MaxRetryDelay = 3
  None = None
CHECK_DEADLOCK FALSE
INVARIANTS OpenSocketsAreOwned StaleEventsExplained ConnectionIsCurrent RetryIsArmed
PROPERTY AttemptsEnd
