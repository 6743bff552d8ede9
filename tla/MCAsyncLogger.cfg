SPECIFICATION FairSpec
CONSTANTS
  p1 = p1
  p2 = p2
  Producers = {p1, p2}
  MaxRecords = 6
  Big = {4}
  Capacity = 3
  MaxExtra = 1
  MaxStarts = 2
  None = None
CHECK_DEADLOCK FALSE
INVARIANTS NothingLostOrRepeated OrderWithoutBursts
PROPERTIES QuietStopWritesAll RecordIsWritten
