SPECIFICATION Spec
CONSTANTS
  MaxFileSize = 2
  BufferSize = 2
  MaxCalls = 8
  Oversize = {5}
  MaxTime = 2
  MaxLoggers = 3
  MaxReads = 2
CHECK_DEADLOCK FALSE
INVARIANTS RecordsAreKept FilesAreWellFormed ReaderFollows
