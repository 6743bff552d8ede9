SPECIFICATION Spec
CONSTANTS
  a = a
  b = b
  Byte = {a, b}
  Zero = Zero
  kCheapPrepend = 2
  InitSize = 2
  ExtraSize = 2
  W = 32
  MaxSize = 6
  MaxChunk = 2
CHECK_DEADLOCK FALSE
INVARIANT IndexOrder
PROPERTY StreamSpec
