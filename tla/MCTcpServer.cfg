SPECIFICATION FairSpec
CONSTANTS
  t1 = t1
  t2 = t2
  Main = Main
  Threads = {t1, t2}
  Pools <- MCPools
  MaxConns = 3
CHECK_DEADLOCK FALSE
INVARIANTS MapHoldsOpenConnections EndsExplained
PROPERTIES StopReturns BacklogIsAccepted
