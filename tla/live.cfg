SPECIFICATION FairSpec
CONSTANTS
  t1 = t1
  t2 = t2
  t3 = t3
  t4 = t4
  k1 = k1
  None = None
  Tasks = {t1, t2, t4}
  Contexts = {k1}
  Req <- MixedReq
  Workers = 2
  CriticalReserved = 1
  LowReserved = 0
  AgingThreshold = 0
  FnErrors = {}
  MaxCallers = 1
  MaxGen = 0
  MaxDrops = 0
  Shutdowns = {"stop"}
CHECK_DEADLOCK FALSE
PROPERTIES EveryFutureAnswered StopReturns
