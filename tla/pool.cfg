SPECIFICATION Spec
CONSTANTS
  t1 = t1
  t2 = t2
  t3 = t3
  t4 = t4
  k1 = k1
  None = None
  Tasks = {t1, t2, t4}
  Contexts = {k1}
  Req <- MixedReq
  Workers = 2
  CriticalReserved = 0
  LowReserved = 1
  AgingThreshold = 1
  FnErrors = {}
  MaxCallers = 2
  MaxGen = 0
  MaxDrops = 0
  Shutdowns = {}
CHECK_DEADLOCK FALSE
INVARIANTS NoLostWakeup AgingBound CriticalRunsOnce RerunsArePaidFor
