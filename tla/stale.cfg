SPECIFICATION Spec
CONSTANTS
  t1 = t1
  t2 = t2
  t3 = t3
  t4 = t4
  k1 = k1
  None = None
  Tasks = {t1, t2, t3}
  Contexts = {k1}
  Req <- StaleReq
  Workers = 1
  CriticalReserved = 0
  LowReserved = 0
  AgingThreshold = 0
  FnErrors = {"failed"}
  MaxCallers = 1
  MaxGen = 2
  MaxDrops = 0
  Shutdowns = {"close"}
CHECK_DEADLOCK FALSE
INVARIANT FreshRequestSurvives
PROPERTY KeepsContract
