SPECIFICATION Spec
CONSTANTS
  t1 = t1
  t2 = t2
  t3 = t3
  t4 = t4
  k1 = k1
  None = None
  Tasks = {t1, t2, t3}
  Contexts = {k1}
  Req <- TwinReq
  Workers = 1
  CriticalReserved = 0
  LowReserved = 0
  AgingThreshold = 0
  FnErrors = {"canceled"}
  MaxCallers = 2
  MaxGen = 0
  MaxDrops = 1
  Shutdowns = {}
CHECK_DEADLOCK FALSE
INVARIANTS TypeOK ExactlyOnePlace TwinsOnlyByRequeue RunningTracked
