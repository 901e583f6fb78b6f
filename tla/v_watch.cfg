SPECIFICATION Spec
CONSTANTS
  c1 = c1
  c2 = c2
  c3 = c3
  g1 = g1
  g2 = g2
  None = None
  Gvrs = {g1}
  Forbidden = {}
  Callers = {c1, c2, c3}
  Call <- Plain
  Entries = {e1, e2, e3, e4}
  Mode = "auto"
  DemoteAfterN = 1
  MaxWatchFailures = 2
  MaxBreaks = 0
  MaxSweeps = 0
CHECK_DEADLOCK FALSE
INVARIANT NoStrandedWatch
