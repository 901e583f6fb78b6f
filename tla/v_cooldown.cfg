SPECIFICATION Spec
CONSTANTS
  c1 = c1
  c2 = c2
  c3 = c3
  g1 = g1
  g2 = g2
  None = None
  Gvrs = {g1, g2}
  Forbidden = {}
  Callers = {c1, c2}
  Call <- TwoTypes
  Entries = {e1, e2, e3, e4}
  Mode = "auto"
  DemoteAfterN = 1
  MaxWatchFailures = 1
  MaxBreaks = 1
  MaxSweeps = 1
CHECK_DEADLOCK FALSE
PROPERTY SweepKeepsBlocked
