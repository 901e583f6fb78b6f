SPECIFICATION StreamsSpec
CONSTANTS
  c1 = c1
  c2 = c2
  c3 = c3
  g1 = g1
  g2 = g2
  l1 = l1
  l2 = l2
  p1 = p1
  p2 = p2
  x1 = x1
  x2 = x2
  None = None
  Gvrs = {g1}
  Forbidden = {g1}
  Callers = {c1, c2}
  Call <- Ticks
  Entries = {e1, e2, e3}
  Mode = "auto"
  DemoteAfterN = 1
  MaxWatchFailures = 1
  MaxBreaks = 1
  MaxSweeps = 1
  MaxCaptures = 2
  MaxStops = 1
  MaxStreams = 2
  MaxLines = 1
  LogTabs = {l1, l2}
  FirstTab = l1
  MaxReaders = 2
  MaxRestarts = 1
  Pods = {p1, p2}
  NoPod = NoPod
  MaxPreviews = 2
  MaxFetches = 1
  MaxAttempts = 1
  PreviewCacheMax = 1
  MaxPtys = 2
  TermTabs = {x1, x2}
  FirstTermTab = x1
CHECK_DEADLOCK FALSE
INVARIANTS StreamsTypeOK NoWatchLeaks StopIsFinal RemovedIsStopped PcapsAreAccountedFor SingleReader NoStreamStalls NoStreamLeaks PreviewIsRead LoadingIsAwaited TerminalsStayUsable
PROPERTY RefusedWatchEnds
