SPECIFICATION LogPreviewSpec
CONSTANTS
  Pods = {p1, p2}
  NoPod = NoPod
  MaxPreviews = 2
  MaxFetches = 0
  MaxAttempts = 1
  PreviewCacheMax = 2
INVARIANT PreviewShowsItsPod
CHECK_DEADLOCK FALSE
