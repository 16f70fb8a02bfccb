SPECIFICATION Spec
CONSTANTS
  Channels = {c1, c2}
  Processes = {p1}
  MaxTime = 2
  Timeframe = 1
  PageSize = 1
  CallsFail = FALSE
INVARIANTS
  SafeWatermark
