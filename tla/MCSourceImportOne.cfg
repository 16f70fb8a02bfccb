SPECIFICATION FairSpec
CONSTANTS
  Channels = {c1}
  Processes = {p1, p2}
  MaxTime = 3
  Timeframe = 1
  PageSize = 1
  CallsFail = FALSE
INVARIANTS
  EverythingImported
PROPERTIES
  RunEnds
