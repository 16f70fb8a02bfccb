SPECIFICATION FairSpec
CONSTANTS
  Channels = {c1}
  Processes = {p1}
  MaxTime = 2
  Timeframe = 1
  PageSize = 1
  CallsFail = FALSE
PROPERTIES
  SourceFollowed
