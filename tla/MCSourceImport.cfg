SPECIFICATION Spec
CONSTANTS
  Channels = {c1, c2}
  Processes = {p1}
  MaxTime = 3
  Timeframe = 1
  PageSize = 1
  CallsFail = TRUE
SYMMETRY Symmetry
INVARIANTS
  TypeOK
  NothingSkipped
  FinishedRunIsComplete
PROPERTIES
  FeedProtocol
