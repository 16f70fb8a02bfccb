SPECIFICATION Spec
CONSTANTS
  a = a
  b = b
  A = A
  B = B
  s = s
  Nobody = Nobody
  RollupJob = RollupJob
  Channels = {a, b}
  Stations = {A, B}
  Sources = {s}
  StationOf <- MCStationOf
  SourceOf <- MCSourceOf
  Refreshers <- MCRefreshers
  Calendar <- MCCalendar
  History <- MCHistory
  Published <- MCPublished
  MaxTime = 5
  Today = 4
  Margin = 2
  Reach = 2
  Chunk = 4
  Recent = 2
  Stale = 0
  Slack = 1
  MaxJobs = 1
  MaxFaults = 1
INVARIANT BackfillComplete
CHECK_DEADLOCK FALSE
