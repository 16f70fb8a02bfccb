SPECIFICATION FairSpec
CONSTANTS
  Instances = {i1, i2}
  Jobs = {j1}
  Nobody = Nobody
  NoJob = NoJob
  JobTypes = {"opendata_export"}
  MaxCrashes = 1
  MaxFaults = 0
  MaxPanics = 0
CHECK_DEADLOCK FALSE
PROPERTY
  TypeRunnableAgain
