SPECIFICATION FairSpec
CONSTANTS
  Instances = {i1, i2}
  Jobs = {j1}
  Nobody = Nobody
  NoJob = NoJob
  JobTypes = {"data_source_update", "tiles_update"}
  MaxCrashes = 1
  MaxFaults = 2
  MaxPanics = 0
PROPERTY
  TypeRunnableAgain
