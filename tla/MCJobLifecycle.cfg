SPECIFICATION Spec
CONSTANTS
  Instances = {i1, i2}
  Jobs = {j1, j2}
  Nobody = Nobody
  NoJob = NoJob
  JobTypes = {"data_source_update", "tiles_update"}
  MaxCrashes = 1
  MaxFaults = 1
  MaxPanics = 1
SYMMETRY Symmetry
INVARIANTS
  TypeOK
  LeaseExclusive
  NoAbandonedRunning
  OneActivePerInstance
PROPERTIES
  LockOutlivesItsJob
  StatusProtocol
