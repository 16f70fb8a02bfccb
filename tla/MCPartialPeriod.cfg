SPECIFICATION Spec
CONSTANTS
  a1 = a1
  a2 = a2
  e1 = e1
  e2 = e2
  Exporters = {e1}
  Granularities = {"daily"}
  Sites = {a1, a2}
  Everywhere = Everywhere
  MaxDay = 3
  Month <- MCMonth
  MaxFormat = 2
  u = u
  v = v
  c = c
  Updaters = {u, v}
  Commands = {c}
  Pin = 1
  MaxBuild = 1
  MaxTileFaults = 0
PROPERTY RunCompletesPeriods
CHECK_DEADLOCK FALSE
