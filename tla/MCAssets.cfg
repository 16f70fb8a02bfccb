SPECIFICATION Spec
CONSTANTS
  p = p
  q = q
  icon = icon
  logo = logo
  h1 = h1
  h2 = h2
  img = img
  site = site
  i1 = i1
  Processes = {p, q}
  Bundle <- MCBundle
  Builtins = {icon, logo}
  Default = icon
  Images = {img}
  Hashes = {h1, h2, img}
  Importers = {i1}
  ImageStations = {site}
  MaxStops = 1
  Nothing = Nothing
INVARIANTS AssetTypeOK DanglingOnlyByRace BytesMatchRow HashHasLink
PROPERTY OrphansGo
CHECK_DEADLOCK FALSE
