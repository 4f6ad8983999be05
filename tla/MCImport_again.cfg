SPECIFICATION Spec
CONSTANTS
  Imports = {i1, i2, i3}
  Ids = {1, 2, 3, 4, 5, 6}
  Uuids <- MCUuids
  Values <- MCValues
  Zips <- MCZips
  InitialDbs <- MCInitialDbs
  Workers = 1
  WebActions = {"destroy"}
  NoRow = NoRow
  NoId = NoId
  NoUuid = NoUuid
  NoValue = NoValue
  NoImport = NoImport
  Clean = Clean
  u1 = u1
  u2 = u2
  q = q
  old = old
  new = new
ACTION_CONSTRAINT OneDeletion
SYMMETRY Symmetry
CHECK_DEADLOCK FALSE
INVARIANT ImportingAgainDuplicatesNothing
PROPERTY ImportsAloneAreVersioned
