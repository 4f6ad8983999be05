SPECIFICATION FairSpec
CONSTANTS
  Imports = {i1, i2}
  Ids = {1, 2, 3, 4, 5, 6, 7}
  Uuids <- MCUuids
  Values <- MCValues
  Zips <- MCZips
  InitialDbs <- MCInitialDbs
  Workers = 2
  WebActions = {"edit", "destroy"}
  NoRow = NoRow
  NoId = NoId
  NoUuid = NoUuid
  NoValue = NoValue
  NoImport = NoImport
  Clean = Clean
  u1 = u1
  u2 = u2
  q = q
  old = old
  new = new
ACTION_CONSTRAINT OneRequest
CHECK_DEADLOCK FALSE
INVARIANT TypeOK
INVARIANT RowLocks
INVARIANT AuditMatchesWrites
INVARIANT ClosedLeavesNoStagingIds
PROPERTY EveryImportEnds
PROPERTY ImplementsContract
