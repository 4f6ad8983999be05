SPECIFICATION Spec
CONSTANTS
  Requests = {r1, r2, r3}
  OldRows = {m1}
  m1 = m1
  e1 = e1
  e2 = e2
  p1 = p1
  p2 = p2
  MaxUsers = 3
  Emails = {e1, e2}
  Projects = {p1, p2}
  InitialTables <- MCTables
  Editors = 1
  Unknown = Unknown
  Own = Own
  NoUser = NoUser
  Deleted = Deleted
  NoId = NoId
  NoRow = NoRow
  NoRequest = NoRequest
SYMMETRY Symmetry
CHECK_DEADLOCK FALSE
INVARIANT TypeOK
INVARIANT NobodyLockedOut
INVARIANT NothingTwice
PROPERTY RoleChangesKeepAnOwner
