SPECIFICATION Spec
CONSTANTS
  Merges = {m1, m2}
  Jobs = {j1, j2}
  MaxId = 5
  Names = {a, b}
  Kinds <- MCKinds
  MediaKinds = {media}
  InverseKinds = {shown}
  Settings <- MCSettings
  NoSession = NoSession
  NoTarget = NoTarget
  NoId = NoId
  a = a
  b = b
  link = link
  media = media
  shown = shown
SYMMETRY Symmetry
CHECK_DEADLOCK FALSE
INVARIANT TypeOK
PROPERTY UuidsStayResolvable
INVARIANT UuidsAreUnambiguous
PROPERTY LinksFollowMerges
PROPERTY JobsRemoveDuplicates
