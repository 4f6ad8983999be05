SPECIFICATION DialogsSpec
CONSTANTS
  MergeClasses = {"Events", "Instances", "Items", "MediaContents", "Organizations", "People", "Places", "TaxonomyItems", "Works"}
  Listed = {1, 2, 3}
  Unset = Unset
  MaxPicks = 3
  MaxSelections = 4
  Rows <- MCRows
  Unknown = Unknown
  NoRow = NoRow
  MaxSteps = 5
  ann = ann
  bob = bob
  Users = {ann, bob}
  Casts <- MCCasts
  Projects = {1}
  Tabs = {left, right}
  None = None
  MaxSessionSteps = 3
CHECK_DEADLOCK FALSE
INVARIANT ClearedIsNotMerged
