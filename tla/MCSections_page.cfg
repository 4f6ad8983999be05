SPECIFICATION SectionsSpec
CONSTANTS
  Classes = {"Event", "Instance", "Item", "MediaContent", "Organization", "Person", "Place", "Taxonomy", "Work"}
  NoOne = NoOne
  NoMap = NoMap
  MaxEdits = 3
  MaxSaves = 2
  Relations <- MCRelations
  HomeClass = "works"
  None = None
  MaxActs = 4
  MaxRequests = 2
  Files = {"f", "g"}
  MaxMediaSteps = 6
  MaxPanelSteps = 5
  MaxCalls = 2
CHECK_DEADLOCK FALSE
INVARIANT SectionsTypeOK
INVARIANT RowsJoinTheModels
INVARIANT SettledPanelShowsItsRow
INVARIANT UploadsStayTogether
PROPERTY FirstSaveIsExact
PROPERTY SavesStoreWhatIsShown
PROPERTY RowsChangeForTheirRecord
