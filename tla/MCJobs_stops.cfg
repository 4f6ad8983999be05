SPECIFICATION FairSpec
CONSTANTS
  i1 = i1
  e1 = e1
  Imports <- OneImport
  Exports <- OneExport
  RemoveDuplicates = {i1}
  Threads = 2
  MaxRetries = 1
  Raises <- Anything
  RequestsFail = TRUE
  Stops = {"shutdown", "kill"}
  MaxStops = 2
  MayDestroy = TRUE
CHECK_DEADLOCK FALSE
INVARIANT TypeOK
INVARIANT FileBeforeMessage
INVARIANT CompletedMeansProduced
PROPERTY EveryJobIsSettled
PROPERTY ImplementsLifecycle
