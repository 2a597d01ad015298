SPECIFICATION FairSpec
CONSTANTS
  FileSize = 7
  PartSize = 2
  PartsParallel = 2
  Faults = TRUE
INVARIANTS
  TypeOK
  IInv
  BoundedRequests
  NilMeansAllSaved
  SavedPartsAreStored
  ProgressIsExact
  NothingLeftBehind
PROPERTIES
  Returns
  ImplementsBatch
