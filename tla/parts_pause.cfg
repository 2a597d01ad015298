SPECIFICATION FairSpec
CONSTANTS
  FileSize = 5
  PartSize = 2
  PartsParallel = 2
  Faults = FALSE
PROPERTIES
  CurrentPartIsSaved
