SPECIFICATION FairSpec
CONSTANTS
  Clusters = {"c", "p"}
  SliceNames = {"s"}
  ExportNames = {"e"}
  Paths = {"c", "p", "root:x"}
  NoPath = NoPath
  SliceCatalog <- OneSlice
  ExportCatalog <- PathAddedLater
  Workers = {"w1", "w2"}
  ResourceVersions = {1, 2, 3, 4, 5, 6, 7, 8, 9, 10}
  MaxChanges = 3
  Resyncs = TRUE
  Failures = TRUE
  None = None
  NoKey = NoKey
  NoVersion = NoVersion
PROPERTIES
  Converges
  WritesEnd
CHECK_DEADLOCK FALSE
