SPECIFICATION Spec
CONSTANTS
  Clusters = {"c", "p"}
  SliceNames = {"s"}
  ExportNames = {"e"}
  Paths = {"c", "p", "root:x"}
  NoPath = NoPath
  SliceCatalog <- OneSlice
  ExportCatalog <- BothExports
  Workers = {w1, w2}
  ResourceVersions = {1, 2, 3, 4, 5, 6, 7, 8, 9, 10}
  MaxChanges = 4
  Resyncs = FALSE
  Failures = TRUE
  None = None
  NoKey = NoKey
  NoVersion = NoVersion
INVARIANTS
  TypeOK
  ConditionInSync
  Justified
PROPERTIES
  LaterVerdictWins
CHECK_DEADLOCK FALSE
SYMMETRY WorkerSymmetry
