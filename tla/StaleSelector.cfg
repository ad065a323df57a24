SPECIFICATION Spec
CONSTANTS
  Clusters = {"c"}
  SliceNames = {"s"}
  ExportNames = {"e"}
  SchemaNames = {"h"}
  SliceCatalog <- TwoSelectors
  ExportCatalog <- FixedExport
  SchemaCatalog <- FixedSchema
  Paths = {"c"}
  Identities = {"i1", "i2"}
  UIDs = {"u1", "u2"}
  Selectors = {"prod", "dev"}
  BadSelectors = {}
  GRs <- OwnGRs
  Versions = {"v1"}
  InternalSchema <- NoInternal
  BindingsGR = "apibindings"
  SlicesGR = "slices"
  BindingVersions = {"v1"}
  SliceVersion = "v1"
  ClusterOrder <- NoOrder
  NameOrder <- NoOrder
  DefIds = {1, 2, 3, 4, 5, 6, 7, 8, 9, 10, 11, 12}
  MaxChanges = 2
  Relists = FALSE
  Resyncs = FALSE
  Failures = FALSE
  Stops = FALSE
  None = None
  NoKey = NoKey
  NoIdentity = NoIdentity
  NoUID = NoUID
  NoSelector = NoSelector
  NoClaim = NoClaim
  NoDef = NoDef
  NoSet = NoSet
  Nil = Nil
INVARIANTS
  SelectorCurrent
CHECK_DEADLOCK FALSE
