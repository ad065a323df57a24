SPECIFICATION FairSpec
CONSTANTS
  Clusters = {"c"}
  SliceNames = {"s"}
  ExportNames = {"e"}
  SchemaNames = {"h"}
  SliceCatalog <- GoodOrBadSlice
  ExportCatalog <- FixedExport
  SchemaCatalog <- FixedSchema
  Paths = {"c"}
  Identities = {"i1", "i2"}
  UIDs = {"u1", "u2"}
  Selectors = {"prod", "bad"}
  BadSelectors = {"bad"}
  GRs <- OwnGRs
  Versions = {"v1"}
  InternalSchema <- NoInternal
  BindingsGR = "apibindings"
  SlicesGR = "slices"
  BindingVersions = {"v1"}
  SliceVersion = "v1"
  ClusterOrder <- NoOrder
  NameOrder <- NoOrder
  DefIds = {1, 2, 3, 4, 5, 6, 7, 8}
  MaxChanges = 2
  Relists = FALSE
  Resyncs = FALSE
  Failures = TRUE
  Stops = TRUE
  None = None
  NoKey = NoKey
  NoIdentity = NoIdentity
  NoUID = NoUID
  NoSelector = NoSelector
  NoClaim = NoClaim
  NoDef = NoDef
  NoSet = NoSet
  Nil = Nil
PROPERTIES
  StopDrains
  ImplementsDomainMap
CHECK_DEADLOCK FALSE
