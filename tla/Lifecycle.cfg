SPECIFICATION Spec
CONSTANTS
  Clusters = {"c"}
  SliceNames = {"s"}
  ExportNames = {"e"}
  SchemaNames = {"h", "k"}
  SliceCatalog <- GoodOrBadSlice
  ExportCatalog <- OwnExport
  SchemaCatalog <- OwnSchemaObjects
  Paths = {"c"}
  Identities = {"i1", "i2"}
  UIDs = {"u1", "u2"}
  Selectors = {"prod", "bad"}
  BadSelectors = {"bad"}
  GRs <- TwoOwnGRs
  Versions = {"v1"}
  InternalSchema <- NoInternal
  BindingsGR = "apibindings"
  SlicesGR = "slices"
  BindingVersions = {"v1"}
  SliceVersion = "v1"
  ClusterOrder <- NoOrder
  NameOrder <- NoOrder
  DefIds = {1, 2, 3, 4, 5, 6, 7, 8}
  MaxChanges = 2
  Relists = FALSE
  Resyncs = TRUE
  Failures = FALSE
  Stops = FALSE
  None = None
  NoKey = NoKey
  NoIdentity = NoIdentity
  NoUID = NoUID
  NoSelector = NoSelector
  NoClaim = NoClaim
  NoDef = NoDef
  NoSet = NoSet
  Nil = Nil
INVARIANTS
  TypeOK
  DomainInSync
  ReadsCurrent
  ServedSchemasCurrent
PROPERTIES
  StableDefinitions
