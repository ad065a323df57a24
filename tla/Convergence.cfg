SPECIFICATION FairSpec
CONSTANTS
  Clusters = {"c", "p"}
  SliceNames = {"s"}
  ExportNames = {"e"}
  SchemaNames = {"h"}
  SliceCatalog <- ClaimerSlice
  ExportCatalog <- ClaimingExports
  SchemaCatalog <- GadgetSchema
  Paths = {"c", "p"}
  Identities = {"i1", "i2"}
  UIDs = {"u1", "u2"}
  Selectors = {"prod"}
  BadSelectors = {}
  GRs <- ClaimGRs
  Versions = {"v1"}
  InternalSchema <- InternalBindings
  BindingsGR = "apibindings"
  SlicesGR = "slices"
  BindingVersions = {"v1"}
  SliceVersion = "v1"
  ClusterOrder <- NoOrder
  NameOrder <- NoOrder
  DefIds = {1, 2, 3, 4, 5, 6, 7, 8}
  MaxChanges = 2
  Relists = TRUE
  Resyncs = TRUE
  Failures = FALSE
  Stops = FALSE
  None = None
  NoKey = NoKey
  NoIdentity = NoIdentity
  NoUID = NoUID
  NoSelector = NoSelector
  NoClaim = NoClaim
  NoDef = NoDef
  NoSet = NoSet
  Nil = Nil
PROPERTIES
  Converges
