SPECIFICATION Spec
CONSTANTS
  Clusters = {"c", "p"}
  SliceNames = {"s"}
  ExportNames = {"e"}
  SchemaNames = {"h"}
  SliceCatalog <- ClaimerAndOwnerSlices
  ExportCatalog <- FixedClaimingExports
  SchemaCatalog <- GadgetSchema
  Paths = {"c", "p"}
  Identities = {"i1", "i2"}
  UIDs = {"u1", "u2"}
  Selectors = {"prod"}
  BadSelectors = {}
  GRs <- ClaimGRs
  Versions = {"v1"}
  InternalSchema <- InternalBindings
  BindingsGR = "apibindings"
  SlicesGR = "slices"
  BindingVersions = {"v1"}
  SliceVersion = "v1"
  ClusterOrder <- NoOrder
  NameOrder <- NoOrder
  DefIds = {1, 2, 3, 4, 5, 6, 7, 8, 9, 10, 11, 12}
  MaxChanges = 1
  Relists = FALSE
  Resyncs = FALSE
  Failures = FALSE
  Stops = FALSE
  None = None
  NoKey = NoKey
  NoIdentity = NoIdentity
  NoUID = NoUID
  NoSelector = NoSelector
  NoClaim = NoClaim
  NoDef = NoDef
  NoSet = NoSet
  Nil = Nil
INVARIANTS
  ServedClaimsCurrent
CHECK_DEADLOCK FALSE
