SPECIFICATION Spec
CONSTANTS
  Clusters = {"c", "p"}
  SliceNames = {"s"}
  ExportNames = {"e", "f"}
  SchemaNames = {"h", "k"}
  SliceCatalog <- ClaimerSlice
  ExportCatalog <- TwoOwners
  SchemaCatalog <- TwoGadgetSchemas
  Paths = {"c"}
  Identities = {"i1", "i2"}
  UIDs = {"u1", "u2"}
  Selectors = {"prod"}
  BadSelectors = {}
  GRs <- ClaimGRs
  Versions = {"v1"}
  InternalSchema <- NoInternal
  BindingsGR = "apibindings"
  SlicesGR = "slices"
  BindingVersions = {"v1"}
  SliceVersion = "v1"
  ClusterOrder <- ClustersAscend
  NameOrder <- NamesAscend
  DefIds = {1, 2, 3, 4, 5, 6, 7, 8, 9, 10, 11, 12}
  MaxChanges = 1
  Relists = FALSE
  Resyncs = FALSE
  Failures = FALSE
  Stops = FALSE
  None = None
  NoKey = NoKey
  NoIdentity = NoIdentity
  NoUID = NoUID
  NoSelector = NoSelector
  NoClaim = NoClaim
  NoDef = NoDef
  NoSet = NoSet
  Nil = Nil
INVARIANTS
  ClaimsDeterministic
CHECK_DEADLOCK FALSE
