SPECIFICATION FairSpec
CONSTANTS
  Factories = {"local", "filtered", "cache"}
  Informers = {"slices", "exports", "schemas", "bindings"}
  Callers = {"main", "u"}
  Users = {"u"}
  MainGoroutine = "main"
  NoFactory = NoFactory
  SystemIdentities = "identities"
  Shared = {"filtered"}
  DefaultResync = 10
  CustomResync <- LongResync
  NoInformer = NoInformer
  Slices = "slices"
  Exports = "exports"
  Schemas = "schemas"
  Bindings = "bindings"
  Local = "local"
  Filtered = "filtered"
  Cache = "cache"
  CommandLines <- SomeCommandLines
  Outages = {{}, {"slices"}, {"exports", "schemas"}, {"identities"}}
INVARIANTS
  TypeOK
  WorkersSeeFullCaches
  RequestsSeeFullCaches
  ReadyMeansStarted
  RunsOnce
  ShutdownIsFinal
PROPERTIES
  ComesUp
  GoesDown
CHECK_DEADLOCK FALSE
