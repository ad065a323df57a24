--------------------------- MODULE APIReconciler ---------------------------
(***************************************************************************)
(* The controller of the filtered-apiexport virtual workspace              *)
(* (internal/virtual/filteredapiexport/controllers/apireconciler).  It     *)
(* watches FilteredAPIExportEndpointSlices, APIExports and                 *)
(* APIResourceSchemas through informers and keeps apiSets, the map from an *)
(* API domain (one slice) to the API definitions the virtual workspace     *)
(* serves for it.                                                          *)
(*                                                                         *)
(* The actors are the control plane that changes objects, the informers    *)
(* that deliver notifications to the event handlers, the rate-limited work *)
(* queue, the one worker goroutine, and the goroutine in Start that tears  *)
(* everything down when the process stops.  Informer caches are written    *)
(* before their notification is delivered, and the worker reads them one   *)
(* lister call at a time, so every step below may be separated from the    *)
(* next one by a change of any cache.                                      *)
(***************************************************************************)
EXTENDS Naturals, Sequences, FiniteSets, Functions

CONSTANTS
  Clusters,         \* logical cluster names
  SliceNames,       \* names of FilteredAPIExportEndpointSlices
  ExportNames,      \* names of APIExports
  SchemaNames,      \* names of APIResourceSchemas
  SliceCatalog,     \* [SliceKeys -> SUBSET (Slice \cup {None})]: what a
                    \* slice's informer store may hold; None: no object
  ExportCatalog,    \* [ExportKeys -> SUBSET (Export \cup {None})]
  SchemaCatalog,    \* [SchemaKeys -> SUBSET (Schema \cup {None})]
  Paths,            \* values of spec.export.path; a cluster name or another path
  Identities,       \* identity hashes
  UIDs,             \* schema UIDs; NoUID is that of the embedded schemas
  Selectors,        \* object selectors of slices
  BadSelectors,     \* those metav1.LabelSelectorAsSelector rejects
  GRs,              \* group-resources
  Versions,         \* API versions
  InternalSchema,   \* [InternalGRs -> Schema \cup {None}]: answers to claims
                    \* that need no export: built-in APIs, kcp's own groups
  BindingsGR,       \* apibindings.apis.kcp.io
  SlicesGR,         \* filteredapiexportendpointslices.filteredvw.kcp.io
  BindingVersions,  \* versions in which apibindings are always served
  SliceVersion,     \* version in which slices are always served
  ClusterOrder,     \* the string order on Clusters, a set of pairs
  NameOrder,        \* the string order on ExportNames, a set of pairs
  DefIds,           \* identities (pointers) of API definitions
  MaxChanges,       \* bound on the changes and failures of a behaviour
  Relists,          \* may a watch be lost and the informer list again?
  Resyncs,          \* does the periodic resync run?
  Failures,         \* may creating a definition fail, or the process crash?
  Stops,            \* may the process be asked to stop?
  None, NoKey, NoIdentity, NoUID, NoSelector, NoClaim, NoDef, NoSet, Nil

SliceKeys  == Clusters \X SliceNames
ExportKeys == Clusters \X ExportNames
SchemaKeys == Clusters \X SchemaNames
GVRs       == GRs \X Versions
InternalGRs == DOMAIN InternalSchema

Slice  == [path : Paths, name : ExportNames, selector : Selectors]
Claim  == [gr : GRs, identity : Identities \cup {NoIdentity}]
Export == [identity : Identities \cup {NoIdentity},
           resources : Seq(SchemaNames), claims : Seq(Claim)]
Schema == [uid : UIDs \cup {NoUID}, gr : GRs, served : SUBSET Versions]

(* apiResourceSchemaApiDefinition.  "owner" is its IdentityHash field, the *)
(* identity of the slice's export; "identity" is the hash requests are     *)
(* forwarded with; selector and claim are the label requirements.          *)
Def == [id : DefIds \cup {Nil}, uid : UIDs \cup {NoUID},
        owner : Identities \cup {NoIdentity},
        identity : Identities \cup {NoIdentity},
        selector : Selectors \cup {NoSelector}, claim : Claim \cup {NoClaim}]

DefSet    == [GVRs -> Def \cup {NoDef}]
EmptySet  == [g \in GVRs |-> NoDef]
NoSchemas == [g \in GRs |-> None]
NoClaims  == [g \in GRs |-> NoClaim]

FallbackGVRs == ({BindingsGR} \X BindingVersions) \cup {<<SlicesGR, SliceVersion>>}

(* A notification an informer still has to hand to the event handlers.     *)
(* "tomb" marks a deletion found by a new list (DeletedFinalStateUnknown). *)
Event == [kind : {"slice"}, key : SliceKeys, obj : Slice, tomb : BOOLEAN]
         \cup [kind : {"export"}, key : ExportKeys, tomb : BOOLEAN]
         \cup [kind : {"schema"}, key : SchemaKeys, tomb : BOOLEAN]

PCs == {"idle", "slice", "export", "drop", "schemas", "claims", "candidates",
        "build", "fallback", "cleanup"}

ASSUME SentinelAssumption ==
  /\ None \notin Slice \cup Export \cup Schema
  /\ NoKey \notin SliceKeys
  /\ NoDef \notin Def
  /\ NoDef \notin DefIds
  /\ NoSet \notin DefSet /\ NoSet \notin [GVRs -> DefIds \cup {NoDef}]
  /\ NoIdentity \notin Identities
  /\ Nil \notin DefIds

ASSUME CatalogAssumption ==
  /\ SliceCatalog \in [SliceKeys -> SUBSET (Slice \cup {None})]
  /\ ExportCatalog \in [ExportKeys -> SUBSET (Export \cup {None})]
  /\ SchemaCatalog \in [SchemaKeys -> SUBSET (Schema \cup {None})]

ASSUME SchemaAssumption ==
  /\ InternalGRs \subseteq GRs
  /\ InternalSchema \in [InternalGRs -> Schema \cup {None}]
  /\ BindingsGR \in GRs /\ SlicesGR \in GRs
  /\ BindingVersions \subseteq Versions /\ SliceVersion \in Versions
  /\ BadSelectors \subseteq Selectors

(* An informer store holds finitely many objects.                          *)
ASSUME StoreAssumption == IsFiniteSet(ExportKeys)

ASSUME BoundAssumption == MaxChanges \in Nat

VARIABLES
  sliceCache,  \* informer store of the slices, None where there is no object
  exportCache, \* informer store of the exports
  schemaCache, \* informer store of the schemas
  pending,     \* notifications not yet handled
  dirty,       \* keys waiting in the work queue
  delayed,     \* keys waiting out their rate limit
  pc,          \* where the worker is
  key,         \* the key it processes
  slice,       \* reconcile's filteredSlice
  export,      \* reconcile's apiExport
  exports,     \* exports whose schemas are still to be read, with their keys
  found,       \* schemas getSchemasFromAPIExport has found for the first one
  next,        \* the resource of that export it looks up next
  claimsLeft,  \* permission claims still to be looked at
  schemas,     \* apiResourceSchemas
  claims,      \* claims
  todo,        \* what the current loop still has to visit
  newSet,      \* newSet
  apiSets,     \* the map the virtual workspace serves from
  live,        \* created definitions whose context is not cancelled
  phase,       \* of Start: running, tornDown, shutDown
  budget       \* changes and failures the behaviour may still see

caches == <<sliceCache, exportCache, schemaCache>>
reading == <<exports, found, next>>
locals == <<pc, key, slice, export, reading, claimsLeft, schemas, claims, todo, newSet>>
vars   == <<caches, pending, dirty, delayed, locals, apiSets, live, phase, budget>>

-----------------------------------------------------------------------------
(* What the listers and indexers answer.                                   *)

GetAPIExport(c, n) == IF <<c, n>> \in ExportKeys THEN exportCache[<<c, n>>] ELSE None

SlicesReferring(c, n) ==
  {k \in SliceKeys : /\ k[1] = c
                     /\ sliceCache[k] # None
                     /\ sliceCache[k].name = n}

APIExportsByClaimedIdentity(i) ==
  {e \in ExportKeys : /\ exportCache[e] # None
                      /\ \E c \in Range(exportCache[e].claims) : c.identity = i}

APIExportsByIdentity(i) ==
  {e \in ExportKeys : exportCache[e] # None /\ exportCache[e].identity = i}

(* The comparator reconcile hands to sort.Slice, and the orders the sort   *)
(* may leave the exports in: up to twelve elements it sorts by insertion,  *)
(* whose results are the sequences without an adjacent inversion.          *)
Before(a, b) == <<a[2], b[2]>> \in NameOrder /\ <<a[1], b[1]>> \in ClusterOrder

SortedOrders(S) ==
  {p \in Bijection(1..Cardinality(S), S) :
     \A i \in 1..Cardinality(S)-1 : ~Before(p[i+1], p[i])}

-----------------------------------------------------------------------------
(* The event handlers: the keys each of them adds to the queue.            *)

(* Mutant: the exports that claim from this one are not looked for.        *)
KeysForSliceAlone(k, s) == {k}

(* Mutant: the handler gets the slice from the lister, and gives up when   *)
(* it has been deleted.                                                    *)
KeysForCachedSlice(k, s) == IF sliceCache[k] = None THEN {} ELSE {k}

(* enqueueFilteredAPIExportEndpointSlice for the slice object s of key k   *)
KeysForSlice(k, s) ==
  LET x == GetAPIExport(s.path, s.name)
  IN  {k} \cup IF x = None \/ x.identity = NoIdentity THEN {}
               ELSE UNION {SlicesReferring(o[1], o[2]) :
                             o \in APIExportsByClaimedIdentity(x.identity)}

(* Mutant: the handler gets the export from the lister first, and gives up *)
(* when it has been deleted.                                               *)
KeysForCachedExport(e) ==
  IF exportCache[e] = None THEN {}
  ELSE UNION {KeysForSlice(k, sliceCache[k]) : k \in SlicesReferring(e[1], e[2])}

(* enqueueAPIExport *)
KeysForExport(e) ==
  UNION {KeysForSlice(k, sliceCache[k]) : k \in SlicesReferring(e[1], e[2])}

(* enqueueAPIResourceSchema goes through the slices of the schema's cluster *)
(* in no particular order and gives up at the first whose export it cannot  *)
(* get, so that any of the others may or may not have been enqueued.        *)
KeysForSchema(s) ==
  LET Listed == {k \in SliceKeys : k[1] = s[1] /\ sliceCache[k] # None}
      ExportOf(k) == GetAPIExport(sliceCache[k].path, sliceCache[k].name)
      Broken == {k \in Listed : ExportOf(k) = None}
      Using  == {k \in Listed \ Broken : s[2] \in Range(ExportOf(k).resources)}
      Keys(S) == UNION {KeysForSlice(k, sliceCache[k]) : k \in S}
  IN  IF Broken = {} THEN {Keys(Using)} ELSE {Keys(S) : S \in SUBSET Using}

(* workqueue.Add: a queue that is shut down takes nothing.                 *)
Enqueue(K) == dirty' = IF phase = "shutDown" THEN dirty ELSE dirty \cup K

-----------------------------------------------------------------------------
(* Start of the process, and what a crash or panic leads to: the informers *)
(* list again and announce every object as added, all else is lost.        *)

AddsForAll(sc, xc, hc) ==
  {[kind |-> "slice", key |-> k, obj |-> sc[k], tomb |-> FALSE] :
     k \in {j \in SliceKeys : sc[j] # None}}
  \cup {[kind |-> "export", key |-> e, tomb |-> FALSE] :
          e \in {j \in ExportKeys : xc[j] # None}}
  \cup {[kind |-> "schema", key |-> s, tomb |-> FALSE] :
          s \in {j \in SchemaKeys : hc[j] # None}}

Init ==
  /\ sliceCache \in {f \in [SliceKeys -> UNION Range(SliceCatalog)] :
                       \A k \in SliceKeys : f[k] \in SliceCatalog[k]}
  /\ exportCache \in {f \in [ExportKeys -> UNION Range(ExportCatalog)] :
                       \A e \in ExportKeys : f[e] \in ExportCatalog[e]}
  /\ schemaCache \in {f \in [SchemaKeys -> UNION Range(SchemaCatalog)] :
                       \A s \in SchemaKeys : f[s] \in SchemaCatalog[s]}
  /\ pending = AddsForAll(sliceCache, exportCache, schemaCache)
  /\ dirty = {} /\ delayed = {}
  /\ pc = "idle" /\ key = NoKey /\ slice = None /\ export = None
  /\ exports = <<>> /\ found = NoSchemas /\ next = 1
  /\ claimsLeft = <<>> /\ schemas = NoSchemas /\ claims = NoClaims
  /\ todo = {} /\ newSet = EmptySet
  /\ apiSets = [k \in SliceKeys |-> NoSet]
  /\ live = {}
  /\ phase = "running"
  /\ budget = MaxChanges

NothingToRead == exports' = <<>> /\ found' = NoSchemas /\ next' = 1

ResetLocals ==
  /\ pc' = "idle" /\ key' = NoKey /\ slice' = None /\ export' = None
  /\ NothingToRead
  /\ claimsLeft' = <<>> /\ schemas' = NoSchemas /\ claims' = NoClaims
  /\ todo' = {} /\ newSet' = EmptySet

Restart ==
  /\ pending' = AddsForAll(sliceCache, exportCache, schemaCache)
  /\ dirty' = {} /\ delayed' = {}
  /\ ResetLocals
  /\ apiSets' = [k \in SliceKeys |-> NoSet]
  /\ live' = {}
  /\ phase' = "running"
  /\ UNCHANGED caches

-----------------------------------------------------------------------------
(* The control plane changes an object: the informer's store is updated    *)
(* and the notification queued.  spec.export and spec.objectSelector are   *)
(* immutable, so an object of another spec follows only a deletion; a new  *)
(* list after a lost watch may show both as one update, and a deletion     *)
(* found that way comes as a tombstone.                                    *)

Change == budget > 0 /\ budget' = budget - 1

SetSlice(k) ==
  \E s \in SliceCatalog[k], relist \in {FALSE, Relists} :
    /\ Change
    /\ s # sliceCache[k]
    /\ sliceCache[k] = None \/ s = None \/ relist
    /\ sliceCache' = [sliceCache EXCEPT ![k] = s]
    /\ pending' = pending \cup
         {[kind |-> "slice", key |-> k, tomb |-> s = None /\ relist,
           obj |-> IF s = None THEN sliceCache[k] ELSE s]}
    /\ UNCHANGED <<exportCache, schemaCache, dirty, delayed, locals, apiSets, live, phase>>

SetExport(e) ==
  \E x \in ExportCatalog[e], relist \in {FALSE, Relists} :
    /\ Change
    /\ x # exportCache[e]
    /\ exportCache' = [exportCache EXCEPT ![e] = x]
    /\ pending' = pending \cup {[kind |-> "export", key |-> e, tomb |-> x = None /\ relist]}
    /\ UNCHANGED <<sliceCache, schemaCache, dirty, delayed, locals, apiSets, live, phase>>

(* The schema handlers have no update function: a replacement that a new   *)
(* list shows as one update is handled by nobody.                          *)
SetSchema(s) ==
  \E h \in SchemaCatalog[s], relist \in {FALSE, Relists} :
    /\ Change
    /\ h # schemaCache[s]
    /\ schemaCache[s] = None \/ h = None \/ relist
    /\ schemaCache' = [schemaCache EXCEPT ![s] = h]
    /\ pending' = IF schemaCache[s] # None /\ h # None THEN pending
                  ELSE pending \cup
                         {[kind |-> "schema", key |-> s, tomb |-> h = None /\ relist]}
    /\ UNCHANGED <<sliceCache, exportCache, dirty, delayed, locals, apiSets, live, phase>>

(* The ten-minute resync repeats every slice and export as an update, the  *)
(* schemas being wrapped in events.WithoutSyncs.                           *)
Resync ==
  /\ Resyncs /\ pending = {}
  /\ pending' = {n \in AddsForAll(sliceCache, exportCache, schemaCache) : n.kind # "schema"}
  /\ UNCHANGED <<caches, dirty, delayed, locals, apiSets, live, phase, budget>>

(* The process is killed, as by a node failure; its Deployment restarts it. *)
Crash == Failures /\ Change /\ Restart

-----------------------------------------------------------------------------
(* The informers run the handlers.  Each casts its argument to the object  *)
(* type and panics on a tombstone, which ends the process.  The handlers   *)
(* look several objects up and only ever add keys to the queue; here they  *)
(* do so at one moment: what changes between two of their lookups is       *)
(* announced by a notification of its own.                                 *)

Deliver(n) ==
  /\ ~n.tomb
  /\ pending' = pending \ {n}
  /\ \/ n.kind = "slice"  /\ Enqueue(KeysForSlice(n.key, n.obj))
     \/ n.kind = "export" /\ Enqueue(KeysForExport(n.key))
     \/ n.kind = "schema" /\ \E K \in KeysForSchema(n.key) : Enqueue(K)
  /\ UNCHANGED <<caches, delayed, locals, apiSets, live, phase, budget>>

DeliverTombstone(n) == n.tomb /\ Restart /\ UNCHANGED budget

(* A rate limit of the queue has passed.                                   *)
RateLimited(k) ==
  /\ k \in delayed
  /\ delayed' = delayed \ {k}
  /\ Enqueue({k})
  /\ UNCHANGED <<caches, pending, locals, apiSets, live, phase, budget>>

-----------------------------------------------------------------------------
(* The worker: processNextWorkItem, process and reconcile.                 *)

Unchanged == UNCHANGED <<caches, pending, phase>>

Get(k) ==
  /\ pc = "idle" /\ k \in dirty
  /\ dirty' = dirty \ {k}
  /\ pc' = "slice" /\ key' = k
  /\ UNCHANGED <<delayed, slice, export, reading, claimsLeft, schemas, claims,
                 todo, newSet, apiSets, live, budget>>
  /\ Unchanged

GetSlice ==
  /\ pc = "slice"
  /\ slice' = sliceCache[key]
  /\ pc' = IF sliceCache[key] = None THEN "drop" ELSE "export"
  /\ UNCHANGED <<dirty, delayed, key, export, reading, claimsLeft, schemas, claims,
                 todo, newSet, apiSets, live, budget>>
  /\ Unchanged

(* Mutant: an export that has no identity yet counts as one to serve.      *)
NoExport(x) == x = None

(* The condition under which reconcile removes the domain.                 *)
NothingToServe(x) == x = None \/ x.identity = NoIdentity

(* The export is looked up in the cluster of the slice, not at its path.   *)
GetExport ==
  LET e == <<key[1], slice.name>>
      x == exportCache[e]
  IN  /\ pc = "export"
      /\ export' = x
      /\ IF NothingToServe(x) THEN pc' = "drop" /\ UNCHANGED exports
         ELSE pc' = "schemas" /\ exports' = <<<<e, x>>>>
      /\ UNCHANGED <<dirty, delayed, key, slice, found, next, claimsLeft, schemas, claims,
                     todo, newSet, apiSets, live, budget>>
      /\ Unchanged

(* The domain is removed; its definitions are not torn down.               *)
Drop ==
  /\ pc = "drop"
  /\ apiSets' = [apiSets EXCEPT ![key] = NoSet]
  /\ ResetLocals
  /\ UNCHANGED <<dirty, delayed, live, budget>>
  /\ Unchanged

(* getSchemasFromAPIExport, one resource of the export at a time: a schema *)
(* that is missing is skipped.                                             *)
AllRead == next > Len(Head(exports)[2].resources)

GetSchema ==
  LET e == Head(exports)[1]
      h == schemaCache[<<e[1], Head(exports)[2].resources[next]>>]
  IN  /\ pc \in {"schemas", "candidates"} /\ exports # <<>> /\ ~AllRead
      /\ found' = IF h = None THEN found ELSE [found EXCEPT ![h.gr] = h]
      /\ next' = next + 1
      /\ UNCHANGED <<dirty, delayed, pc, key, slice, export, exports, claimsLeft, schemas,
                     claims, todo, newSet, apiSets, live, budget>>
      /\ Unchanged

StartClaims ==
  /\ pc = "schemas" /\ AllRead
  /\ pc' = "claims"
  /\ schemas' = found
  /\ claimsLeft' = export.claims
  /\ NothingToRead
  /\ UNCHANGED <<dirty, delayed, key, slice, export, claims, todo, newSet, apiSets, live, budget>>
  /\ Unchanged

(* The claim c is answered by an export with the claimed identity.         *)
AnsweredByExport(c) ==
  schemas[c.gr] = None /\ c.gr \notin InternalGRs /\ c.identity # NoIdentity

(* Otherwise by a built-in schema, or it is passed over: shadowed, unknown *)
(* or without an identity.                                                 *)
InternalAnswer(c) ==
  IF schemas[c.gr] = None /\ c.gr \in InternalGRs THEN InternalSchema[c.gr] ELSE None

AnswerWith(c, h) ==
  IF h = None THEN UNCHANGED <<schemas, claims>>
  ELSE /\ schemas' = [schemas EXCEPT ![c.gr] = h]
       /\ claims' = [claims EXCEPT ![c.gr] = c]

ResolveClaim ==
  /\ pc = "claims" /\ claimsLeft # <<>>
  /\ ~AnsweredByExport(Head(claimsLeft))
  /\ AnswerWith(Head(claimsLeft), InternalAnswer(Head(claimsLeft)))
  /\ claimsLeft' = Tail(claimsLeft)
  /\ UNCHANGED <<dirty, delayed, pc, key, slice, export, reading, todo, newSet, apiSets,
                 live, budget>>
  /\ Unchanged

(* ByIndex hands out the exports as they are, in any order; then the sort. *)
GetCandidates ==
  /\ pc = "claims" /\ claimsLeft # <<>>
  /\ AnsweredByExport(Head(claimsLeft))
  /\ \E p \in SortedOrders(APIExportsByIdentity(Head(claimsLeft).identity)) :
       exports' = [i \in DOMAIN p |-> <<p[i], exportCache[p[i]]>>]
  /\ pc' = "candidates"
  /\ UNCHANGED <<dirty, delayed, key, slice, export, found, next, claimsLeft, schemas,
                 claims, todo, newSet, apiSets, live, budget>>
  /\ Unchanged

(* A match of a later candidate replaces that of an earlier one.           *)
MatchCandidate ==
  /\ pc = "candidates" /\ exports # <<>> /\ AllRead
  /\ AnswerWith(Head(claimsLeft), found[Head(claimsLeft).gr])
  /\ exports' = Tail(exports) /\ found' = NoSchemas /\ next' = 1
  /\ UNCHANGED <<dirty, delayed, pc, key, slice, export, claimsLeft, todo, newSet, apiSets,
                 live, budget>>
  /\ Unchanged

NextClaim ==
  /\ pc = "candidates" /\ exports = <<>>
  /\ pc' = "claims"
  /\ claimsLeft' = Tail(claimsLeft)
  /\ UNCHANGED <<dirty, delayed, key, slice, export, reading, schemas, claims, todo, newSet,
                 apiSets, live, budget>>
  /\ Unchanged

-----------------------------------------------------------------------------
(* Building newSet, one served version of one schema at a time.            *)

(* Mutant: sets are looked up by cluster, so that its slices share them.   *)
oldSetOfCluster ==
  LET K == {k \in SliceKeys : k[1] = key[1] /\ apiSets[k] # NoSet}
  IN  IF K = {} THEN EmptySet ELSE apiSets[CHOOSE k \in K : TRUE]

oldSet == IF apiSets[key] = NoSet THEN EmptySet ELSE apiSets[key]

StartBuild ==
  /\ pc = "claims" /\ claimsLeft = <<>>
  /\ pc' = "build"
  /\ todo' = {g \in GVRs : schemas[g[1]] # None /\ g[2] \in schemas[g[1]].served}
  /\ UNCHANGED <<dirty, delayed, key, slice, export, reading, claimsLeft, schemas,
                 claims, newSet, apiSets, live, budget>>
  /\ Unchanged

(* The loop visits the schema found under t[1] in its version t[2].        *)
GVROf(t) == <<schemas[t[1]].gr, t[2]>>

(* Mutant: a schema that was deleted and created again passes for the same. *)
MayPreserveAnyUID(t) ==
  LET old == oldSet[GVROf(t)] IN old # NoDef /\ old.owner = export.identity

(* Mutant: the owner is expected to be empty, as it is in the fallbacks, so *)
(* that no definition built from a schema is ever preserved.               *)
MayPreserveUnowned(t) ==
  LET old == oldSet[GVROf(t)]
  IN  old # NoDef /\ old.uid = schemas[t[1]].uid /\ old.owner = NoIdentity

MayPreserve(t) ==
  LET old == oldSet[GVROf(t)]
  IN  old # NoDef /\ old.uid = schemas[t[1]].uid /\ old.owner = export.identity

(* identities[gr] *)
IdentityOf(g) ==
  IF claims[g] # NoClaim THEN (IF g \in InternalGRs THEN NoIdentity ELSE claims[g].identity)
  ELSE IF schemas[g] # None THEN export.identity ELSE NoIdentity

Preserve(t) ==
  /\ pc = "build" /\ t \in todo /\ MayPreserve(t)
  /\ newSet' = [newSet EXCEPT ![GVROf(t)] = oldSet[GVROf(t)]]
  /\ todo' = todo \ {t}
  /\ UNCHANGED <<dirty, delayed, pc, key, slice, export, reading, claimsLeft, schemas,
                 claims, apiSets, live, budget>>
  /\ Unchanged

IdsOf(set) == {set[g].id : g \in {h \in GVRs : set[h] # NoDef}}
ServedIds == UNION {IdsOf(apiSets[k]) : k \in {j \in SliceKeys : apiSets[j] # NoSet}}
FreeIds == DefIds \ (live \cup ServedIds \cup IdsOf(newSet))
FreshId == CHOOSE d \in FreeIds : TRUE

Create(t) ==
  LET g == GVROf(t)
  IN  /\ pc = "build" /\ t \in todo /\ ~MayPreserve(t)
      /\ slice.selector \notin BadSelectors
      /\ FreeIds # {}
      /\ newSet' = [newSet EXCEPT ![g] =
           [id |-> FreshId, uid |-> schemas[t[1]].uid, owner |-> export.identity,
            identity |-> IdentityOf(g[1]), selector |-> slice.selector,
            claim |-> claims[g[1]]]]
      /\ live' = live \cup {FreshId}
      /\ todo' = todo \ {t}
      /\ UNCHANGED <<dirty, delayed, pc, key, slice, export, reading, claimsLeft, schemas, claims,
                     apiSets, budget>>
      /\ Unchanged

(* createAPIDefinition fails: the error is logged, the version left out.   *)
CreateFails(t) ==
  /\ pc = "build" /\ t \in todo /\ ~MayPreserve(t)
  /\ slice.selector \notin BadSelectors
  /\ Failures /\ Change
  /\ todo' = todo \ {t}
  /\ UNCHANGED <<dirty, delayed, pc, key, slice, export, reading, claimsLeft, schemas,
                 claims, newSet, apiSets, live>>
  /\ Unchanged

(* The selector cannot be converted: reconcile returns the error and the   *)
(* key is added again when its rate limit has passed.                      *)
SelectorError(t) ==
  /\ pc = "build" /\ t \in todo /\ ~MayPreserve(t)
  /\ slice.selector \in BadSelectors
  /\ delayed' = IF phase = "shutDown" THEN delayed ELSE delayed \cup {key}
  /\ ResetLocals
  /\ UNCHANGED <<dirty, apiSets, live, budget>>
  /\ Unchanged

(* claimsAPIBindings and claimFilteredAPIExportES stand for the two claims *)
(* that make the fallback unnecessary.                                     *)
StartFallback ==
  /\ pc = "build" /\ todo = {}
  /\ pc' = "fallback"
  /\ todo' = {g \in FallbackGVRs : claims[g[1]] = NoClaim}
  /\ UNCHANGED <<dirty, delayed, key, slice, export, reading, claimsLeft, schemas,
                 claims, newSet, apiSets, live, budget>>
  /\ Unchanged

FallbackDef(id) ==
  [id |-> id, uid |-> NoUID, owner |-> NoIdentity, identity |-> NoIdentity,
   selector |-> NoSelector, claim |-> NoClaim]

(* createAPIBindingAPIDefinition, createFilteredAPIExportESAPIDefinition:  *)
(* made anew in every pass, over whatever the loop above has built.        *)
Fallback(g) ==
  /\ pc = "fallback" /\ g \in todo
  /\ FreeIds # {}
  /\ newSet' = [newSet EXCEPT ![g] = FallbackDef(FreshId)]
  /\ todo' = todo \ {g}
  /\ UNCHANGED <<dirty, delayed, pc, key, slice, export, reading, claimsLeft, schemas,
                 claims, apiSets, live, budget>>
  /\ Unchanged

(* On an error the nil definition is stored all the same.                  *)
FallbackFails(g) ==
  /\ pc = "fallback" /\ g \in todo
  /\ Failures /\ Change
  /\ newSet' = [newSet EXCEPT ![g] = FallbackDef(Nil)]
  /\ todo' = todo \ {g}
  /\ UNCHANGED <<dirty, delayed, pc, key, slice, export, reading, claimsLeft, schemas,
                 claims, apiSets, live>>
  /\ Unchanged

-----------------------------------------------------------------------------
(* Tearing down what newSet does not keep, then serving newSet.            *)

(* Mutant: preserved definitions are not spared.                           *)
ReplacesAny(g) == oldSet[g] # NoDef

Replaces(g) == oldSet[g] # NoDef /\ (newSet[g] = NoDef \/ newSet[g].id # oldSet[g].id)

StartCleanup ==
  /\ pc = "fallback" /\ todo = {}
  /\ pc' = "cleanup"
  /\ todo' = {g \in GVRs : Replaces(g)}
  /\ UNCHANGED <<dirty, delayed, key, slice, export, reading, claimsLeft, schemas,
                 claims, newSet, apiSets, live, budget>>
  /\ Unchanged

TearDown(g) ==
  /\ pc = "cleanup" /\ g \in todo
  /\ oldSet[g].id # Nil
  /\ live' = live \ {oldSet[g].id}
  /\ todo' = todo \ {g}
  /\ UNCHANGED <<dirty, delayed, pc, key, slice, export, reading, claimsLeft, schemas,
                 claims, newSet, apiSets, budget>>
  /\ Unchanged

(* TearDown of a nil definition panics.                                    *)
TearDownNil(g) ==
  /\ pc = "cleanup" /\ g \in todo
  /\ oldSet[g].id = Nil
  /\ Restart
  /\ UNCHANGED budget

Store ==
  /\ pc = "cleanup" /\ todo = {}
  /\ apiSets' = [apiSets EXCEPT ![key] = newSet]
  /\ ResetLocals
  /\ UNCHANGED <<dirty, delayed, live, budget>>
  /\ Unchanged

-----------------------------------------------------------------------------
(* Start after ctx.Done(): the deferred functions run, last one first.     *)

StopTearDown ==
  /\ Stops /\ phase = "running" /\ Nil \notin ServedIds
  /\ phase' = "tornDown"
  /\ live' = live \ ServedIds
  /\ UNCHANGED <<caches, pending, dirty, delayed, locals, apiSets, budget>>

StopPanics ==
  /\ Stops /\ phase = "running" /\ Nil \in ServedIds
  /\ Restart
  /\ UNCHANGED budget

(* Mutant: Start returns without shutting the queue down.                  *)
QueueStaysOpen == phase = "tornDown" /\ UNCHANGED vars

QueueShutDown ==
  /\ phase = "tornDown"
  /\ phase' = "shutDown"
  /\ delayed' = {}
  /\ UNCHANGED <<caches, pending, dirty, locals, apiSets, live, budget>>

-----------------------------------------------------------------------------
Environment ==
  \/ \E k \in SliceKeys : SetSlice(k)
  \/ \E e \in ExportKeys : SetExport(e)
  \/ \E s \in SchemaKeys : SetSchema(s)
  \/ Crash

Informers == \E n \in pending : Deliver(n) \/ DeliverTombstone(n)

(* The schemas of the export, then those of its claims.                    *)
Resolve ==
  \/ GetSchema \/ StartClaims
  \/ ResolveClaim \/ GetCandidates \/ MatchCandidate \/ NextClaim

Worker ==
  \/ GetSlice \/ GetExport \/ Drop
  \/ Resolve \/ StartBuild
  \/ \E t \in todo : Preserve(t) \/ Create(t) \/ CreateFails(t) \/ SelectorError(t)
  \/ StartFallback
  \/ \E g \in todo : Fallback(g) \/ FallbackFails(g)
  \/ StartCleanup
  \/ \E g \in todo : TearDown(g) \/ TearDownNil(g)
  \/ Store

Next ==
  \/ Environment
  \/ Informers
  \/ Resync
  \/ \E k \in SliceKeys : RateLimited(k) \/ Get(k)
  \/ Worker
  \/ StopTearDown \/ StopPanics \/ QueueShutDown

Spec == Init /\ [][Next]_vars

(* The informers and the worker keep running, every rate limit passes and  *)
(* the resync comes round again.  Each key is strongly fair: the queue is  *)
(* first in, first out, and the worker returns to it.                      *)
Fairness ==
  /\ WF_vars(Informers) /\ WF_vars(Worker) /\ WF_vars(Resync)
  /\ WF_vars(QueueShutDown)
  /\ \A k \in SliceKeys : WF_vars(RateLimited(k)) /\ SF_vars(Get(k))

FairSpec == Spec /\ Fairness

-----------------------------------------------------------------------------
(* Correctness.                                                            *)

(* Every variable holds a value of its Go type: caches hold objects of     *)
(* their kind, the worker's locals match its place in reconcile.           *)
TypeOK ==
  /\ sliceCache \in [SliceKeys -> Slice \cup {None}]
  /\ exportCache \in [ExportKeys -> Export \cup {None}]
  /\ schemaCache \in [SchemaKeys -> Schema \cup {None}]
  /\ pending \subseteq Event
  /\ dirty \subseteq SliceKeys
  /\ delayed \subseteq SliceKeys
  /\ pc \in PCs
  /\ key \in SliceKeys \cup {NoKey}
  /\ (key = NoKey) = (pc = "idle")
  /\ slice \in Slice \cup {None}
  /\ pc \notin {"idle", "slice", "drop"} => slice # None
  /\ export \in Export \cup {None}
  /\ pc \notin {"idle", "slice", "export", "drop"} =>
       export # None /\ export.identity # NoIdentity
  /\ exports \in Seq(ExportKeys \X Export)
  /\ pc = "schemas" => exports # <<>>
  /\ found \in [GRs -> Schema \cup {None}]
  /\ next \in Nat \ {0}
  /\ claimsLeft \in Seq(Claim)
  /\ pc = "candidates" => claimsLeft # <<>>
  /\ schemas \in [GRs -> Schema \cup {None}]
  /\ claims \in [GRs -> Claim \cup {NoClaim}]
  /\ todo \subseteq GVRs
  /\ pc = "build" => \A t \in todo : schemas[t[1]] # None
  /\ pc = "cleanup" => \A g \in todo : oldSet[g] # NoDef
  /\ newSet \in DefSet
  /\ apiSets \in [SliceKeys -> DefSet \cup {NoSet}]
  /\ live \subseteq DefIds
  /\ phase \in {"running", "tornDown", "shutDown"}
  /\ budget \in 0..MaxChanges

(* The slice exists, and so does its export, with an identity.             *)
Wanted(k) ==
  /\ sliceCache[k] # None
  /\ exportCache[<<k[1], sliceCache[k].name>>] # None
  /\ exportCache[<<k[1], sliceCache[k].name>>].identity # NoIdentity

CurrentExport(k) == exportCache[<<k[1], sliceCache[k].name>>]

(* Something already under way will make the worker look at k again.       *)
SliceNews(k) == \E n \in pending : n.kind = "slice" /\ n.key = k
ExportNews(k) == /\ sliceCache[k] # None
                 /\ \E n \in pending : /\ n.kind = "export"
                                       /\ n.key = <<k[1], sliceCache[k].name>>
SchemaNews(k) ==
  /\ sliceCache[k] # None /\ CurrentExport(k) # None
  /\ \E n \in pending : /\ n.kind = "schema" /\ n.key[1] = k[1]
                         /\ n.key[2] \in Range(CurrentExport(k).resources)

Disturbed(k) == k \in dirty \/ k \in delayed \/ SliceNews(k) \/ ExportNews(k)
Quiet(k) == ~Disturbed(k) /\ key # k

(* A definition built from a schema, as opposed to a fallback.             *)
Built(d) == d # NoDef /\ d.owner # NoIdentity

(* k is served exactly when it should be, under its export's identity.     *)
InSync(k) ==
  IF Wanted(k)
  THEN /\ apiSets[k] # NoSet
       /\ \A g \in GVRs : Built(apiSets[k][g]) =>
                            apiSets[k][g].owner = CurrentExport(k).identity
  ELSE apiSets[k] = NoSet

(* No lost wake-up: a domain about which nothing is queued, notified or in *)
(* progress is served if and only if its slice and export say so, and only *)
(* under the identity its export has now, whatever order notifications,    *)
(* lister reads and cache writes took, and across restarts.                *)
DomainInSync == phase # "shutDown" => \A k \in SliceKeys : Quiet(k) => InSync(k)

(* What the worker has read for k, its key, still holds.                   *)
ReadsHold(k) ==
  /\ pc \notin {"idle", "slice", "drop"} => slice = sliceCache[k]
  /\ pc \notin {"idle", "slice", "drop", "export"} =>
       Wanted(k) /\ CurrentExport(k).identity = export.identity
  /\ pc = "drop" => ~Wanted(k)

(* What reconcile has read of a slice and its export still holds, or that  *)
(* domain will be looked at again, so that it is safe to store or drop a   *)
(* set on the strength of earlier reads; the set is built for that export. *)
ReadsCurrent ==
  /\ phase # "shutDown" =>
       \A k \in SliceKeys :
         Disturbed(k) \/ (IF k = key THEN ReadsHold(k) ELSE InSync(k))
  /\ \A g \in GVRs : Built(newSet[g]) =>
       pc \in {"build", "fallback", "cleanup"} /\ newSet[g].owner = export.identity

(* What getSchemasFromAPIExport finds in the first n resources of export x *)
(* of cluster c, if nothing changes meanwhile: a later resource with the   *)
(* same group-resource replaces an earlier one, a missing schema is skipped. *)
SchemasUpTo(c, x, n) ==
  LET Read == {i \in DOMAIN x.resources : i <= n}
      At(i) == schemaCache[<<c, x.resources[i]>>]
      Hit(g, i) == At(i) # None /\ At(i).gr = g
      LastHit(g, i) == Hit(g, i) /\ \A j \in Read : Hit(g, j) => j <= i
  IN  [g \in GRs |->
         IF \E i \in Read : LastHit(g, i)
         THEN At(CHOOSE i \in Read : LastHit(g, i)) ELSE None]

SchemasFromAPIExport(c, x) == SchemasUpTo(c, x, Len(x.resources))

(* The resources the export itself declares.                               *)
OwnSchemas(k) == SchemasFromAPIExport(k[1], CurrentExport(k))

Claimed(x, r) == \E i \in DOMAIN x.claims : x.claims[i].gr = r

(* Resources with which a claim of another one is answered: kcp's own      *)
(* schemas are found by their resource, whatever group the claim names.    *)
CrossAnswers ==
  {InternalSchema[r].gr : r \in {q \in InternalGRs : /\ InternalSchema[q] # None
                                                     /\ InternalSchema[q].gr # q}}

(* The places that are filled by nothing but the resource's own schema.    *)
PlainGVRs == {g \in GVRs \ FallbackGVRs : g[1] \notin CrossAnswers}

(* k serves the current schema of each of its export's resources, in each  *)
(* served version, and nothing that is neither declared nor claimed.       *)
SchemasInSync(k) ==
  Wanted(k) =>
    \A g \in PlainGVRs :
      LET h == OwnSchemas(k)[g[1]]
          d == IF apiSets[k] = NoSet THEN NoDef ELSE apiSets[k][g]
          current == h # None /\ g[2] \in h.served
      IN  /\ current => Built(d) /\ d.uid = h.uid
          /\ Built(d) /\ ~Claimed(CurrentExport(k), g[1]) => current /\ d.uid = h.uid

(* The schema handlers wake every slice whose export declares the schema,  *)
(* so once nothing is under way each slice serves its export's current     *)
(* schemas (NewAPIReconciler, "a controller watching APIExports and        *)
(* APIResourceSchemas").                                                   *)
ServedSchemasCurrent ==
  phase # "shutDown" =>
    \A k \in SliceKeys : Quiet(k) /\ ~SchemaNews(k) => SchemasInSync(k)

(* No definition is cancelled while requests are still given it, except    *)
(* between the tear-down of a set and the store of its successor, which    *)
(* reconcile does in that order, and after Start has torn everything down. *)
ServedIsLive ==
  phase = "running" =>
    \A k \in SliceKeys : apiSets[k] # NoSet /\ ~(pc = "cleanup" /\ key = k) =>
      \A g \in GVRs : Built(apiSets[k][g]) => apiSets[k][g].id \in live

(* A definition belongs to one place of one domain: tearing down the old   *)
(* set of a domain never cancels what another domain serves.               *)
OwnedOnce ==
  \A j, k \in SliceKeys : apiSets[j] # NoSet /\ apiSets[k] # NoSet =>
    \A g, h \in GVRs :
      /\ apiSets[j][g] # NoDef /\ apiSets[k][h] # NoDef
      /\ apiSets[j][g].id = apiSets[k][h].id
      /\ apiSets[j][g].id # Nil
      => j = k /\ g = h

(* A pass that finds a definition's schema and identity unchanged keeps    *)
(* the definition itself, so that a resync or an unrelated change never    *)
(* cuts the watches running on it.                                         *)
StableDefinitions ==
  [][\A k \in SliceKeys : apiSets[k] # NoSet /\ apiSets'[k] # NoSet =>
       \A g \in GVRs :
         LET old == apiSets[k][g]
             new == apiSets'[k][g]
         IN  Built(old) /\ Built(new) /\ old.uid = new.uid /\ old.owner = new.owner
               => old = new]_vars

(* What a domain is served, as the virtual workspace may see it: the       *)
(* definitions built from schemas, whose watches a tear-down ends.         *)
ServedAs(k) ==
  IF apiSets[k] = NoSet THEN NoSet
  ELSE [g \in GVRs |-> IF Built(apiSets[k][g]) THEN apiSets[k][g].id ELSE NoDef]

DomainMap == INSTANCE ServedDomains WITH
  Domains <- SliceKeys, Places <- GVRs, Definitions <- DefIds,
  NoDefinition <- NoDef, NotServed <- NoSet, NoDomain <- NoKey,
  served <- [k \in SliceKeys |-> ServedAs(k)], valid <- live,
  replacing <- IF pc = "cleanup" THEN key ELSE NoKey, stopping <- phase # "running"

(* The controller implements ServedDomains: whatever changes, fails or is  *)
(* restarted meanwhile, requests are given definitions that belong to      *)
(* their domain alone and that nobody has cancelled, but for the moment    *)
(* between the tear-down of a set and the store of its successor.          *)
ImplementsDomainMap == DomainMap!Spec

(* Nothing is under way anywhere.                                          *)
Settled == pending = {} /\ dirty = {} /\ delayed = {} /\ pc = "idle" /\ phase = "running"

(* What the exports with the claimed identity offer under the claimed name. *)
Offers(c) ==
  {SchemasFromAPIExport(e[1], exportCache[e])[c.gr] :
     e \in APIExportsByIdentity(c.identity)} \ {None}

(* c is the one claim to its resource that the export of k makes, and one  *)
(* that other exports answer.                                              *)
AsksOthers(k, c) ==
  /\ \A o \in Range(CurrentExport(k).claims) : o.gr = c.gr => o = c
  /\ c.gr \notin InternalGRs /\ c.identity # NoIdentity
  /\ OwnSchemas(k)[c.gr] = None

(* k serves what c claims only from a schema an export with the claimed    *)
(* identity has now, and surely if they all have it.                       *)
ClaimInSync(k, c) ==
  AsksOthers(k, c) =>
    \A v \in Versions : <<c.gr, v>> \in PlainGVRs =>
      LET d == IF apiSets[k] = NoSet THEN NoDef ELSE apiSets[k][<<c.gr, v>>]
      IN  /\ Built(d) => \E h \in Offers(c) : h.uid = d.uid /\ v \in h.served
          /\ (\A h \in Offers(c) : v \in h.served) /\ Offers(c) # {} => Built(d)

ClaimsInSync(k) ==
  Wanted(k) => \A c \in Range(CurrentExport(k).claims) : ClaimInSync(k, c)

(* The exports with the claimed identity have slices of their own.         *)
Attended(c) ==
  \A e \in APIExportsByIdentity(c.identity) : SlicesReferring(e[1], e[2]) # {}

(* When the owner of a claimed resource changes its schema, the slices     *)
(* whose exports claim it are woken as well, through the owner's slices;   *)
(* and if these come later, they make up for what was missed without them. *)
ServedClaimsCurrent ==
  Settled => \A k \in SliceKeys : Wanted(k) =>
               \A c \in Range(CurrentExport(k).claims) : Attended(c) => ClaimInSync(k, c)

(* Whatever notifications were dropped or never sent, the resync makes     *)
(* every domain current once objects stop changing.                        *)
Converges ==
  <>[](\A k \in SliceKeys : InSync(k) /\ SchemasInSync(k) /\ ClaimsInSync(k))

(* Once Start has torn the definitions down, the queue drains and the      *)
(* worker ends, even if a key keeps failing: a queue that is shut down     *)
(* takes no retry.  (Or the process goes down first.)                      *)
StopDrains ==
  phase = "tornDown" ~> \/ phase = "running"
                        \/ phase = "shutDown" /\ dirty = {} /\ delayed = {} /\ pc = "idle"

-----------------------------------------------------------------------------
(* What documentation and comments say and the code does not do.           *)

(* "Objects are filtered at request time based on the configured selector" *)
(* (README.md): a settled domain filters by the selector its slice has.    *)
SelectorCurrent ==
  \A k \in SliceKeys : Quiet(k) /\ Wanted(k) /\ apiSets[k] # NoSet =>
    \A g \in GVRs : Built(apiSets[k][g]) => apiSets[k][g].selector = sliceCache[k].selector

(* "To make it deterministic, we sort the exports" (reconcile): the schema *)
(* a claim gets depends on what the caches hold, and not on the order in   *)
(* which the index lists the exports that have the claimed identity.       *)
Answer(c, p) ==
  LET Match(i) == SchemasFromAPIExport(p[i][1], exportCache[p[i]])[c.gr]
      Last(i) == Match(i) # None /\ \A j \in DOMAIN p : Match(j) # None => j <= i
  IN  IF \E i \in DOMAIN p : Last(i)
      THEN Match(CHOOSE i \in DOMAIN p : Last(i)) ELSE None

ClaimsDeterministic ==
  pc = "claims" /\ claimsLeft # <<>> /\ AnsweredByExport(Head(claimsLeft)) =>
    LET c == Head(claimsLeft)
    IN  \A p, q \in SortedOrders(APIExportsByIdentity(c.identity)) : Answer(c, p) = Answer(c, q)

(* "path is a logical cluster path where the APIExport is defined": a      *)
(* domain is served under the identity of the export at spec.export.path.  *)
ServedExportIsTargeted ==
  Settled => \A k \in SliceKeys : Wanted(k) /\ apiSets[k] # NoSet =>
    LET target == GetAPIExport(sliceCache[k].path, sliceCache[k].name)
    IN  \A g \in GVRs : Built(apiSets[k][g]) =>
          target # None /\ apiSets[k][g].owner = target.identity
=============================================================================
