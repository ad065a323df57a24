---------------------- MODULE EndpointSliceController ----------------------
(***************************************************************************)
(* The endpoint slice controller (internal/reconciler/endpointslice) and   *)
(* the wait for its caches (internal/reconciler/reconciler.go).  Two       *)
(* workers compute, from the cached slice and the cached APIExports, the   *)
(* condition APIExportValid, and patch it into the slice at the API        *)
(* server.  The slice comes back through the informer's watch.             *)
(*                                                                         *)
(* The cached slice lags behind the API server, a request may take effect  *)
(* after the worker has given up on it, and the process may crash with     *)
(* requests in flight.                                                     *)
(***************************************************************************)
EXTENDS Naturals, Sequences, FiniteSets, Functions

CONSTANTS
  Clusters,         \* logical cluster names
  SliceNames,       \* names of FilteredAPIExportEndpointSlices
  ExportNames,      \* names of APIExports
  Paths,            \* workspace paths, cluster names included
  NoPath,           \* the empty path
  SliceCatalog,     \* [SliceKeys -> SUBSET (ExportBindingReference \cup {None})]:
                    \* what a slice may refer to; None: it may be missing
  ExportCatalog,    \* [ExportKeys -> SUBSET (Export \cup {None})]
  Workers,          \* the numThreads goroutines of Start
  ResourceVersions, \* resource versions of slices at the API server
  MaxChanges,       \* bound on the changes and failures of a behaviour
  Resyncs,          \* does the periodic resync run?
  Failures,         \* may requests time out, or the process crash?
  None, NoKey, NoVersion

SliceKeys  == Clusters \X SliceNames
ExportKeys == Clusters \X ExportNames

ExportBindingReference == [path : Paths \cup {NoPath}, name : ExportNames]

(* An export matters by its name and its path annotation.                  *)
Export == [path : Paths \cup {NoPath}]

(* Status and reason of the condition APIExportValid; Unset: none yet.     *)
Conditions == {"Unset", "True", "APIExportNotFound", "InternalError"}

(* The resource version stands for the UID too: a slice that is deleted    *)
(* and created again has a version no other slice had.                     *)
Slice == [export : ExportBindingReference, rv : ResourceVersions, cond : Conditions]

Event == [kind : {"slice"}, key : SliceKeys]
         \cup [kind : {"export"}, key : ExportKeys, path : Paths \cup {NoPath}]

(* A status patch: rv is its precondition, seen when its verdict was made. *)
Request == [key : SliceKeys, rv : ResourceVersions \cup {NoVersion}, cond : Conditions, seen : 0..MaxChanges]

(* A worker's place in processNextWorkItem and the variables it has there. *)
WorkerState ==
  {s \in [at : {"idle", "slice", "export", "commit", "wait"},
          key : SliceKeys \cup {NoKey}, old : Slice \cup {None},
          cond : Conditions, seen : 0..MaxChanges] :
     /\ s.key = NoKey <=> s.at = "idle"
     /\ s.old = None <=> s.at \in {"idle", "slice"}}

Informers == {"slices", "exports"}

ASSUME KeyAssumption ==
  /\ None \notin ExportBindingReference \cup Export \cup Slice
  /\ NoKey \notin SliceKeys
  /\ NoVersion \notin ResourceVersions
  /\ NoPath \notin Clusters

ASSUME CatalogAssumption ==
  /\ SliceCatalog \in [SliceKeys -> SUBSET (ExportBindingReference \cup {None})]
  /\ ExportCatalog \in [ExportKeys -> SUBSET (Export \cup {None})]

ASSUME BoundAssumption == MaxChanges \in Nat

VARIABLES
  store,      \* the slices at the API server
  watch,      \* their versions the informer has not seen yet
  sliceCache, \* the informer's slices
  exports,    \* the exports, as the informer has them once it is synced
  synced,     \* informers that have listed
  pending,    \* notifications not yet handled
  dirty,      \* keys waiting in the work queue
  delayed,    \* keys waiting out their rate limit
  worker,     \* what each worker does: its place, key, obj and new condition
  late,       \* requests nobody waits for any more
  budget,     \* changes and failures the behaviour may still see
  clock,      \* history: number of changes of exports so far
  basis,      \* history: the time on whose exports a slice's condition rests
  held        \* history: the verdicts right at some time of the slice's life

informed == <<watch, sliceCache, exports, synced, pending>>
queue    == <<dirty, delayed>>
history  == <<clock, basis, held>>
vars     == <<store, informed, queue, worker, late, budget, history>>

Idle == [at |-> "idle", key |-> NoKey, old |-> None, cond |-> "Unset", seen |-> 0]

-----------------------------------------------------------------------------
(* Lookups.                                                                *)

(* indexers.ByPathAndName over IndexByLogicalClusterPathAndName            *)
APIExportsByPathAndName(p, n) ==
  {e \in ExportKeys : exports[e] # None /\ e[2] = n /\ p \in {e[1], exports[e].path}}

(* reconcile: the condition a slice of cluster c that refers to r gets.    *)
Verdict(c, r) ==
  LET path  == IF r.path = NoPath THEN c ELSE r.path
      found == APIExportsByPathAndName(path, r.name)
  IN  IF found = {} THEN "APIExportNotFound"
      ELSE IF Cardinality(found) = 1 THEN "True" ELSE "InternalError"

(* Mutant: only the path of the reference is indexed.                      *)
IndexRemotePath(k) == {<<sliceCache[k].export.path, sliceCache[k].export.name>>}

(* IndexFilteredAPIExportEndpointSliceByAPIExport                          *)
IndexByAPIExport(k) ==
  {<<p, sliceCache[k].export.name>> : p \in ({sliceCache[k].export.path} \ {NoPath}) \cup {k[1]}}

(* enqueueFilteredAPIExportEndpointSlicesForAPIExport for export e, whose  *)
(* path annotation is p                                                    *)
KeysForExport(e, p) ==
  {k \in SliceKeys : /\ sliceCache[k] # None
                     /\ \E q \in ({p} \ {NoPath}) \cup {e[1]} : <<q, e[2]>> \in IndexByAPIExport(k)}

InHand == {worker[w].old : w \in Workers}
KnownSlices ==
  Range(store) \cup Range(sliceCache) \cup (UNION {Range(watch[k]) : k \in SliceKeys}) \cup InHand
VersionsUsed == {s.rv : s \in KnownSlices \ {None}} \cup {r.rv : r \in late}
Unused == ResourceVersions \ VersionsUsed
FreshVersion == CHOOSE v \in Unused : TRUE

-----------------------------------------------------------------------------
Init ==
  /\ exports \in {f \in [ExportKeys -> UNION Range(ExportCatalog)] :
                   \A e \in ExportKeys : f[e] \in ExportCatalog[e]}
  /\ store = [k \in SliceKeys |-> None]
  /\ watch = [k \in SliceKeys |-> <<>>]
  /\ sliceCache = [k \in SliceKeys |-> None]
  /\ synced = {} /\ pending = {} /\ dirty = {} /\ delayed = {}
  /\ worker = [w \in Workers |-> Idle]
  /\ late = {}
  /\ budget = MaxChanges
  /\ clock = 0
  /\ basis = [k \in SliceKeys |-> 0]
  /\ held = [k \in SliceKeys |-> {}]

(* The API server has a new version s of slice k; a watch is told of it.   *)
Publish(k, s) ==
  /\ store' = [store EXCEPT ![k] = s]
  /\ watch' = IF "slices" \in synced THEN [watch EXCEPT ![k] = Append(@, s)] ELSE watch

Change == budget > 0 /\ budget' = budget - 1

CreateSlice(k) ==
  \E r \in SliceCatalog[k] \ {None} :
    /\ store[k] = None /\ Unused # {}
    /\ Change
    /\ Publish(k, [export |-> r, rv |-> FreshVersion, cond |-> "Unset"])
    /\ basis' = [basis EXCEPT ![k] = 0]
    /\ held' = [held EXCEPT ![k] = {Verdict(k[1], r)}]
    /\ UNCHANGED <<sliceCache, exports, synced, pending, queue, worker, late, clock>>

DeleteSlice(k) ==
  /\ store[k] # None /\ None \in SliceCatalog[k]
  /\ Change
  /\ Publish(k, None)
  /\ UNCHANGED <<sliceCache, exports, synced, pending, queue, worker, late, history>>

(* Somebody else writes metadata of the slice: its spec is immutable.      *)
TouchSlice(k) ==
  /\ store[k] # None /\ Unused # {}
  /\ Change
  /\ Publish(k, [store[k] EXCEPT !.rv = FreshVersion])
  /\ UNCHANGED <<sliceCache, exports, synced, pending, queue, worker, late, history>>

(* The export handlers have no update function: an export that gets its    *)
(* path annotation later, or is replaced unseen, is announced to nobody.   *)
SetExport(e) ==
  \E x \in ExportCatalog[e] :
    /\ Change
    /\ x # exports[e]
    /\ exports' = [exports EXCEPT ![e] = x]
    /\ UNCHANGED <<store, watch, sliceCache, synced, queue, worker, late, basis>>
    /\ clock' = clock + 1
    /\ held' = [k \in SliceKeys |-> IF store[k] = None THEN held[k]
                                    ELSE held[k] \cup {Verdict(k[1], store[k].export)'}]
    /\ pending' =
         IF "exports" \notin synced \/ (exports[e] # None /\ x # None) THEN pending
         ELSE pending \cup {[kind |-> "export", key |-> e,
                             path |-> IF x = None THEN exports[e].path ELSE x.path]}

-----------------------------------------------------------------------------
(* Informers and queue.                                                    *)

ListSlices ==
  /\ "slices" \notin synced
  /\ synced' = synced \cup {"slices"}
  /\ sliceCache' = store
  /\ pending' = pending \cup {[kind |-> "slice", key |-> k] : k \in {j \in SliceKeys : store[j] # None}}
  /\ UNCHANGED <<store, watch, exports, queue, worker, late, budget, history>>

ListExports ==
  /\ "exports" \notin synced
  /\ synced' = synced \cup {"exports"}
  /\ pending' = pending \cup {[kind |-> "export", key |-> e, path |-> exports[e].path] :
                               e \in {f \in ExportKeys : exports[f] # None}}
  /\ UNCHANGED <<store, watch, sliceCache, exports, queue, worker, late, budget, history>>

(* The informer sees the next version, or, having lost the watch, the last. *)
Observe(k) ==
  \E i \in {1, Len(watch[k])} :
    /\ watch[k] # <<>>
    /\ sliceCache' = [sliceCache EXCEPT ![k] = watch[k][i]]
    /\ watch' = [watch EXCEPT ![k] = SubSeq(@, i + 1, Len(@))]
    /\ pending' = pending \cup {[kind |-> "slice", key |-> k]}
    /\ UNCHANGED <<store, exports, synced, queue, worker, late, budget, history>>

Resync ==
  /\ Resyncs /\ synced = Informers /\ pending = {}
  /\ pending' = {[kind |-> "slice", key |-> k] : k \in {j \in SliceKeys : sliceCache[j] # None}}
  /\ UNCHANGED <<store, watch, sliceCache, exports, synced, queue, worker, late, budget, history>>

(* workqueue.Add                                                           *)
Enqueue(K) == dirty' = dirty \cup K

(* The handlers of the slices and of the exports; unlike those of the API  *)
(* reconciler they unwrap tombstones.                                      *)
Deliver(n) ==
  /\ pending' = pending \ {n}
  /\ \/ n.kind = "slice"  /\ Enqueue({n.key})
     \/ n.kind = "export" /\ Enqueue(KeysForExport(n.key, n.path))
  /\ UNCHANGED <<store, watch, sliceCache, exports, synced, delayed, worker, late, budget, history>>

RateLimited(k) ==
  /\ k \in delayed
  /\ delayed' = delayed \ {k}
  /\ Enqueue({k})
  /\ UNCHANGED <<store, informed, worker, late, budget, history>>

-----------------------------------------------------------------------------
(* The workers.                                                            *)

Processing == {worker[w].key : w \in Workers} \ {NoKey}

(* Mutant: the controller starts without waiting for the exports.          *)
WaitForSlices == "slices" \in synced

(* The wait function of the registered controller                          *)
Wait == synced = Informers

Get(w, k) ==
  /\ Wait
  /\ worker[w].at = "idle"
  /\ k \in dirty \ Processing
  /\ dirty' = dirty \ {k}
  /\ worker' = [worker EXCEPT ![w].at = "slice", ![w].key = k]
  /\ UNCHANGED <<store, informed, delayed, late, budget, history>>

(* Mutant: the not-found error of the lister is not looked at.             *)
GoneNever(s) == FALSE

(* "object deleted before we handled it"                                   *)
Gone(s) == s = None

(* process is done with the key: an error has it retried.                  *)
Done(w, err) ==
  /\ worker' = [worker EXCEPT ![w] = Idle]
  /\ delayed' = IF err THEN delayed \cup {worker[w].key} ELSE delayed

GetSlice(w) ==
  /\ worker[w].at = "slice"
  /\ LET s == sliceCache[worker[w].key]
     IN  IF Gone(s) THEN Done(w, FALSE)
         ELSE worker' = [worker EXCEPT ![w].at = "export", ![w].old = s] /\ UNCHANGED delayed
  /\ UNCHANGED <<store, informed, dirty, late, budget, history>>

(* What the worker's lister knows of the exports.                          *)
Reconcile(w) ==
  /\ worker[w].at = "export"
  /\ worker' = [worker EXCEPT
       ![w].at = "commit", ![w].seen = clock,
       ![w].cond = IF "exports" \in synced
                   THEN Verdict(worker[w].key[1], worker[w].old.export)
                   ELSE "APIExportNotFound"]
  /\ UNCHANGED <<store, informed, queue, late, budget, history>>

(* Mutant: the status is patched in every pass.                            *)
AlwaysPatches(old, cond) == TRUE

(* Mutant: reconcile works on the cached object itself, not on a copy.     *)
NoDeepCopy(old, cond) == FALSE

(* commit compares the reconciled copy with the cached object, and sends a *)
(* patch only for a difference.                                            *)
NeedsPatch(old, cond) == old.cond # cond

NothingToCommit(w) ==
  /\ worker[w].at = "commit" /\ ~NeedsPatch(worker[w].old, worker[w].cond)
  /\ Done(w, worker[w].cond = "InternalError")
  /\ UNCHANGED <<store, informed, dirty, late, budget, history>>

Commit(w) ==
  /\ worker[w].at = "commit" /\ NeedsPatch(worker[w].old, worker[w].cond)
  /\ worker' = [worker EXCEPT ![w].at = "wait"]
  /\ UNCHANGED <<store, informed, queue, late, budget, history>>

(* Mutant: the resources are handed to commit without their metadata.      *)
NoPreconditions(old) == NoVersion

(* The UID and resource version of the cached object go into the patch.    *)
Preconditions(old) == old.rv

RequestOf(w) == [key |-> worker[w].key, rv |-> Preconditions(worker[w].old),
                 cond |-> worker[w].cond, seen |-> worker[w].seen]

(* The API server checks the preconditions a patch has.                    *)
Accepts(r) == store[r.key] # None /\ r.rv \in {store[r.key].rv, NoVersion}

Handle(r) ==
  IF Accepts(r)
  THEN /\ Unused # {}
       /\ Publish(r.key, [store[r.key] EXCEPT !.cond = r.cond, !.rv = FreshVersion])
       /\ basis' = [basis EXCEPT ![r.key] = r.seen]
  ELSE UNCHANGED <<store, watch, basis>>

(* The API server answers; the answer may be lost on the way.              *)
Answer(w) ==
  /\ worker[w].at = "wait"
  /\ Handle(RequestOf(w))
  /\ \/ /\ Done(w, ~Accepts(RequestOf(w)) \/ worker[w].cond = "InternalError")
        /\ UNCHANGED budget
     \/ Failures /\ Change /\ Done(w, TRUE)
  /\ UNCHANGED <<sliceCache, exports, synced, pending, dirty, late, clock, held>>

(* The worker gives up on a request that is still on its way.              *)
TimesOut(w) ==
  /\ worker[w].at = "wait"
  /\ Failures /\ Change
  /\ late' = late \cup {RequestOf(w)}
  /\ Done(w, TRUE)
  /\ UNCHANGED <<store, informed, dirty, history>>

Arrives(r) ==
  /\ late' = late \ {r}
  /\ Handle(r)
  /\ UNCHANGED <<sliceCache, exports, synced, pending, queue, worker, budget, clock, held>>

Lost(r) ==
  /\ late' = late \ {r}
  /\ UNCHANGED <<store, informed, queue, worker, budget, history>>

(* The process dies and starts again: its requests are still on their way. *)
Crash ==
  /\ Failures /\ Change
  /\ late' = late \cup {RequestOf(w) : w \in {v \in Workers : worker[v].at = "wait"}}
  /\ watch' = [k \in SliceKeys |-> <<>>]
  /\ sliceCache' = [k \in SliceKeys |-> None]
  /\ synced' = {} /\ pending' = {} /\ dirty' = {} /\ delayed' = {}
  /\ worker' = [w \in Workers |-> Idle]
  /\ UNCHANGED <<store, exports, history>>

-----------------------------------------------------------------------------
Environment ==
  \/ \E k \in SliceKeys : CreateSlice(k) \/ DeleteSlice(k) \/ TouchSlice(k)
  \/ \E e \in ExportKeys : SetExport(e)
  \/ Crash

Informing ==
  \/ ListSlices \/ ListExports
  \/ \E k \in SliceKeys : Observe(k)
  \/ \E n \in pending : Deliver(n)

Step(w) == GetSlice(w) \/ Reconcile(w) \/ NothingToCommit(w) \/ Commit(w) \/ Answer(w)

Next ==
  \/ Environment
  \/ Informing
  \/ Resync
  \/ \E k \in SliceKeys : RateLimited(k)
  \/ \E w \in Workers : (\E k \in SliceKeys : Get(w, k)) \/ Step(w) \/ TimesOut(w)
  \/ \E r \in late : Arrives(r) \/ Lost(r)

Spec == Init /\ [][Next]_vars

(* The queue is first in, first out, so that a key is not passed over for  *)
(* ever; requests are answered, and those given up on end some day.        *)
Fairness ==
  /\ WF_vars(ListSlices) /\ WF_vars(ListExports)
  /\ WF_vars(\E k \in SliceKeys : Observe(k)) /\ WF_vars(\E n \in pending : Deliver(n))
  /\ WF_vars(Resync)
  /\ \A k \in SliceKeys : WF_vars(RateLimited(k)) /\ SF_vars(\E w \in Workers : Get(w, k))
  /\ \A w \in Workers : WF_vars(Step(w))
  /\ WF_vars(\E r \in late : Arrives(r) \/ Lost(r))

FairSpec == Spec /\ Fairness

-----------------------------------------------------------------------------
(* Correctness.                                                            *)

(* Every variable holds a value of its type, and a worker that has an      *)
(* object in hand holds its key.                                           *)
TypeOK ==
  /\ store \in [SliceKeys -> Slice \cup {None}]
  /\ watch \in [SliceKeys -> Seq(Slice \cup {None})]
  /\ sliceCache \in [SliceKeys -> Slice \cup {None}]
  /\ exports \in [ExportKeys -> Export \cup {None}]
  /\ synced \subseteq Informers
  /\ pending \subseteq Event
  /\ dirty \subseteq SliceKeys /\ delayed \subseteq SliceKeys
  /\ worker \in [Workers -> WorkerState]
  /\ late \subseteq Request
  /\ budget \in 0..MaxChanges
  /\ clock \in 0..MaxChanges - budget
  /\ basis \in [SliceKeys -> 0..MaxChanges]
  /\ held \in [SliceKeys -> SUBSET Conditions]

(* An export of the name slice k refers to, at the path it refers to, came *)
(* or went, and no handler has been told.                                  *)
ExportNews(k) ==
  LET r == store[k].export
  IN  \E n \in pending : /\ n.kind = "export" /\ n.key[2] = r.name
                         /\ (IF r.path = NoPath THEN k[1] ELSE r.path) \in {n.key[1], n.path}

(* Something under way will make a worker look at the slice k again.       *)
Woken(k) ==
  \/ synced # Informers
  \/ watch[k] # <<>>
  \/ [kind |-> "slice", key |-> k] \in pending
  \/ ExportNews(k)
  \/ k \in dirty \cup delayed

(* A slice about which nothing is under way says of its export what is     *)
(* true, whatever interleaving of two workers, watch events, conflicting   *)
(* writes, late requests and crashes led there; a request nobody waits for *)
(* is no excuse.  (Exports that change their path are not announced, see   *)
(* Converges.)                                                             *)
ConditionInSync ==
  \A k \in SliceKeys : store[k] # None /\ ~Woken(k) /\ k \notin Processing =>
    store[k].cond = Verdict(k[1], store[k].export)

(* A status write never replaces a condition that rests on a later look at *)
(* the exports: a patch that arrives after its worker gave up, or after a  *)
(* restart, does not undo what was written meanwhile.                      *)
LaterVerdictWins ==
  [][\A k \in SliceKeys :
       store[k] # None /\ store'[k] # None /\ store'[k].cond # store[k].cond
         => basis'[k] >= basis[k]]_vars

(* A condition was true of the exports at some time of this slice's life:  *)
(* caches that are still filling after a start, or a request meant for a   *)
(* deleted slice of that name, never show in a status.                     *)
Justified ==
  \A k \in SliceKeys : store[k] # None => store[k].cond \in held[k] \cup {"Unset"}

(* The condition ends up right once nothing changes, even where exports    *)
(* change without a notification.                                          *)
Converges ==
  <>[](\A k \in SliceKeys : store[k] # None =>
         store[k].cond = Verdict(k[1], store[k].export))

(* The controller's own writes, which come back to it as updates, and the  *)
(* resync do not keep it writing.                                          *)
WritesEnd == <>[][store' = store]_vars
=============================================================================
