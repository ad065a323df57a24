# Verification of the filtered APIExport virtual workspace

A virtual workspace server that shows, for each `FilteredAPIExportEndpointSlice`
(a *slice* below), the resources of one APIExport in all consumer workspaces,
restricted to the objects a label selector matches. This directory holds TLA+
models of the program, the TLC configurations that check them on small
instances, and theorems about them checked by TLAPS. Paths are relative to the
repository.

## 1. The system

| Component | State | Operations | Where |
|---|---|---|---|
| API reconciler | `apiSets` (domain → definitions served), a rate-limited queue, one worker, three informer caches | event handlers for slices, exports, schemas; `process`/`reconcile`; `Start`; `GetAPIDefinitionSet` | `internal/virtual/filteredapiexport/controllers/apireconciler` |
| Endpoint slice controller | a rate-limited queue, two workers, two informer caches; writes the `APIExportValid` condition | handlers for slices and exports; `process`/`reconcile`/commit | `internal/reconciler/endpointslice`, `internal/indexers` |
| Controller start-up | registered controllers, informer sync | `InstallControllers`, `StartControllers`, `runController`, `Run` | `internal/reconciler/reconciler.go`, `cmd/…/command/cmd.go` |
| Builder | `readyCh`, cancel context of each definition | `createAPIDefinition`, the two fallbacks, `digestUrl`, post-start hook, readiness | `internal/virtual/filteredapiexport/builder` |
| Authorizers | none (read caches) | bound API, content of the slice, maximal permission policy | `internal/virtual/filteredapiexport/authorizer` |
| Admission | none (reads a cache) | `Admit` labels new objects, `Validate` refuses objects outside the selector | `internal/virtual/filteredapiexport/admission` |
| Embedded schemas | a fixed table | lookup | `internal/virtual/filteredapiexport/schemas` |
| API types | – | defaulting, validation, immutability rules | `sdk/apis` |
| Clients, listers, informers | informer factory: `informers`, `startedInformers`, `shuttingDown`, a wait group | `InformerFor`, `Start`, `WaitForCacheSync`, `Shutdown` (generated) | `sdk/client` |
| Options, `main` | – | flags | `…/options`, `cmd/…` |

How they interact. Informers feed both controllers; each handler only adds keys
to its controller's queue. The endpoint slice controller writes a condition back
to the slice, which comes back through the slice informers of both controllers.
The API reconciler builds, from slice, export and schemas, the set of API
definitions for the slice's domain (`<cluster>/<name>`) and swaps it into
`apiSets`; the request path reads that map, and runs authorizers and admission
on caches of its own. Definitions own a context that `TearDown` cancels, which
cuts the watches running on them. `Start` tears down everything when the
process stops.

What is hard. The worker reads caches one call at a time while they change;
notifications of three informers arrive in any order, may be coalesced by a new
list, and some have no handler at all; the process may die at any step;
definitions are shared between consecutive sets and are cancelled by pointer
comparison; two workers write statuses computed from caches that lag behind the
API server; stopping races with a running worker.

What makes each component correct:

* API reconciler: no lost wake-up (a domain about which nothing is under way is
  served exactly when its slice and export say so); the served schemas are the
  current ones, also for claimed resources; unchanged definitions survive a
  pass; what is served is not cancelled; everything converges once changes
  stop; the queue drains when stopping.
* Endpoint slice controller: a condition agrees with the export once nothing is
  under way; a late write never undoes a newer verdict; a restart never flips
  a condition; the controller does not feed itself with its own writes.
* Start-up: controllers run only on synced caches; readiness implies synced
  caches; the informer factory can be shut down at any moment.
* Request path: a request that reaches the consumer's data passed every check,
  whatever subset of the caches was stale; what admission adds satisfies what
  the validation demands.

## 2. Modules

| Module | What it is |
|---|---|
| `APIReconciler` | the API reconciler: handlers, queue, worker, start and stop |
| `APIReconcilerProofs` | its theorems |
| `MCAPIReconciler` | small instances: the catalogs of objects each scenario may hold |
| `EndpointSliceController` | the endpoint slice controller with its two workers, the API server it writes to, and start-up's wait for the caches |
| `EndpointSliceProofs` | its theorems |
| `ConditionProofs` | the condition of a slice is current |
| `MCEndpointSlice` | its small instances |
| `ServedDomains` | abstract: what the request path may rely on of the sets it is given |
| `ServedDomainsProofs` | its theorems |
| `DomainMapProofs` | `APIReconciler` implements `ServedDomains`; what is served is neither shared nor cancelled |
| `SchemaProofs` | what is served, declared or claimed, is built from the current schemas |
| `RequestPath` | a request through URL digestion, authorizers, storage and admission |
| `RequestPathProofs` | its theorems |
| `MCRequestPath` | its small instance |
| `InformerFactory` | the generated shared informer factory |
| `StartUp` | `Run`, the registered controller, the post-start hook, and the end of the process; extends `InformerFactory` |
| `StartUpProofs` | theorems about both |
| `MCStartUp` | its small instance |

### 2.1 APIReconciler

The informer stores are functions from keys to objects (`sliceCache`,
`exportCache`, `schemaCache`; `None` where there is no object). What a store may
hold is a constant *catalog* per key, so that a scenario is a catalog. The
environment actions `SetSlice`, `SetExport`, `SetSchema` change a store and put
the notification into `pending`; `Deliver` runs the handler of one notification,
at any later time and in any order. That order is freer than the code's (an
informer delivers to one listener in order), which is sound for what is checked.
A lost watch (`Relists`) shows a deletion and re-creation as one update, and a
deletion as a tombstone, on which every handler's cast panics
(`DeliverTombstone`).

The worker is a program counter `pc` with the locals of `process` and
`reconcile`; one action per lister call and per step of a loop, so that any cache
may change between two of them:

| pc | action | code |
|---|---|---|
| idle | `Get` | `processNextWorkItem` takes a key |
| slice | `GetSlice` | `process` gets the slice |
| export | `GetExport` | `reconcile` gets the export from the slice's cluster |
| drop | `Drop` | the domain is deleted from `apiSets` |
| schemas | `GetSchema`, `StartClaims` | the schema of one resource of the export at a time; `oldSet` |
| claims | `ResolveClaim`, `GetCandidates`, `StartBuild` | one permission claim at a time, answered at once or by the exports with the claimed identity |
| candidates | `GetSchema`, `MatchCandidate`, `NextClaim` | these exports in their order, the schema of one resource at a time |
| build | `Preserve`, `Create`, `CreateFails`, `SelectorError`, `StartFallback` | one served version at a time, in any order (Go maps) |
| fallback | `Fallback`, `FallbackFails`, `StartCleanup` | `apibindings` and slices are always served |
| cleanup | `TearDown`, `TearDownNil`, `Store` | cancel what is replaced, then store `newSet` |

`exports`, `found` and `next` are the locals of `getSchemasFromAPIExport`: the
exports it has still to go through, with the objects as they were when they were
got or listed, what it has found for the first of them, and the resource it is at.
A definition is a record of what the program keeps or hands on about it: its
pointer (`id`), the schema's UID, the `IdentityHash` field (`owner`), the
identity requests are forwarded with, the selector and the claim its label
requirements come from. `live` holds the definitions whose context is not
cancelled. `oldSet` is read from `apiSets` when it is used: only the worker
writes that map, so this is the value read at the start. The queue is `dirty`
plus `delayed` (rate limits); with one worker, the queue's `processing` set is
`key`. A resync (`Resync`) repeats slices and exports, not schemas. `Crash`,
panics and their restart lead to `Restart`, which re-announces every object.

Abstractions:

* label requirements are named by selector and claim and never evaluated, and
  their construction does not fail (lines 254-267 of `…_reconcile.go` return such
  errors, as lines 246-251 do those of the selector, which are modelled);
* an embedded schema is a value of the constant `InternalSchema`;
* a lister or index error other than "not found" does not exist for an in-memory
  store with the index registered (also line 228 of
  `endpointslice_controller.go`);
* one notification is handled in one step, although `enqueueAPIResourceSchema`
  and `enqueueFilteredAPIExportEndpointSlice` call listers several times. What
  changes between two of these calls makes a notification of its own, whose handler
  looks again; that this makes up for every such interleaving is not checked.

### 2.2 EndpointSliceController

`store` is what the API server holds of the slices, `watch` the versions of each
slice the informer has not seen, `sliceCache` the informer's store, `exports`
the exports as the (cache server's) informer has them. A slice carries its
reference, a resource version and the condition `APIExportValid`; the version
stands for the UID too. `synced` says which informers have listed: a watch
exists from then on. `Observe` takes the next version of a slice, or, as after
a lost watch, the last one.

| action | code |
|---|---|
| `Get` | `processNextWorkItem` takes a key that no worker has; only after `Wait`, the wait function registered in `reconciler.go` |
| `GetSlice` | `process` gets the cached slice; a slice that is gone ends the pass |
| `Reconcile` | `reconcile` looks the export up by path and name and sets the condition |
| `NothingToCommit`, `Commit` | `commit` compares the copy with the cached object; a difference becomes a patch with the cached object's UID and resource version |
| `Answer` | the API server takes or refuses the patch (a conflict is an error, and retried); the answer may be lost |
| `TimesOut`, `Arrives`, `Lost` | the worker gives up on a patch, which takes effect later or never |
| `Crash` | everything is forgotten but `store` and the patches under way |

`clock`, `basis` and `held` are history variables: how often exports have
changed, the time on whose exports a slice's condition rests, and the verdicts
that were right at some time of the slice's life. No guard reads them.

External code is modelled by what it promises: the informers and the work queue
of client-go, the API server's check of a patch's preconditions, and kcp's
committer and `ByPathAndName` (which finds nothing, one object, or too many).

Abstractions: message, severity and transition time of the condition are left
out; an export is its name and path annotation, and its cache is not kept apart
from the cache server.

### 2.3 ServedDomains

What the virtual workspace sees of the API reconciler: each request asks for the
definitions of its domain and uses them for as long as their context lives. A
definition is *made*, takes one place of one domain, keeps it while it is served,
and is *revoked* only while its own domain is being replaced, or all at once when
the controller is told to stop. How the sets come about is left open.
`APIReconciler` implements it (`ImplementsDomainMap`) under the refinement
mapping `DomainMap`: `served` is `apiSets` restricted to the definitions built
from schemas (the fallbacks are made anew in every pass and hold no context),
`valid` is `live`, `replacing` the key during the cleanup. From the abstract
specification follow `Exclusive` and `NeverCut`, which are proved.

### 2.4 RequestPath

One request at a time, since requests share nothing but the caches. `Arrive`
digests the URL (`Accepted`); then each lister call of each stage is an action,
and informers may change any cache between two of them:

| stage | actions | code |
|---|---|---|
| bound API authorizer | `SkipBinding`, `AuthorizeSlice`, `AuthorizeExport`, `AuthorizeBinding` | `authorizer/binding.go` |
| content authorizer | `AuthorizeContent` | `authorizer/content.go` |
| maximal permission policy | `MaximalSlice`, `MaximalExport`, `NoPolicy`, `FindPolicies`, `AskPolicy`, `PoliciesGranted` | `authorizer/maximal_permission_policy.go` |
| storage | `FindStorage` | `builder/forwarding.go` |
| admission | `AdmitSlice`, `AdmitBinding` | `Admit` in `admission/selector.go` |
| validation | `ValidateSlice`, `ValidateSelector`, `ValidateBinding` | `Validate` |
| forwarding | `Forward` | the client of `builder/build.go` |

`past` is a history variable, the caches as they were since the request arrived.
A request works on objects read at different moments, so the properties ask that
each of them was there at some time of the request. More than that the code does not
promise: where a claim is taken away after the bound API authorizer let a request
in on it, the maximal permission authorizer reads the export without the claim
and asks no policy. `PoliciesHeard` therefore speaks of requests whose export
claims the resource, from somebody, at every time of the request. Of a claim's
selector, `WrittenIsVisible` speaks as `Validate` does, if the binding has accepted
the claim when it looks. `AdmittedIsValid` speaks of
requests during which nothing changed, and whose selector is made of labels
only. The SubjectAccessReviews are answered
either way (`Review`), and what they allow is recorded in `granted`.

Abstractions: a selector is the labels it wants equal, the labels it wants to
exist (an expression), and whether it converts at all. Which storage a domain
serves for `apibindings` may lag behind the claims, so `FindStorage` may pick
either. Where a cluster has several bindings to one export, the
code takes the first one listed, in no order, and the model any. Two stages may
then look at two bindings, so that what `Admit` made may be refused by
`Validate`: `AdmittedIsValid` speaks of clusters with one.

### 2.5 InformerFactory and StartUp

`InformerFactory` has `Start` step by step: it takes the factory's lock
(`BeginStart`), and its loop runs an informer (`Launch`) and puts it into
`startedInformers` (`Mark`) until there is none left (`EndStart`); `inStart` says
who holds which lock, `launched` what the loop is between these two steps with.
What `InformerFor`, `WaitForCacheSync` and `Shutdown` do under the lock is one
action each, which needs the lock to be free; the two waits that follow are guards.
`running` counts the goroutines of each informer, as the wait group does, and they
end when the stop channel closes. Users may ask, start, wait and shut down in any
order. The kcp factories of the program are generated the same way.

`StartUp` puts the program on top of it: `main` is where `Run` is, from the
validation of options (with the two flags that are marked as required) to the exit.
Steps that only make configurations and clients are one action, with `Fail` for
their errors, and for that of a server that cannot listen. System identities are
polled for until there is an answer or a signal. `controller` is
`runController` of the endpoint slice controller, `hook` the post-start hook
(which waits for the four informers in the order of a Go map), `reconciler` the
goroutine it starts. A signal closes the stop channel at any moment; the generic
API server then drains and ends the context of the hooks. `unreachable` holds
the informers whose server never answers, or the system identities.

## 3. Runs

| Run | Question | Bound | Distinct states |
|---|---|---|---|
| `lifecycle` | can any order of changes, notifications and reads lose a wake-up, serve a stale schema or identity, or replace an unchanged definition? | one slice, an export of two resources, their schemas; 2 changes | 4.6 M |
| `faults` | the same with lost watches, failing creations and crashes; is something served ever torn down? | two slices of one export; 2 changes or failures | 0.9 M |
| `claims` | does a change of a claimed resource's schema reach the claimer? | two clusters, a slice in each, of which the owner's may come and go; 1 change | 2.4 M |
| `convergence` | does the resync repair what notifications do not cover? | 2 changes, claims whose owner has no slice | 0.5 M |
| `shutdown` | does the queue drain after `Start` is cancelled? | one slice whose selector may be rejected | 58 k |
| `status_writes` | can two workers, a lagging watch, late patches and crashes leave a wrong condition, undo a newer one, or write one that was never true? | one slice, two exports one path may both name; 2 workers; 4 changes or failures | 1.1 M |
| `condition_converges` | does the condition become right, and does the controller stop writing? | one slice, an export whose path comes late; 3 changes or failures | 0.2 M |
| `requests` | can changing caches let a request use what nobody granted it, skip a policy, or write an object its own selectors hide? does `Validate` accept what `Admit` made? | one slice, three exports, three bindings, two of them to one export, 12 requests, 6 URLs; 3 changes | 7.0 M |
| `start_up` | do workers and requests only see full caches, does ready mean started, does the server come up, and go down whatever it waits for? can two calls of `Start` run an informer twice? | 4 informers, 2 or 3 factories, one other user; 3 outages; 4 command lines | 0.47 M |

`MaxChanges` bounds what the environment does, the failures and crashes, and
nothing the program does: between changes the workers, the informers and the
queue run to the end. A lost wake-up needs one change between a read and the
store that rests on it, a stale definition two (delete and create), a late patch
that undoes a newer verdict three (a change, a timeout, a change back), of which
`status_writes` leaves one more. `lifecycle` has the two, at any of the worker's
reads, and of these the two schemas of one export; that three changes do no more
harm than two is what the proofs say. `claims` allows one
change because each schema event already has two domains to rebuild and any
number of reads to race with. That several exports answer one claim is in
`claim_order` and in the proofs. `DefIds` bounds only how many definitions exist at
a time, `ResourceVersions` how many versions are in sight at a time. Workers are
interchangeable, so `status_writes` uses symmetry; it checks no liveness.

`requests` needs one change between two reads of a property's objects and leaves
two more; the values of its caches differ in each field that a stage looks at.

Deadlock is checked in `requests`, where the next request always comes. It is not
checked elsewhere: once the budget is spent and nothing is under way, the
system rests, as it should. That it does not rest too early is what
`DomainInSync`, `ConditionInSync` and the liveness properties say.

### Fairness

`convergence`, `shutdown`, `condition_converges` and `start_up` assume fairness. Weak
fairness of the worker (each worker), the informers, the resync and the rate
limits: goroutines that run are scheduled and timers fire. Strong fairness of
taking a given key: client-go's queue is first in, first out, and the worker
returns to it, so that a key is not passed over for ever; weak fairness would
let one key starve another. `condition_converges` also assumes that a patch
under way is answered, or ends, some day. `start_up` assumes strong fairness of `Run`, the controller and the
hook, who want the factories' locks: a Go mutex hands itself over to whoever has
waited for it long, so that another user's calls do not keep them out for ever. It
assumes weak fairness of the reconciler's end, of what another user has begun, of
informers whose servers can be reached, and of the generic API server's drain;
nothing of failing steps, signals or the calls another user makes. Nothing is assumed of the environment,
of failures or of crashes, which the budget makes finite.

### Divergences

Three runs end in a violation: each checks what a document or a comment says and
the code does not do (`PROJECT.json`, findings).

* `stale_selector`: a definition is preserved with the selector of the slice
  that was deleted and created again under the same name. (For the same reason
  a definition built for a permission claim is kept when its export starts to
  declare the resource itself; no run shows that.)
* `other_path`: the export of the slice's own cluster is served, whatever
  `spec.export.path` says.
* `claim_order`: exports are sorted "to make it deterministic" by a comparator
  under which exports of one name, or of one cluster, are equal, so that the
  schema of a claim depends on the random order of the index.

More were met while modelling; no run shows them:

* `README.md:38` and the comment at `endpointslice_controller.go:114` say that
  endpoint URLs are put into the slice's status, which has conditions only
  (`types_endpointslice.go:92-105`).
* For a slice whose `spec.export.path` is a workspace path (`README.md:55`) the
  schema handler drops the event (`apiexport_apireconciler_controller.go:251`).
* When a fallback definition cannot be created, a nil one is served and panics
  when it is torn down, although the fallback is "always" served
  (`apiexport_apireconciler_reconcile.go:288-299`; `FallbackFails`, `TearDownNil`).
* "Stop all watches if the controller is stopped"
  (`apiexport_apireconciler_controller.go:318`): a set stored after the tear-down
  of `Start`, and the set of a domain that was dropped, keep their contexts.
* A claim that names one of kcp's two own groups and a resource that only the
  other has is answered by the resource alone, so that another resource's schema
  is served under the claimed name
  (`apiexport_apireconciler_reconcile.go:131-161`; no document says what should
  be served).
* `NewMaximalPermissionAuthorizer` says that for a wildcard request "this check is
  skipped because no unique API binding can be determined"
  (`maximal_permission_policy.go:54`). `Authorize` makes no such distinction: the
  policies are asked for a wildcard request as for any other, and `PoliciesHeard`
  checks that they are.
* The comment above it says that the policy is checked "if the resource is a claimed
  resource in the requested API export" (`:50`). Each authorizer reads the export
  for itself: a request let in on a claim that is removed before
  `maximal_permission_policy.go:97` counts as one for an unclaimed resource and is
  allowed without a policy being asked (see section 2.4).
* "WithTransform sets a transform on all informers"
  (`externalversions/factory.go:87`): the cluster factory stores the transform
  and never applies it, the factory for one workspace is never given it.

## 4. Proofs

All theorems hold for every value of the constants that satisfies the
assumptions of the modules (that the markers such as `None` are no objects, that
catalogs and initial caches hold objects of their kind, that the program's
informers and factories are among the informers and factories there are, that
`Run` is no other user, that informer stores are finite, that bounds are numbers, that no cluster is called like the missing path). Nothing
else is assumed of catalogs, caches, faults, users or the number of workers,
except for what three theorems say in their statements: `ConditionsAreCurrent`,
`SchemasAreServed` and `ClaimsAreServed` are about behaviours in which nothing
happens that the code does not react to. Each of these hypotheses names such a
thing, and the sections below say where the code ignores it.

`APIReconcilerProofs`

* `TypeCorrect`: the type invariant, which ties the worker's locals to its
  program counter.
* `ReadsStayCurrent`, `NoLostWakeUp`: `DomainInSync` speaks of domains nothing
  is under way for, and a step that stores a set shows nothing of why that set is
  right. The inductive invariant, `ReadsCurrent`, says it for every moment: each
  slice key is either going to be processed (queued, or named by a notification
  not yet handled), or in the worker's hands with reads that still hold, or in
  sync. Each change of a cache makes its own notification, and delivering it
  queues the keys it concerns; that is the whole argument, and the proof goes
  through the actions once. `DomainInSync` follows.

`EndpointSliceProofs`

* `TypeCorrect`.
* `ConditionsAreJustified`, `LaterVerdictsWin`: both rest on `IInv`. Whatever
  carries the resource version a slice has at the API server (a version in the
  watch, the cached slice, the object in a worker's hands, a patch under way)
  was copied from that slice: copies agree on the reference (`CopiesAgree`),
  and a verdict made of one was true in the slice's life and rests on a look at
  the exports no older than the slice's condition (`RequestsSound`,
  `SlicesSound`). A write gives the slice a version nobody has, so what is older
  stops mattering in that step. `WorkersSynced` says that workers run on synced
  caches only.

`ConditionProofs`

* `ConditionsAreCurrent`. `ConditionInSync` speaks of slices nothing is under way
  for; the invariant `SyncInv` follows them through the pass that makes them so.
  The informer lacks exactly the versions the watch still holds (`WatchSound`).
  So either the slice will be looked at again (`Woken`: a version or a
  notification is on its way, the key is queued, or an export that would change
  the verdict is announced), or what a worker holds of it is what the API server
  holds, and the verdict it came to is the one there is now (`WorkersCurrent`).
  A write that was refused queues the key again; one that was taken comes back
  through the watch. Before both informers have listed there are no workers,
  and the list that comes last wakes every slice (`Listed`).
* The hypothesis `PathsStay` says that an export has the same path annotation
  whenever it exists. The handler ignores updates of exports
  (`endpointslice_controller.go:95`), so a path that comes late
  is heard of only with a resync. `condition_converges` checks what then happens.

`DomainMapProofs`

* `NothingShared`, `NothingCancelled`: what is served is right as long as the
  set being built is, so the inductive invariant, `MapInv`, is mostly about the
  latter. A definition of `newSet` is served nowhere, or in the same place of the
  key's own domain (`NewSetOwned`); it is live (`NewSetLive`); and what the
  cleanup has still to tear down is in the place it is looked for and no part of
  the new set (`CleanupSpares`). Beside it stand the two properties and what they
  need of the served sets (`SetsSound`): definitions built from schemas are made,
  the fallbacks have no context. `Create` takes an identifier nobody uses,
  `Preserve` one from the place it is put into, `TearDown` cancels one that only
  the old set has.
* `Implementation`: under `DomainMap`, `Create` is the abstract *Make*,
  `StartCleanup` *BeginReplacing*, `TearDown` *Revoke* (or nothing, for a
  fallback), `Store` *Replace*, `Drop` *Withdraw*, `StopTearDown` *Stop*; a
  crash, and the panics of `TearDownNil`, `StopPanics` and `DeliverTombstone`, are
  *Restart*. All other steps leave the map alone. The guards of the abstract
  steps are what `MapInv` and `NewSetKept` say.
* `WatchesGoOn` rests on `NewSetKept`: where the old set of the key has a
  definition of the same schema and identity, the new set has that one.

`SchemaProofs`

* `SchemasAreServed`. The invariant has two parts. `SchemasHold` goes along
  `reconcile`: a slice key is going to be processed, or the export and the schemas
  the worker has read for it, as far as it has read them (`SchemasUpTo`), are the
  ones there are, or what is served for it is built from them. `ReadingShape` says
  whose schemas the worker is reading. `Construction` is about the set being built: schemas are found
  under their own names, and a place of the new set has a definition of the
  schema's UID exactly if the schema serves that version, or the version is still
  to be done. Together they make `Store` right. A change of a schema is announced,
  and delivering that queues every slice of an export that declares it
  (`SchemaReachesSlices`).
* `ClaimsAreServed` rests on a third part, `ClaimsHold`: while the worker has a
  key in hand, each of the export's claims is still to be looked at, or has been
  answered by what the exports of its identity offer now. While these are gone
  through, what the worker holds of them is current, and none that offers the
  resource has been passed over (`CandidatesRead`). Whatever is news to
  these exports wakes the claimers through a slice of theirs (`NewsOfClaims`); a
  slice that comes only later wakes them as well, which makes up for what was
  missed without it. So the property asks for `Attended` claims, and the run
  `convergence` checks that the resync repairs the others.
* The hypotheses. `SlicesResolve`: `enqueueAPIResourceSchema` looks the export up
  in the cluster called `spec.export.path` and returns at the first slice for which
  there is none (`apiexport_apireconciler_controller.go:251`), so slices name their
  own cluster, and one whose export is gone is alone in it (what happens
  otherwise is among the divergences of section 3). `NothingMissed`: no schema is
  replaced in a single update, for which there is no handler (`:141`), and no
  definition fails to be created, which is not retried. `IdentitiesStay`: old
  claimers are not woken when an export loses its identity or is deleted (`:189`).
* Both properties leave out the two resources that are always served, and those
  of kcp's own groups that a claim of the other group may be answered with
  (`PlainGVRs`, `CrossAnswers`); and a claim for a resource the export itself
  declares, or for one kcp has a schema for, asks no other export (`AsksOthers`).

`ServedDomainsProofs`: `AlwaysExclusive` and `AlwaysGood`, what a user of the
abstract map may rely on. With `Implementation` they hold of the controller.

`RequestPathProofs`

* `ServedIsGranted`, `ServedIsReviewed`, `WritesAreSeen`: a request acts on
  copies read at different moments. Each copy was in some cache of `past`, and
  `past` and `granted` only grow while the request lasts, so what a stage found
  out stays true of what was there during the request (`ReadsSeen`). The invariant says
  for each stage what the ones before it have established: who invited the
  request (`InvitedSoFar`), which policies have been asked and which are still in
  hand (`ReviewedSoFar`), what the labels fit (`VisibleSoFar`). Where a request is
  served, these are the properties.
* `AdmittedPasses`: if nothing has changed since the request arrived, slice and
  binding read by `Validate` are those read by `Admit`. The labels `Admit` has
  written are what the slice's selector wants (`Written`); the binding's selector
  adds to them only where they agree, or the request ends (`MergedFits`), so that
  the labels fit both selectors from then on (`Labelled`).
* `TypeCorrect`.

`StartUpProofs`

* `WorkersStartOnFullCaches`, `ReadyIsStarted`, `RequestsAwaitCaches`: informers
  that are made, started or synced stay so, factories that are shutting down do
  not come back, and the stop channel stays closed (`StepGrows`). `Run` asks before it starts and
  starts before it waits; `RunInv` says at each step what has been asked for,
  started and awaited, as long as nothing is shut down or stopped. The hook has
  found synced what is not `left`.
* `ShutdownEndsInformers`, `NoneRunsTwice`, `TypeCorrect`: whatever goroutine
  acts, a factory sees one of a few kinds of step (`FactoryStep`), so that the
  proofs need not look at the program. That an informer is not run twice does not
  follow from `startedInformers`, which lags behind what the loop has run: what
  runs is in it, or a caller in the loop is about to put it there (`LaunchInv`), and
  of these there is one for each factory, none while it shuts down (`LockInv`).

Only model-checked:

* all liveness (`Converges` of both controllers, `StopDrains`, `WritesEnd`,
  `ComesUp`, `GoesDown`): TLAPS has no rules for fairness;
* what the findings refute (`stale_selector`, `other_path`, `claim_order`).

Every invariant that a passing run checks is a theorem.

## 5. Not modelled

| Part | Why |
|---|---|
| Reading and parsing the embedded schemas | no state: a table, taken as a constant (`InternalSchema`); the built-in table is data |
| Flag parsing, `main` | no state beyond the options `StartUp` looks at |
| Generated clients, apply configurations, fakes, listers, the factory for one workspace | generated; what their callers rely on is in the modules of the callers |
| `validation.go` | called by nobody; the rules that hold are those of the CRD |
| Audit logging and anonymization around the authorizers | no decision depends on it |
| The body of a forwarded request | kcp's forwarding registry; the outcome is a choice in `Forward` |

## 6. Plan

1. API reconciler, endpoint slice controller, request path, start-up, informer
   factory, abstract map of domains (done).
2. Proofs: every invariant the runs check, and the refinement of the abstract map
   of domains (done). Next, the hypotheses of `SchemaProofs` one at a time: what
   is still promised of domains whose cluster has a slice without an export, and
   after a creation that failed.
3. A property that no definition is leaked, once the code tears down the sets of
   dropped domains.
