------------------------ MODULE EndpointSliceProofs ------------------------
(***************************************************************************)
(* Theorems about EndpointSliceController, for every set of clusters,      *)
(* slices, exports and workers, and every bound: its types, that a         *)
(* condition was true at some time of its slice's life (Justified), and    *)
(* that a later verdict is never undone (LaterVerdictWins).                *)
(*                                                                         *)
(* Both rest on one fact: whatever carries the resource version a slice    *)
(* has at the API server, be it a cached copy, an object in a worker's     *)
(* hands or a request under way, belongs to that slice and is no older     *)
(* than its condition.                                                     *)
(***************************************************************************)
EXTENDS EndpointSliceController, TLAPS

(* A copy of slice k that has the version k has at the API server.         *)
Matches(s, k) == s # None /\ store[k] # None /\ s.rv = store[k].rv

CopiesAgree ==
  \A k \in SliceKeys :
    /\ Matches(sliceCache[k], k) => sliceCache[k].export = store[k].export
    /\ \A i \in DOMAIN watch[k] :
         Matches(watch[k][i], k) => watch[k][i].export = store[k].export
    /\ \A w \in Workers : worker[w].key = k /\ Matches(worker[w].old, k)
                            => worker[w].old.export = store[k].export

(* A verdict v made at time t may become the condition of k.               *)
Sound(k, v, t) == v \in held[k] /\ basis[k] <= t /\ t <= clock

RequestsSound ==
  /\ \A w \in Workers :
       worker[w].at \in {"commit", "wait"} /\ Matches(worker[w].old, worker[w].key)
         => Sound(worker[w].key, worker[w].cond, worker[w].seen)
  /\ \A r \in late :
       store[r.key] # None /\ r.rv = store[r.key].rv => Sound(r.key, r.cond, r.seen)
  /\ \A r \in late : r.rv # NoVersion

SlicesSound ==
  \A k \in SliceKeys : store[k] # None =>
    /\ Verdict(k[1], store[k].export) \in held[k]
    /\ basis[k] <= clock

WorkersSynced == \A w \in Workers : worker[w].at # "idle" => synced = Informers

IInv == TypeOK /\ CopiesAgree /\ RequestsSound /\ SlicesSound /\ WorkersSynced /\ Justified

-----------------------------------------------------------------------------
(* Types.                                                                  *)

LEMMA VerdictType == \A c, r : Verdict(c, r) \in Conditions \ {"Unset"}
BY DEF Verdict, Conditions

(* A fresh version is one that nothing known of carries.                   *)
LEMMA FreshVersionIsUnused ==
  ASSUME Unused # {}
  PROVE  FreshVersion \in ResourceVersions /\ FreshVersion \notin VersionsUsed
BY DEF FreshVersion, Unused

LEMMA KeysForExportType == \A e, p : KeysForExport(e, p) \subseteq SliceKeys
BY DEF KeysForExport

LEMMA ListingsAreEvents ==
  ASSUME exports \in [ExportKeys -> Export \cup {None}]
  PROVE  /\ \A k \in SliceKeys : [kind |-> "slice", key |-> k] \in Event
         /\ \A e \in ExportKeys : \A p \in Paths \cup {NoPath} :
              [kind |-> "export", key |-> e, path |-> p] \in Event
         /\ \A e \in ExportKeys : exports[e] # None =>
              [kind |-> "export", key |-> e, path |-> exports[e].path] \in Event
<1>1. \A k \in SliceKeys : [kind |-> "slice", key |-> k] \in [kind : {"slice"}, key : SliceKeys]
  OBVIOUS
<1>2. \A e \in ExportKeys : \A p \in Paths \cup {NoPath} :
        [kind |-> "export", key |-> e, path |-> p]
          \in [kind : {"export"}, key : ExportKeys, path : Paths \cup {NoPath}]
  OBVIOUS
<1>3. \A e \in ExportKeys : exports[e] # None => exports[e].path \in Paths \cup {NoPath}
  BY DEF Export
<1>4. \A k \in SliceKeys : [kind |-> "slice", key |-> k] \in Event
  BY <1>1, Zenon DEF Event
<1>5. \A e \in ExportKeys : \A p \in Paths \cup {NoPath} :
        [kind |-> "export", key |-> e, path |-> p] \in Event
  BY <1>2, Zenon DEF Event
<1> QED BY <1>3, <1>4, <1>5

(* What the conjuncts of TypeOK about slices say once a slice is published. *)
LEMMA PublishType ==
  ASSUME TypeOK, NEW k \in SliceKeys, NEW s \in Slice \cup {None}, Publish(k, s)
  PROVE  /\ store' \in [SliceKeys -> Slice \cup {None}]
         /\ watch' \in [SliceKeys -> Seq(Slice \cup {None})]
BY DEF Publish, TypeOK

LEMMA IdleType == Idle \in WorkerState
BY BoundAssumption DEF Idle, WorkerState, Conditions

LEMMA InitType == Init => TypeOK
<1> SUFFICES ASSUME Init PROVE TypeOK
  OBVIOUS
<1>1. exports \in [ExportKeys -> Export \cup {None}]
  BY CatalogAssumption DEF Init
<1>2. budget \in 0..MaxChanges /\ clock \in 0..MaxChanges - budget /\ 0 \in 0..MaxChanges
  BY BoundAssumption DEF Init
<1>3. \A w \in Workers : worker[w] \in WorkerState
  BY <1>2, IdleType DEF Init
<1>4. <<>> \in Seq(Slice \cup {None}) /\ budget = MaxChanges /\ MaxChanges \in Nat
  BY BoundAssumption DEF Init
<1> QED BY <1>1, <1>2, <1>3, <1>4, IdleType DEF Init, TypeOK

(* The steps of the control plane: slices, exports, crashes.               *)
LEMMA EnvironmentType == TypeOK /\ Environment => TypeOK'
<1> SUFFICES ASSUME TypeOK, Environment PROVE TypeOK'
  OBVIOUS
<1>1. ASSUME NEW k \in SliceKeys, CreateSlice(k) PROVE TypeOK'
  <2>1. PICK r \in SliceCatalog[k] \ {None} :
          /\ Unused # {}
          /\ Publish(k, [export |-> r, rv |-> FreshVersion, cond |-> "Unset"])
          /\ held' = [held EXCEPT ![k] = {Verdict(k[1], r)}]
    BY <1>1 DEF CreateSlice
  <2>2. [export |-> r, rv |-> FreshVersion, cond |-> "Unset"] \in Slice
    BY <2>1, FreshVersionIsUnused, CatalogAssumption DEF Slice, Conditions
  <2>3. held' \in [SliceKeys -> SUBSET Conditions]
    BY <2>1, VerdictType DEF TypeOK
  <2> QED BY <1>1, <2>1, <2>2, <2>3, PublishType, BoundAssumption
          DEF CreateSlice, Change, queue, TypeOK
<1>2. ASSUME NEW k \in SliceKeys, DeleteSlice(k) PROVE TypeOK'
  BY <1>2, PublishType, BoundAssumption DEF DeleteSlice, Change, queue, history, TypeOK
<1>3. ASSUME NEW k \in SliceKeys, TouchSlice(k) PROVE TypeOK'
  <2>1. [store[k] EXCEPT !.rv = FreshVersion] \in Slice
    BY <1>3, FreshVersionIsUnused DEF TouchSlice, Slice, TypeOK
  <2> QED BY <1>3, <2>1, PublishType, BoundAssumption
          DEF TouchSlice, Change, queue, history, TypeOK
<1>4. ASSUME NEW e \in ExportKeys, SetExport(e) PROVE TypeOK'
  <2>1. PICK x \in ExportCatalog[e] :
          /\ x # exports[e]
          /\ exports' = [exports EXCEPT ![e] = x]
          /\ pending' =
               IF "exports" \notin synced \/ (exports[e] # None /\ x # None) THEN pending
               ELSE pending \cup {[kind |-> "export", key |-> e,
                                   path |-> IF x = None THEN exports[e].path ELSE x.path]}
    BY <1>4, Zenon DEF SetExport
  <2>2. exports' \in [ExportKeys -> Export \cup {None}] /\ x \in Export \cup {None}
    BY <2>1, CatalogAssumption DEF TypeOK
  <2>3. pending' \subseteq Event
    <3>1. x # exports[e] => (IF x = None THEN exports[e].path ELSE x.path) \in Paths \cup {NoPath}
      BY <2>2 DEF TypeOK, Export
    <3>2. [kind |-> "export", key |-> e,
           path |-> IF x = None THEN exports[e].path ELSE x.path] \in Event
      BY <2>1, <3>1, ListingsAreEvents DEF TypeOK
    <3> QED BY <2>1, <3>2 DEF TypeOK
  <2>4. held' \in [SliceKeys -> SUBSET Conditions]
    <3>1. \A k \in SliceKeys : Verdict(k[1], store[k].export)' \in Conditions
      BY DEF Verdict, Conditions
    <3> QED BY <1>4, <3>1 DEF SetExport, TypeOK
  <2>5. budget' \in 0..MaxChanges /\ clock' \in 0..MaxChanges - budget'
    BY <1>4, BoundAssumption DEF SetExport, Change, TypeOK
  <2> QED BY <1>4, <2>2, <2>3, <2>4, <2>5 DEF SetExport, queue, TypeOK
<1>5. CASE Crash
  <2>1. \A w \in Workers : worker[w].at = "wait" => RequestOf(w) \in Request
    BY DEF RequestOf, Request, Preconditions, TypeOK, WorkerState, Slice
  <2> QED BY <1>5, <2>1, BoundAssumption, IdleType DEF Crash, Change, history, TypeOK
<1> QED BY <1>1, <1>2, <1>3, <1>4, <1>5 DEF Environment

(* The informers and the queue.                                            *)
LEMMA InformingType ==
  TypeOK /\ (Informing \/ Resync \/ \E k \in SliceKeys : RateLimited(k)) => TypeOK'
<1> SUFFICES ASSUME TypeOK, Informing \/ Resync \/ \E k \in SliceKeys : RateLimited(k)
             PROVE  TypeOK'
  OBVIOUS
<1> USE DEF queue, history
<1>1. CASE ListSlices
  BY <1>1, ListingsAreEvents DEF ListSlices, TypeOK, Informers
<1>2. CASE ListExports
  BY <1>2, ListingsAreEvents DEF ListExports, TypeOK, Informers
<1>3. ASSUME NEW k \in SliceKeys, Observe(k) PROVE TypeOK'
  <2>1. PICK i \in {1, Len(watch[k])} :
          /\ watch[k] # <<>>
          /\ sliceCache' = [sliceCache EXCEPT ![k] = watch[k][i]]
          /\ watch' = [watch EXCEPT ![k] = SubSeq(@, i + 1, Len(@))]
    BY <1>3 DEF Observe
  <2>2. watch[k] \in Seq(Slice \cup {None}) /\ i \in 1..Len(watch[k])
    BY <2>1 DEF TypeOK
  <2>3. sliceCache' \in [SliceKeys -> Slice \cup {None}]
    BY <2>1, <2>2 DEF TypeOK
  <2>4. watch' \in [SliceKeys -> Seq(Slice \cup {None})]
    BY <2>1, <2>2 DEF TypeOK
  <2> QED BY <1>3, <2>3, <2>4, ListingsAreEvents DEF Observe, TypeOK
<1>4. ASSUME NEW n \in pending, Deliver(n) PROVE TypeOK'
  <2>1. n.kind = "slice" => n.key \in SliceKeys
    BY DEF TypeOK, Event
  <2> QED BY <1>4, <2>1, KeysForExportType DEF Deliver, Enqueue, TypeOK
<1>5. CASE Resync
  BY <1>5, ListingsAreEvents DEF Resync, TypeOK
<1>6. ASSUME NEW k \in SliceKeys, RateLimited(k) PROVE TypeOK'
  BY <1>6 DEF RateLimited, Enqueue, informed, TypeOK
<1> QED BY <1>1, <1>2, <1>3, <1>4, <1>5, <1>6 DEF Informing

(* The workers, and the requests they no longer wait for.                  *)
LEMMA WorkersType ==
  TypeOK /\ (\/ \E w \in Workers : (\E k \in SliceKeys : Get(w, k)) \/ Step(w) \/ TimesOut(w)
             \/ \E r \in late : Arrives(r) \/ Lost(r))
    => TypeOK'
<1> SUFFICES ASSUME TypeOK,
                    \/ \E w \in Workers : (\E k \in SliceKeys : Get(w, k)) \/ Step(w) \/ TimesOut(w)
                    \/ \E r \in late : Arrives(r) \/ Lost(r)
             PROVE  TypeOK'
  OBVIOUS
<1> USE DEF informed, queue, history
<1>1. \A w \in Workers : worker[w].at # "idle" => worker[w].key \in SliceKeys
  BY DEF TypeOK, WorkerState
<1>2. \A w \in Workers : \A err \in BOOLEAN : worker[w].at # "idle" /\ Done(w, err) =>
        worker' \in [Workers -> WorkerState] /\ delayed' \subseteq SliceKeys
  BY <1>1, IdleType DEF Done, TypeOK
<1>3. \A w \in Workers : \A s \in WorkerState :
        worker' = [worker EXCEPT ![w] = s] => worker' \in [Workers -> WorkerState]
  BY DEF TypeOK
<1>4. \A w \in Workers : worker[w].at = "wait" => RequestOf(w) \in Request
  BY DEF RequestOf, Request, Preconditions, TypeOK, WorkerState, Slice
<1>5. \A r \in Request : Handle(r) =>
        /\ store' \in [SliceKeys -> Slice \cup {None}]
        /\ watch' \in [SliceKeys -> Seq(Slice \cup {None})]
        /\ basis' \in [SliceKeys -> 0..MaxChanges]
  <2> SUFFICES ASSUME NEW r \in Request, Handle(r)
               PROVE  /\ store' \in [SliceKeys -> Slice \cup {None}]
                      /\ watch' \in [SliceKeys -> Seq(Slice \cup {None})]
                      /\ basis' \in [SliceKeys -> 0..MaxChanges]
    OBVIOUS
  <2>1. CASE Accepts(r)
    <3>1. r.key \in SliceKeys /\ r.cond \in Conditions /\ r.seen \in 0..MaxChanges
      BY DEF Request
    <3>2. store[r.key] \in Slice /\ FreshVersion \in ResourceVersions
      BY <2>1, <3>1, FreshVersionIsUnused DEF Handle, Accepts, TypeOK
    <3>3. [store[r.key] EXCEPT !.cond = r.cond, !.rv = FreshVersion] \in Slice
      BY <3>1, <3>2 DEF Slice
    <3> QED BY <2>1, <3>1, <3>3, PublishType DEF Handle, TypeOK
  <2>2. CASE ~Accepts(r)
    BY <2>2 DEF Handle, TypeOK
  <2> QED BY <2>1, <2>2
<1>6. ASSUME NEW w \in Workers, NEW k \in SliceKeys, Get(w, k) PROVE TypeOK'
  <2>1. worker' = [worker EXCEPT ![w] = [worker[w] EXCEPT !.at = "slice", !.key = k]]
    BY <1>6 DEF Get, TypeOK, WorkerState
  <2>2. [worker[w] EXCEPT !.at = "slice", !.key = k] \in WorkerState
    BY <1>6, KeyAssumption DEF Get, TypeOK, WorkerState
  <2> QED BY <1>3, <1>6, <2>1, <2>2 DEF Get, TypeOK
<1>7. ASSUME NEW w \in Workers, GetSlice(w) PROVE TypeOK'
  <2>1. worker[w].key \in SliceKeys
    BY <1>1, <1>7 DEF GetSlice
  <2> DEFINE s == sliceCache[worker[w].key]
             next == [worker[w] EXCEPT !.at = "export", !.old = s]
  <2>2. CASE Gone(s)
    BY <1>2, <1>7, <2>2 DEF GetSlice, TypeOK
  <2>3. CASE ~Gone(s)
    <3>1. worker' = [worker EXCEPT ![w] = next]
      BY <1>7, <2>3 DEF GetSlice, TypeOK, WorkerState
    <3>2. s \in Slice /\ s # None
      BY <2>1, <2>3 DEF Gone, TypeOK
    <3>3. next \in WorkerState
      BY <1>7, <3>2 DEF GetSlice, TypeOK, WorkerState
    <3>4. delayed' = delayed
      BY <1>7, <2>3 DEF GetSlice
    <3> HIDE DEF next, s
    <3> QED BY <1>3, <1>7, <3>1, <3>3, <3>4 DEF GetSlice, TypeOK
  <2> QED BY <2>2, <2>3
<1>8. ASSUME NEW w \in Workers, Reconcile(w) PROVE TypeOK'
  <2>1. (IF "exports" \in synced THEN Verdict(worker[w].key[1], worker[w].old.export)
         ELSE "APIExportNotFound") \in Conditions
    BY VerdictType DEF Conditions
  <2>2. clock \in 0..MaxChanges
    BY BoundAssumption DEF TypeOK
  <2>3. PICK c \in Conditions : worker' = [worker EXCEPT ![w] =
          [worker[w] EXCEPT !.at = "commit", !.seen = clock, !.cond = c]]
    BY <1>8, <2>1 DEF Reconcile, TypeOK, WorkerState
  <2>4. [worker[w] EXCEPT !.at = "commit", !.seen = clock, !.cond = c] \in WorkerState
    BY <1>8, <2>2 DEF Reconcile, TypeOK, WorkerState
  <2> QED BY <1>3, <1>8, <2>3, <2>4 DEF Reconcile, TypeOK
<1>9. ASSUME NEW w \in Workers, NothingToCommit(w) PROVE TypeOK'
  BY <1>2, <1>9 DEF NothingToCommit, TypeOK
<1>10. ASSUME NEW w \in Workers, Commit(w) PROVE TypeOK'
  <2>1. [worker[w] EXCEPT !.at = "wait"] \in WorkerState
    BY <1>10 DEF Commit, TypeOK, WorkerState
  <2> QED BY <1>3, <1>10, <2>1 DEF Commit, TypeOK
<1>11. ASSUME NEW w \in Workers, Answer(w) PROVE TypeOK'
  <2>1. PICK err \in BOOLEAN : Done(w, err)
    BY <1>11 DEF Answer
  <2>2. clock' = clock /\ (budget' = budget \/ (budget > 0 /\ budget' = budget - 1))
    BY <1>11 DEF Answer, Change
  <2>3. budget' \in 0..MaxChanges /\ clock' \in 0..MaxChanges - budget'
    BY <2>2, BoundAssumption DEF TypeOK
  <2> QED BY <1>2, <1>4, <1>5, <1>11, <2>1, <2>3 DEF Answer, TypeOK
<1>12. ASSUME NEW w \in Workers, TimesOut(w) PROVE TypeOK'
  <2>1. budget' \in 0..MaxChanges /\ clock' \in 0..MaxChanges - budget'
    BY <1>12, BoundAssumption DEF TimesOut, Change, TypeOK
  <2> QED BY <1>2, <1>4, <1>12, <2>1 DEF TimesOut, TypeOK
<1>13. ASSUME NEW r \in late, Arrives(r) PROVE TypeOK'
  BY <1>5, <1>13 DEF Arrives, TypeOK
<1>14. ASSUME NEW r \in late, Lost(r) PROVE TypeOK'
  BY <1>14 DEF Lost, TypeOK
<1> QED BY <1>6, <1>7, <1>8, <1>9, <1>10, <1>11, <1>12, <1>13, <1>14 DEF Step

LEMMA StepType == TypeOK /\ [Next]_vars => TypeOK'
<1>1. TypeOK /\ UNCHANGED vars => TypeOK'
  BY DEF vars, informed, queue, history, TypeOK
<1> QED BY <1>1, EnvironmentType, InformingType, WorkersType DEF Next

(* Every reachable state is well typed, and a worker with an object in     *)
(* hand holds its key.                                                     *)
THEOREM TypeCorrect == Spec => []TypeOK
<1>1. Init => TypeOK
  BY InitType
<1>2. TypeOK /\ [Next]_vars => TypeOK'
  BY StepType
<1> QED BY <1>1, <1>2, PTL DEF Spec

-----------------------------------------------------------------------------
(* The invariant.                                                          *)

(* s is what is known as slice j somewhere.                                *)
CopyOf(s, j) ==
  \/ s = None \/ s = store[j] \/ s = sliceCache[j]
  \/ \E i \in DOMAIN watch[j] : s = watch[j][i]
  \/ \E w \in Workers : worker[w].key = j /\ s = worker[w].old

(* A step either leaves slice j as it is or gives it a version of its own. *)
Unaltered(j) == store'[j] = store[j] /\ basis'[j] = basis[j] /\ held[j] \subseteq held'[j]
Renewed(j) == store'[j] # None => store'[j].rv \notin VersionsUsed
StoreStep ==
  /\ clock' \in {clock, clock + 1}
  /\ \A j \in SliceKeys : Unaltered(j) \/ Renewed(j)

(* A step makes no new copy but of what the API server has.                *)
CopyStep ==
  \A j \in SliceKeys :
    /\ CopyOf(sliceCache'[j], j)
    /\ \A i \in DOMAIN watch'[j] : CopyOf(watch'[j][i], j) \/ watch'[j][i] = store'[j]
    /\ \A w \in Workers : worker'[w].key = j => CopyOf(worker'[w].old, j)

(* A step makes no new request.                                            *)
RequestStep ==
  /\ \A w \in Workers : worker'[w].at \in {"commit", "wait"} =>
       /\ worker[w].at \in {"commit", "wait"}
       /\ worker'[w].key = worker[w].key /\ worker'[w].old = worker[w].old
       /\ worker'[w].cond = worker[w].cond /\ worker'[w].seen = worker[w].seen
  /\ late' \subseteq late \cup {RequestOf(w) : w \in {v \in Workers : worker[v].at = "wait"}}

LEMMA VersionsAreUsed ==
  ASSUME TypeOK
  PROVE  /\ \A j \in SliceKeys : \A s : CopyOf(s, j) /\ s # None => s.rv \in VersionsUsed
         /\ \A w \in Workers : worker[w].old # None => worker[w].old.rv \in VersionsUsed
         /\ \A r \in late : r.rv \in VersionsUsed
<1> DEFINE Watched == UNION {Range(watch[k]) : k \in SliceKeys}
<1>1. \A s \in KnownSlices : s # None => s.rv \in VersionsUsed
  BY DEF VersionsUsed
<1>2. \A j \in SliceKeys : store[j] \in KnownSlices /\ sliceCache[j] \in KnownSlices
  BY DEF KnownSlices, Range, TypeOK
<1>3. \A j \in SliceKeys : \A i \in DOMAIN watch[j] : watch[j][i] \in KnownSlices
  <2>1. \A j \in SliceKeys : \A i \in DOMAIN watch[j] : watch[j][i] \in Range(watch[j])
    BY DEF Range
  <2>2. \A j \in SliceKeys : Range(watch[j]) \subseteq Watched
    OBVIOUS
  <2>3. Watched \subseteq KnownSlices
    BY DEF KnownSlices
  <2> HIDE DEF Watched
  <2> QED BY <2>1, <2>2, <2>3
<1>4. \A w \in Workers : worker[w].old \in KnownSlices
  <2>1. \A w \in Workers : worker[w].old \in InHand
    BY DEF InHand
  <2>2. InHand \subseteq KnownSlices
    BY DEF KnownSlices
  <2> QED BY <2>1, <2>2
<1>5. \A r \in late : r.rv \in VersionsUsed
  BY DEF VersionsUsed
<1> QED BY <1>1, <1>2, <1>3, <1>4, <1>5 DEF CopyOf

LEMMA CopiesKept ==
  ASSUME TypeOK, CopiesAgree, StoreStep, CopyStep
  PROVE  CopiesAgree'
<1>1. ASSUME NEW j \in SliceKeys, NEW s, CopyOf(s, j), s # None, store'[j] # None,
             s.rv = store'[j].rv
      PROVE  s.export = store'[j].export
  <2>1. s.rv \in VersionsUsed
    BY <1>1, VersionsAreUsed
  <2>2. store'[j] = store[j]
    BY <1>1, <2>1 DEF StoreStep, Renewed, Unaltered
  <2> QED BY <1>1, <2>2 DEF CopyOf, CopiesAgree, Matches
<1> QED BY <1>1 DEF CopyStep, CopiesAgree, Matches

LEMMA RequestsKept ==
  ASSUME TypeOK, RequestsSound, StoreStep, RequestStep
  PROVE  RequestsSound'
<1>1. ASSUME NEW j \in SliceKeys, NEW v, NEW t \in 0..MaxChanges, NEW rv \in VersionsUsed,
             store'[j] # None, rv = store'[j].rv,
             store[j] # None /\ rv = store[j].rv => Sound(j, v, t)
      PROVE  Sound(j, v, t)'
  <2>1. clock \in Nat
    BY BoundAssumption DEF TypeOK
  <2> QED BY <1>1, <2>1, BoundAssumption DEF StoreStep, Renewed, Unaltered, Sound
<1>2. ASSUME NEW w \in Workers, worker[w].at \in {"commit", "wait"}
      PROVE  /\ worker[w].key \in SliceKeys /\ worker[w].seen \in 0..MaxChanges
             /\ worker[w].old # None /\ worker[w].old.rv \in VersionsUsed
             /\ Matches(worker[w].old, worker[w].key)
                  => Sound(worker[w].key, worker[w].cond, worker[w].seen)
  BY <1>2, VersionsAreUsed DEF TypeOK, WorkerState, RequestsSound
<1>3. ASSUME NEW w \in Workers, worker'[w].at \in {"commit", "wait"},
             Matches(worker[w].old, worker[w].key)'
      PROVE  Sound(worker[w].key, worker[w].cond, worker[w].seen)'
  <2>1. /\ worker[w].at \in {"commit", "wait"}
        /\ worker'[w].key = worker[w].key /\ worker'[w].old = worker[w].old
        /\ worker'[w].cond = worker[w].cond /\ worker'[w].seen = worker[w].seen
    BY <1>3 DEF RequestStep
  <2> QED BY <1>1, <1>2, <1>3, <2>1 DEF Matches
<1>4. ASSUME NEW r \in late', store'[r.key] # None, r.rv = store'[r.key].rv
      PROVE  Sound(r.key, r.cond, r.seen)'
  <2>1. CASE r \in late
    <3>1. r.rv \in VersionsUsed /\ r.key \in SliceKeys /\ r.seen \in 0..MaxChanges
      BY <2>1, VersionsAreUsed DEF TypeOK, Request
    <3> QED BY <1>1, <1>4, <2>1, <3>1 DEF RequestsSound
  <2>2. ASSUME NEW w \in Workers, worker[w].at = "wait", r = RequestOf(w)
        PROVE  Sound(r.key, r.cond, r.seen)'
    BY <1>1, <1>2, <1>4, <2>2 DEF RequestOf, Preconditions, Matches
  <2> QED BY <2>1, <2>2 DEF RequestStep
<1>5. \A r \in late' : r.rv # NoVersion
  BY KeyAssumption DEF RequestStep, RequestsSound, RequestOf, Preconditions, TypeOK, WorkerState, Slice
<1> QED BY <1>3, <1>4, <1>5 DEF RequestsSound

Parts == CopiesAgree /\ RequestsSound /\ SlicesSound /\ Justified

(* Steps that touch neither the API server nor the exports.                *)
LEMMA Framed ==
  ASSUME TypeOK, Parts, UNCHANGED <<store, exports, history>>, CopyStep, RequestStep
  PROVE  Parts'
<1>1. StoreStep
  BY DEF StoreStep, Unaltered, history
<1>2. CopiesAgree' /\ RequestsSound'
  BY <1>1, CopiesKept, RequestsKept DEF Parts
<1>3. \A c, r : Verdict(c, r)' = Verdict(c, r)
  BY DEF Verdict, APIExportsByPathAndName
<1>4. SlicesSound' /\ Justified'
  BY <1>3 DEF Parts, SlicesSound, Justified, history
<1> QED BY <1>2, <1>4 DEF Parts

LEMMA InformerStepsFramed ==
  ASSUME TypeOK, Parts, ListSlices \/ ListExports \/ Resync
                        \/ (\E k \in SliceKeys : Observe(k) \/ RateLimited(k))
                        \/ (\E n \in pending : Deliver(n))
  PROVE  Parts'
<1>1. UNCHANGED <<store, exports, history>> /\ UNCHANGED <<worker, late>>
  BY DEF ListSlices, ListExports, Resync, Observe, RateLimited, Deliver, informed, history
<1>2. RequestStep
  BY <1>1 DEF RequestStep
<1>3. ListSlices => CopyStep
  BY <1>1 DEF ListSlices, CopyStep, CopyOf
<1>4. ASSUME NEW k \in SliceKeys, Observe(k) PROVE CopyStep
  <2>1. PICK i \in {1, Len(watch[k])} :
          /\ watch[k] # <<>>
          /\ sliceCache' = [sliceCache EXCEPT ![k] = watch[k][i]]
          /\ watch' = [watch EXCEPT ![k] = SubSeq(@, i + 1, Len(@))]
    BY <1>4 DEF Observe
  <2>2. watch[k] \in Seq(Slice \cup {None}) /\ i \in 1..Len(watch[k])
    BY <2>1 DEF TypeOK
  <2>3. ASSUME NEW j \in SliceKeys PROVE CopyOf(sliceCache'[j], j)
    BY <2>1, <2>2 DEF CopyOf, TypeOK
  <2>4. ASSUME NEW j \in SliceKeys, NEW n \in DOMAIN watch'[j] PROVE CopyOf(watch'[j][n], j)
    <3>1. CASE j = k
      <4>1. watch'[k] = SubSeq(watch[k], i + 1, Len(watch[k]))
        BY <2>1 DEF TypeOK
      <4>2. n + i \in DOMAIN watch[k] /\ watch'[k][n] = watch[k][n + i]
        BY <2>2, <2>4, <3>1, <4>1
      <4> QED BY <3>1, <4>2 DEF CopyOf
    <3>2. CASE j # k
      BY <2>1, <2>4, <3>2 DEF CopyOf, TypeOK
    <3> QED BY <3>1, <3>2
  <2>5. \A j \in SliceKeys : \A w \in Workers : worker'[w].key = j => CopyOf(worker'[w].old, j)
    BY <1>1 DEF CopyOf
  <2> QED BY <2>3, <2>4, <2>5 DEF CopyStep
<1>5. UNCHANGED <<watch, sliceCache>> => CopyStep
  BY <1>1 DEF CopyStep, CopyOf
<1>6. CopyStep
  <2>1. ListExports \/ Resync \/ (\E k \in SliceKeys : RateLimited(k)) \/ (\E n \in pending : Deliver(n))
          => UNCHANGED <<watch, sliceCache>>
    BY DEF ListExports, Resync, RateLimited, Deliver, informed
  <2> QED BY <1>3, <1>4, <1>5, <2>1
<1> QED BY <1>1, <1>2, <1>6, Framed

LEMMA WorkerStepsFramed ==
  ASSUME TypeOK, Parts, NEW w \in Workers,
         \/ \E k \in SliceKeys : Get(w, k)
         \/ GetSlice(w) \/ NothingToCommit(w) \/ Commit(w) \/ TimesOut(w)
  PROVE  Parts'
<1>1. UNCHANGED <<store, exports, watch, sliceCache, history>>
  BY DEF Get, GetSlice, NothingToCommit, Commit, TimesOut, informed, history
<1>2. \A v \in Workers : v # w => worker'[v] = worker[v]
  BY DEF Get, GetSlice, NothingToCommit, Commit, TimesOut, Done, TypeOK
<1>3. /\ late' \subseteq late \cup {RequestOf(v) : v \in {u \in Workers : worker[u].at = "wait"}}
      /\ worker'[w].key \in SliceKeys => CopyOf(worker'[w].old, worker'[w].key)
      /\ worker'[w].at \in {"commit", "wait"} =>
           /\ worker[w].at \in {"commit", "wait"}
           /\ worker'[w].key = worker[w].key /\ worker'[w].old = worker[w].old
           /\ worker'[w].cond = worker[w].cond /\ worker'[w].seen = worker[w].seen
  <2>1. worker[w] \in WorkerState /\ worker \in [Workers -> WorkerState]
    BY DEF TypeOK
  <2>2. ASSUME NEW k \in SliceKeys, Get(w, k)
        PROVE  late' = late /\ worker'[w].at = "slice" /\ worker'[w].old = None
    BY <2>1, <2>2 DEF Get, WorkerState
  <2>3. CASE GetSlice(w) /\ ~Gone(sliceCache[worker[w].key])
    BY <2>1, <2>3 DEF GetSlice, WorkerState, CopyOf
  <2>4. CASE Commit(w)
    BY <2>1, <2>4 DEF Commit, WorkerState, CopyOf
  <2>5. CASE \/ GetSlice(w) /\ Gone(sliceCache[worker[w].key])
             \/ NothingToCommit(w) \/ TimesOut(w)
    <3>1. worker'[w] = Idle
      BY <2>1, <2>5 DEF GetSlice, NothingToCommit, TimesOut, Done
    <3>2. late' \subseteq late \cup {RequestOf(v) : v \in {u \in Workers : worker[u].at = "wait"}}
      BY <2>5 DEF GetSlice, NothingToCommit, TimesOut
    <3> QED BY <3>1, <3>2, KeyAssumption DEF Idle, CopyOf
  <2> QED BY <2>2, <2>3, <2>4, <2>5 DEF CopyOf
<1>4. CopyStep
  BY <1>1, <1>2, <1>3 DEF CopyStep, CopyOf
<1>5. RequestStep
  BY <1>2, <1>3 DEF RequestStep
<1> QED BY <1>1, <1>4, <1>5, Framed

(* A verdict made now of the object in hand is sound: if the object still  *)
(* has the slice's version, it refers to the export the slice refers to.   *)
LEMMA ReconcileSound ==
  ASSUME TypeOK, Parts, WorkersSynced, NEW w \in Workers, Reconcile(w)
  PROVE  Parts'
<1>1. UNCHANGED <<store, exports, watch, sliceCache, late, history>>
  BY DEF Reconcile, informed, history
<1>2. /\ \A v \in Workers : v # w => worker'[v] = worker[v]
      /\ worker'[w].key = worker[w].key /\ worker'[w].old = worker[w].old
      /\ worker'[w].cond = Verdict(worker[w].key[1], worker[w].old.export)
      /\ worker'[w].seen = clock
      /\ worker[w].key \in SliceKeys
  BY DEF Reconcile, TypeOK, WorkerState, WorkersSynced, Informers
<1>3. CopyStep
  BY <1>1, <1>2 DEF CopyStep, CopyOf
<1>4. StoreStep
  BY <1>1 DEF StoreStep, Unaltered, history
<1>5. CopiesAgree'
  BY <1>3, <1>4, CopiesKept DEF Parts
<1>6. SlicesSound' /\ Justified'
  <2>1. \A c, r : Verdict(c, r)' = Verdict(c, r)
    BY <1>1 DEF Verdict, APIExportsByPathAndName
  <2> QED BY <1>1, <2>1 DEF Parts, SlicesSound, Justified, history
<1>7. Matches(worker[w].old, worker[w].key)
        => Sound(worker[w].key, Verdict(worker[w].key[1], worker[w].old.export), clock)
  <2>1. clock <= clock
    BY BoundAssumption DEF TypeOK
  <2> QED BY <1>2, <2>1 DEF Parts, CopiesAgree, SlicesSound, Sound, Matches
<1>8. RequestsSound'
  <2>1. ASSUME NEW v \in Workers, worker'[v].at \in {"commit", "wait"},
               Matches(worker[v].old, worker[v].key)'
        PROVE  Sound(worker[v].key, worker[v].cond, worker[v].seen)'
    <3>1. CASE v = w
      BY <1>1, <1>2, <1>7, <2>1, <3>1 DEF Matches, Sound, history
    <3>2. CASE v # w
      BY <1>1, <1>2, <2>1, <3>2 DEF Matches, Sound, history, Parts, RequestsSound
    <3> QED BY <3>1, <3>2
  <2> QED BY <1>1, <2>1 DEF Parts, RequestsSound, Sound, history
<1> QED BY <1>5, <1>6, <1>8 DEF Parts

(* A crash forgets everything but the requests under way.                  *)
LEMMA CrashFramed ==
  ASSUME TypeOK, Parts, Crash
  PROVE  Parts'
<1>1. UNCHANGED <<store, exports, history>>
  BY DEF Crash
<1>2. \A j \in SliceKeys : sliceCache'[j] = None /\ watch'[j] = <<>>
  BY DEF Crash
<1>3. \A w \in Workers : worker'[w] = Idle
  BY DEF Crash
<1>4. CopyStep
  BY <1>2, <1>3, KeyAssumption DEF CopyStep, CopyOf, Idle
<1>5. RequestStep
  BY <1>3 DEF RequestStep, Idle, Crash
<1> QED BY <1>1, <1>4, <1>5, Framed

(* An export changes: the verdicts of that moment join those a slice may   *)
(* have, and time goes on.                                                 *)
LEMMA SetExportSound ==
  ASSUME TypeOK, Parts, NEW e \in ExportKeys, SetExport(e)
  PROVE  Parts'
<1>1. /\ UNCHANGED <<store, watch, sliceCache, worker, late, basis>>
      /\ clock' = clock + 1
      /\ held' = [k \in SliceKeys |-> IF store[k] = None THEN held[k]
                                      ELSE held[k] \cup {Verdict(k[1], store[k].export)'}]
  BY DEF SetExport, queue
<1>2. StoreStep
  BY <1>1 DEF StoreStep, Unaltered
<1>3. CopyStep
  BY <1>1 DEF CopyStep, CopyOf
<1>4. RequestStep
  BY <1>1 DEF RequestStep
<1>5. SlicesSound'
  <2>1. \A k \in SliceKeys : basis[k] \in 0..MaxChanges /\ clock \in 0..MaxChanges
    BY BoundAssumption DEF TypeOK
  <2> QED BY <1>1, <2>1, BoundAssumption DEF Parts, SlicesSound
<1>6. Justified'
  BY <1>1 DEF Parts, Justified
<1> QED BY <1>2, <1>3, <1>4, <1>5, <1>6, CopiesKept, RequestsKept DEF Parts

(* The API server takes a version s of slice k that nobody has: it is      *)
(* sound if its verdict is one of those it may have.                       *)
LEMMA PublishSound ==
  ASSUME TypeOK, Parts, NEW k \in SliceKeys, NEW s, Publish(k, s),
         s # None => /\ s.rv \notin VersionsUsed
                     /\ Verdict(k[1], s.export) \in held'[k]
                     /\ basis'[k] <= clock
                     /\ s.cond \in held'[k] \cup {"Unset"},
         UNCHANGED <<sliceCache, exports, clock>>,
         \A j \in SliceKeys \ {k} : basis'[j] = basis[j] /\ held'[j] = held[j],
         \A w \in Workers : worker'[w] \in {worker[w], Idle},
         late' \subseteq late
  PROVE  Parts'
<1>1. /\ store'[k] = s
      /\ \A j \in SliceKeys \ {k} : store'[j] = store[j]
  BY DEF Publish, TypeOK
<1>2. StoreStep
  BY <1>1 DEF StoreStep, Unaltered, Renewed
<1>3. CopyStep
  <2>1. \A j \in SliceKeys : \A i \in DOMAIN watch'[j] :
          CopyOf(watch'[j][i], j) \/ watch'[j][i] = store'[j]
    <3>1. ASSUME NEW j \in SliceKeys, NEW i \in DOMAIN watch'[j]
          PROVE  (i \in DOMAIN watch[j] /\ watch'[j][i] = watch[j][i]) \/ watch'[j][i] = store'[j]
      <4>1. CASE watch' = watch
        BY <3>1, <4>1
      <4>2. CASE watch' = [watch EXCEPT ![k] = Append(@, s)]
        <5>1. CASE j = k
          BY <1>1, <3>1, <4>2, <5>1 DEF TypeOK
        <5>2. CASE j # k
          BY <3>1, <4>2, <5>2 DEF TypeOK
        <5> QED BY <5>1, <5>2
      <4> QED BY <4>1, <4>2 DEF Publish
    <3> QED BY <3>1 DEF CopyOf
  <2>2. \A j \in SliceKeys : \A w \in Workers : worker'[w].key = j => CopyOf(worker'[w].old, j)
    BY KeyAssumption DEF CopyOf, Idle
  <2>3. \A j \in SliceKeys : CopyOf(sliceCache'[j], j)
    BY DEF CopyOf
  <2> QED BY <2>1, <2>2, <2>3 DEF CopyStep
<1>4. RequestStep
  BY DEF RequestStep, Idle
<1>5. SlicesSound' /\ Justified'
  <2>1. \A c, r : Verdict(c, r)' = Verdict(c, r)
    BY DEF Verdict, APIExportsByPathAndName
  <2>2. ASSUME NEW j \in SliceKeys, store'[j] # None
        PROVE  /\ Verdict(j[1], store'[j].export) \in held'[j]
               /\ basis'[j] <= clock
               /\ store'[j].cond \in held'[j] \cup {"Unset"}
    <3>1. CASE j = k
      BY <1>1, <2>2, <3>1
    <3>2. CASE j # k
      BY <1>1, <2>2, <3>2 DEF Parts, SlicesSound, Justified
    <3> QED BY <3>1, <3>2
  <2> QED BY <2>1, <2>2 DEF SlicesSound, Justified
<1> QED BY <1>2, <1>3, <1>4, <1>5, CopiesKept, RequestsKept DEF Parts

LEMMA SliceChangesSound ==
  ASSUME TypeOK, Parts, NEW k \in SliceKeys, CreateSlice(k) \/ DeleteSlice(k) \/ TouchSlice(k)
  PROVE  Parts'
<1>1. /\ UNCHANGED <<sliceCache, exports, clock, worker, late>>
      /\ \A j \in SliceKeys \ {k} : basis'[j] = basis[j] /\ held'[j] = held[j]
  BY DEF CreateSlice, DeleteSlice, TouchSlice, history, TypeOK
<1>2. CASE CreateSlice(k)
  <2>1. PICK r \in SliceCatalog[k] \ {None} :
          /\ Unused # {}
          /\ Publish(k, [export |-> r, rv |-> FreshVersion, cond |-> "Unset"])
          /\ basis'[k] = 0 /\ held'[k] = {Verdict(k[1], r)}
    BY <1>2 DEF CreateSlice, TypeOK
  <2>2. 0 <= clock
    BY BoundAssumption DEF TypeOK
  <2> QED BY <1>1, <2>1, <2>2, FreshVersionIsUnused, PublishSound
<1>3. CASE DeleteSlice(k)
  BY <1>1, <1>3, PublishSound DEF DeleteSlice
<1>4. CASE TouchSlice(k)
  <2> DEFINE s == [store[k] EXCEPT !.rv = FreshVersion]
  <2>1. /\ s.rv = FreshVersion /\ s.export = store[k].export /\ s.cond = store[k].cond
        /\ store[k] # None /\ Publish(k, s)
    BY <1>4 DEF TouchSlice, TypeOK, Slice
  <2>2. s.rv \notin VersionsUsed
    BY <1>4, <2>1, FreshVersionIsUnused DEF TouchSlice
  <2>3. UNCHANGED <<basis, held>>
    BY <1>4 DEF TouchSlice, history
  <2>4. Verdict(k[1], s.export) = Verdict(k[1], store[k].export)
    BY <2>1
  <2> HIDE DEF s
  <2>5. /\ Verdict(k[1], s.export) \in held'[k]
        /\ basis'[k] <= clock
        /\ s.cond \in held'[k] \cup {"Unset"}
    BY <2>1, <2>3, <2>4 DEF Parts, SlicesSound, Justified
  <2> QED BY <1>1, <2>1, <2>2, <2>5, PublishSound
<1> QED BY <1>2, <1>3, <1>4

(* A request the API server accepts was made of the slice as it is.        *)
LEMMA AcceptedIsSound ==
  ASSUME TypeOK, RequestsSound, NEW r \in Request, Accepts(r),
         r \in late \/ \E w \in Workers : worker[w].at = "wait" /\ r = RequestOf(w)
  PROVE  Sound(r.key, r.cond, r.seen)
<1>1. CASE r \in late
  BY <1>1 DEF Accepts, RequestsSound
<1>2. ASSUME NEW w \in Workers, worker[w].at = "wait", r = RequestOf(w)
      PROVE  Sound(r.key, r.cond, r.seen)
  <2>1. worker[w].old \in Slice /\ worker[w].old # None
    BY <1>2 DEF TypeOK, WorkerState
  <2>2. Matches(worker[w].old, worker[w].key)
    BY <1>2, <2>1, KeyAssumption DEF Accepts, RequestOf, Preconditions, Matches, Slice
  <2> QED BY <1>2, <2>2 DEF RequestsSound, RequestOf
<1> QED BY <1>1, <1>2

LEMMA HandleSound ==
  ASSUME TypeOK, Parts, NEW r \in Request, Handle(r),
         r \in late \/ (\E w \in Workers : worker[w].at = "wait" /\ r = RequestOf(w)),
         UNCHANGED <<sliceCache, exports, clock, held>>,
         \A w \in Workers : worker'[w] \in {worker[w], Idle},
         late' \subseteq late
  PROVE  Parts'
<1>1. CASE Accepts(r)
  <2> DEFINE k == r.key
             s == [store[k] EXCEPT !.cond = r.cond, !.rv = FreshVersion]
  <2>1. k \in SliceKeys /\ store[k] \in Slice /\ store[k] # None
    BY <1>1 DEF Accepts, Request, TypeOK
  <2>2. s.rv = FreshVersion /\ s.export = store[k].export /\ s.cond = r.cond
    BY <2>1 DEF Slice
  <2>3. Publish(k, s) /\ Unused # {} /\ basis' = [basis EXCEPT ![k] = r.seen]
    BY <1>1 DEF Handle
  <2>4. Sound(k, r.cond, r.seen)
    BY <1>1, AcceptedIsSound DEF Parts
  <2> HIDE DEF s, k
  <2>5. /\ s.rv \notin VersionsUsed
        /\ Verdict(k[1], s.export) \in held'[k]
        /\ basis'[k] <= clock
        /\ s.cond \in held'[k] \cup {"Unset"}
    BY <2>1, <2>2, <2>3, <2>4, FreshVersionIsUnused DEF Sound, Parts, SlicesSound, TypeOK
  <2>6. \A j \in SliceKeys \ {k} : basis'[j] = basis[j] /\ held'[j] = held[j]
    BY <2>3 DEF TypeOK
  <2> QED BY <2>1, <2>3, <2>5, <2>6, PublishSound
<1>2. CASE ~Accepts(r)
  <2>1. UNCHANGED <<store, watch, exports, history>>
    BY <1>2 DEF Handle, history
  <2>2. CopyStep
    BY <2>1, KeyAssumption DEF CopyStep, CopyOf, Idle
  <2>3. RequestStep
    BY DEF RequestStep, Idle
  <2> QED BY <2>1, <2>2, <2>3, Framed
<1> QED BY <1>1, <1>2

(* The requests that are answered, or arrive or get lost unattended.       *)
LEMMA RequestStepsSound ==
  ASSUME TypeOK, Parts, \/ \E w \in Workers : Answer(w)
                        \/ \E r \in late : Arrives(r) \/ Lost(r)
  PROVE  Parts'
<1> USE DEF informed, queue, history
<1>1. ASSUME NEW w \in Workers, Answer(w) PROVE Parts'
  <2>1. RequestOf(w) \in Request
    BY <1>1 DEF Answer, RequestOf, Request, Preconditions, TypeOK, WorkerState, Slice
  <2>2. \A v \in Workers : worker'[v] \in {worker[v], Idle}
    BY <1>1 DEF Answer, Done, TypeOK
  <2>3. /\ worker[w].at = "wait" /\ Handle(RequestOf(w)) /\ late' = late
        /\ UNCHANGED <<sliceCache, exports, clock, held>>
    BY <1>1 DEF Answer
  <2> QED BY <2>1, <2>2, <2>3, HandleSound
<1>2. ASSUME NEW r \in late, Arrives(r) PROVE Parts'
  BY <1>2, HandleSound DEF Arrives, TypeOK
<1>3. ASSUME NEW r \in late, Lost(r) PROVE Parts'
  BY <1>3, Framed DEF Lost, CopyStep, CopyOf, RequestStep
<1> QED BY <1>1, <1>2, <1>3

LEMMA PartsKept ==
  ASSUME TypeOK, Parts, WorkersSynced, [Next]_vars
  PROVE  Parts'
<1>1. CASE UNCHANGED vars
  BY <1>1, Framed DEF vars, informed, queue, history, CopyStep, CopyOf, RequestStep
<1>2. CASE Environment
  BY <1>2, SliceChangesSound, SetExportSound, CrashFramed DEF Environment
<1>3. CASE Informing \/ Resync \/ \E k \in SliceKeys : RateLimited(k)
  BY <1>3, InformerStepsFramed DEF Informing
<1>4. CASE \E w \in Workers : (\E k \in SliceKeys : Get(w, k)) \/ Step(w) \/ TimesOut(w)
  BY <1>4, WorkerStepsFramed, ReconcileSound, RequestStepsSound DEF Step
<1>5. CASE \E r \in late : Arrives(r) \/ Lost(r)
  BY <1>5, RequestStepsSound
<1> QED BY <1>1, <1>2, <1>3, <1>4, <1>5 DEF Next

(* The workers start on synced caches, and only a crash forgets those.     *)
LEMMA WorkersSyncedKept ==
  ASSUME TypeOK, WorkersSynced, [Next]_vars
  PROVE  WorkersSynced'
<1>1. CASE Crash
  BY <1>1 DEF Crash, WorkersSynced, Idle
<1>2. CASE ListSlices \/ ListExports
  BY <1>2 DEF ListSlices, ListExports, WorkersSynced, Informers, TypeOK
<1>3. ASSUME NEW w \in Workers, NEW k \in SliceKeys, Get(w, k) PROVE WorkersSynced'
  BY <1>3 DEF Get, Wait, informed, WorkersSynced
<1>4. ASSUME NEW w \in Workers, Step(w) \/ TimesOut(w) PROVE WorkersSynced'
  <2>1. synced' = synced
    BY <1>4 DEF Step, TimesOut, GetSlice, Reconcile, NothingToCommit, Commit, Answer, informed
  <2>2. worker[w].at # "idle" /\ \A v \in Workers \ {w} : worker'[v] = worker[v]
    BY <1>4 DEF Step, TimesOut, GetSlice, Reconcile, NothingToCommit, Commit, Answer, Done, TypeOK
  <2> QED BY <2>1, <2>2 DEF WorkersSynced
<1>5. CASE UNCHANGED <<worker, synced>>
  BY <1>5 DEF WorkersSynced
<1>6. Environment /\ ~Crash => UNCHANGED <<worker, synced>>
  BY DEF Environment, CreateSlice, DeleteSlice, TouchSlice, SetExport
<1>7. Informing \/ Resync \/ (\E k \in SliceKeys : RateLimited(k)) =>
        ListSlices \/ ListExports \/ UNCHANGED <<worker, synced>>
  BY DEF Informing, Observe, Deliver, Resync, RateLimited, informed
<1>8. (\E r \in late : Arrives(r) \/ Lost(r)) \/ UNCHANGED vars => UNCHANGED <<worker, synced>>
  BY DEF Arrives, Lost, vars, informed
<1> QED BY <1>1, <1>2, <1>3, <1>4, <1>5, <1>6, <1>7, <1>8 DEF Next

LEMMA InitIInv == Init => IInv
<1> SUFFICES ASSUME Init PROVE IInv
  OBVIOUS
<1>1. TypeOK
  BY InitType
<1>2. \A j \in SliceKeys : store[j] = None
  BY DEF Init
<1>3. \A w \in Workers : worker[w] = Idle
  BY DEF Init
<1>4. late = {}
  BY DEF Init
<1> QED BY <1>1, <1>2, <1>3, <1>4
        DEF IInv, CopiesAgree, Matches, RequestsSound, SlicesSound, WorkersSynced, Justified, Idle

LEMMA StepIInv == IInv /\ [Next]_vars => IInv'
BY StepType, PartsKept, WorkersSyncedKept DEF IInv, Parts

(* A condition was true at some time of its slice's life.                  *)
THEOREM ConditionsAreJustified == Spec => []Justified
<1>1. Init => IInv
  BY InitIInv
<1>2. IInv /\ [Next]_vars => IInv'
  BY StepIInv
<1>3. IInv => Justified
  BY DEF IInv
<1> QED BY <1>1, <1>2, <1>3, PTL DEF Spec

(* The time on which the condition of a slice rests goes back in no step   *)
(* that leaves the slice in place.                                         *)
LEMMA BasisGrows ==
  ASSUME IInv, [Next]_vars, NEW k \in SliceKeys, store[k] # None
  PROVE  basis'[k] >= basis[k]
<1>1. basis[k] \in Nat
  BY BoundAssumption DEF IInv, TypeOK
<1>2. ASSUME NEW r \in Request, Handle(r),
             r \in late \/ (\E w \in Workers : worker[w].at = "wait" /\ r = RequestOf(w))
      PROVE  basis'[k] >= basis[k]
  <2>1. CASE Accepts(r)
    <3>1. basis' = [basis EXCEPT ![r.key] = r.seen] /\ r.seen \in Nat
      BY <2>1, <1>2, BoundAssumption DEF Handle, Request
    <3>2. basis[r.key] <= r.seen
      BY <2>1, <1>2, AcceptedIsSound DEF Sound, IInv
    <3> QED BY <1>1, <3>1, <3>2 DEF IInv, TypeOK
  <2>2. CASE ~Accepts(r)
    BY <1>1, <1>2, <2>2 DEF Handle
  <2> QED BY <2>1, <2>2
<1>3. ASSUME NEW w \in Workers, Answer(w) PROVE basis'[k] >= basis[k]
  <2>1. RequestOf(w) \in Request
    BY <1>3 DEF Answer, RequestOf, Request, Preconditions, IInv, TypeOK, WorkerState, Slice
  <2> QED BY <1>2, <1>3, <2>1 DEF Answer
<1>4. ASSUME NEW r \in late, Arrives(r) PROVE basis'[k] >= basis[k]
  BY <1>2, <1>4 DEF Arrives, IInv, TypeOK
<1>5. ASSUME NEW j \in SliceKeys, CreateSlice(j) PROVE basis'[k] = basis[k]
  BY <1>5 DEF CreateSlice, IInv, TypeOK
<1>6. CASE basis' = basis
  BY <1>1, <1>6
<1>7. Environment => basis' = basis \/ \E j \in SliceKeys : CreateSlice(j)
  BY DEF Environment, DeleteSlice, TouchSlice, SetExport, Crash, history
<1>8. Informing \/ Resync \/ (\E j \in SliceKeys : RateLimited(j)) => basis' = basis
  BY DEF Informing, ListSlices, ListExports, Observe, Deliver, Resync, RateLimited, history
<1>9. \A w \in Workers : (\E j \in SliceKeys : Get(w, j)) \/ Step(w) \/ TimesOut(w)
        => basis' = basis \/ Answer(w)
  BY DEF Get, Step, TimesOut, GetSlice, Reconcile, NothingToCommit, Commit, history
<1>10. (\E r \in late : Lost(r)) \/ UNCHANGED vars => basis' = basis
  BY DEF Lost, vars, history
<1> QED BY <1>1, <1>3, <1>4, <1>5, <1>6, <1>7, <1>8, <1>9, <1>10 DEF Next

(* A late status write never undoes a later verdict.                       *)
THEOREM LaterVerdictsWin == Spec => LaterVerdictWins
<1>1. Init => IInv
  BY InitIInv
<1>2. IInv /\ [Next]_vars => IInv'
  BY StepIInv
<1>3. IInv /\ [Next]_vars =>
        [\A k \in SliceKeys :
           store[k] # None /\ store'[k] # None /\ store'[k].cond # store[k].cond
             => basis'[k] >= basis[k]]_vars
  BY BasisGrows
<1> QED BY <1>1, <1>2, <1>3, PTL DEF Spec, LaterVerdictWins

=============================================================================
