--------------------------- MODULE ConditionProofs ---------------------------
(***************************************************************************)
(* A slice about which nothing is under way has the right condition        *)
(* (ConditionInSync), for every set of clusters, slices, exports and       *)
(* workers, as long as exports keep the path annotation they have, whose   *)
(* changes the controller does not handle.                                 *)
(*                                                                         *)
(* The argument: either somebody will look at the slice again, or what the *)
(* informer has is what the API server has, and then what a worker holds   *)
(* is that, and the verdict it came to is the one there is now.            *)
(***************************************************************************)
EXTENDS EndpointSliceProofs, SequenceTheorems

(* An export that is announced has the path it had before, if it had one.  *)
PathsStay == \A e \in ExportKeys : \A x, y \in ExportCatalog[e] \ {None} : x = y

ExportsInCatalog == \A e \in ExportKeys : exports[e] \in ExportCatalog[e]

(* The informer lacks exactly the versions that the watch still holds.     *)
WatchSound ==
  \A k \in SliceKeys :
    /\ "slices" \notin synced => watch[k] = <<>>
    /\ "slices" \in synced =>
         store[k] = IF watch[k] = <<>> THEN sliceCache[k] ELSE watch[k][Len(watch[k])]

(* The first list announces every slice there is, and no worker takes that *)
(* away while the exports have not listed.                                 *)
Announced(k) ==
  watch[k] # <<>> \/ [kind |-> "slice", key |-> k] \in pending \/ k \in dirty \cup delayed

Listed ==
  "slices" \in synced /\ synced # Informers =>
    \A k \in SliceKeys : store[k] # None => Announced(k)

(* What a worker holds of a slice nobody will look at again is the slice   *)
(* as it is, and its verdict is the one there is now.                      *)
Current(w) ==
  LET s == worker[w]
      k == s.key
  IN  s.at \in {"export", "commit", "wait"} /\ store[k] # None /\ ~Woken(k) =>
        /\ s.old = store[k]
        /\ s.at # "export" => s.cond = Verdict(k[1], store[k].export)

WorkersCurrent == \A w \in Workers : Current(w)

Settled == WorkersCurrent /\ ConditionInSync

SyncInv == TypeOK /\ WorkersSynced /\ ExportsInCatalog /\ WatchSound /\ Listed /\ Settled

-----------------------------------------------------------------------------
(* What is under way stays under way.                                      *)
LEMMA WokenStays ==
  ASSUME NEW k, Woken(k), store'[k] = store[k],
         synced' = synced \/ synced' # Informers,
         watch[k] # <<>> => watch'[k] # <<>>,
         pending \subseteq pending',
         dirty \cup delayed \subseteq dirty' \cup delayed'
  PROVE  Woken(k)'
<1>1. ExportNews(k) => ExportNews(k)'
  BY DEF ExportNews
<1> QED BY <1>1 DEF Woken

(* A step that lets a slice rest finds it at rest, leaves it and what is   *)
(* true of its export alone, and lets no worker go on.                     *)
LEMMA RestKept ==
  ASSUME Settled,
         \A k \in SliceKeys : store'[k] # None /\ ~Woken(k)' =>
           /\ store'[k] = store[k] /\ ~Woken(k)
           /\ Verdict(k[1], store[k].export)' = Verdict(k[1], store[k].export)
           /\ \/ k \in Processing => k \in Processing'
              \/ store[k].cond = Verdict(k[1], store[k].export),
         \A w \in Workers : worker'[w].at \in {"idle", "slice"} \/ worker'[w] = worker[w],
         TypeOK
  PROVE  Settled'
<1>1. ASSUME NEW w \in Workers PROVE Current(w)'
  <2>1. CASE worker'[w].at \in {"idle", "slice"}
    BY <2>1 DEF Current
  <2>2. CASE worker'[w] = worker[w] /\ worker[w].at \notin {"idle", "slice"}
    <3>1. worker[w].key \in SliceKeys
      BY <2>2 DEF TypeOK, WorkerState
    <3> QED BY <2>2, <3>1 DEF Settled, WorkersCurrent, Current
  <2> QED BY <2>1, <2>2
<1>2. ConditionInSync'
  <2> SUFFICES ASSUME NEW k \in SliceKeys,
                      store'[k] # None, ~Woken(k)', k \notin Processing'
               PROVE  (store[k].cond = Verdict(k[1], store[k].export))'
    BY DEF ConditionInSync
  <2> QED BY DEF Settled, ConditionInSync
<1> QED BY <1>1, <1>2 DEF Settled, WorkersCurrent

LEMMA VerdictsStay == exports' = exports => \A c, r : Verdict(c, r)' = Verdict(c, r)
BY DEF Verdict, APIExportsByPathAndName

(* A step of worker w, which has its key in hand before and after.         *)
LEMMA WorkerGoesOn ==
  ASSUME TypeOK, Settled, UNCHANGED <<store, informed>>, UNCHANGED <<dirty, delayed>>,
         NEW w \in Workers, worker[w].at # "idle", Current(w)',
         worker'[w].key = worker[w].key,
         \A v \in Workers \ {w} : worker'[v] = worker[v]
  PROVE  Settled'
<1>1. \A k \in SliceKeys : Woken(k)' = Woken(k)
  BY DEF Woken, ExportNews, informed
<1>2. Processing' = Processing
  BY DEF Processing
<1>3. \A c, r : Verdict(c, r)' = Verdict(c, r)
  BY VerdictsStay DEF informed
<1>4. ASSUME NEW v \in Workers \ {w} PROVE Current(v)'
  <2>1. worker[v].at # "idle" => worker[v].key \in SliceKeys
    BY DEF TypeOK, WorkerState
  <2> QED BY <1>1, <1>3, <2>1 DEF Current, Settled, WorkersCurrent
<1>5. ConditionInSync'
  BY <1>1, <1>2, <1>3 DEF ConditionInSync, Settled
<1> QED BY <1>4, <1>5 DEF Settled, WorkersCurrent

-----------------------------------------------------------------------------
(* A new version of slice k wakes k up, and is the last one of the watch.  *)
LEMMA PublishWakes ==
  ASSUME TypeOK, WatchSound, NEW k \in SliceKeys, NEW s \in Slice \cup {None}, Publish(k, s),
         UNCHANGED <<sliceCache, synced>>
  PROVE  /\ Woken(k)' /\ WatchSound'
         /\ \A j \in SliceKeys \ {k} : store'[j] = store[j] /\ watch'[j] = watch[j]
         /\ "slices" \in synced => watch'[k] # <<>>
<1>1. /\ store'[k] = s
      /\ \A j \in SliceKeys \ {k} : store'[j] = store[j]
  BY DEF Publish, TypeOK
<1>2. CASE "slices" \in synced
  <2>1. /\ watch'[k] = Append(watch[k], s)
        /\ \A j \in SliceKeys \ {k} : watch'[j] = watch[j]
    BY <1>2 DEF Publish, TypeOK
  <2>2. watch[k] \in Seq(Slice \cup {None})
    BY DEF TypeOK
  <2>3. watch'[k] # <<>> /\ watch'[k][Len(watch'[k])] = s
    BY <2>1, <2>2, AppendProperties
  <2> QED BY <1>1, <1>2, <2>1, <2>3 DEF Woken, WatchSound
<1>3. CASE "slices" \notin synced
  BY <1>1, <1>3 DEF Publish, Woken, WatchSound, Informers
<1> QED BY <1>2, <1>3

(* A slice is published, and workers may end their pass over it.           *)
LEMMA PublishSettled ==
  ASSUME TypeOK, WatchSound, Listed, Settled,
         NEW k \in SliceKeys, NEW s \in Slice \cup {None}, Publish(k, s),
         UNCHANGED <<sliceCache, exports, synced, pending, dirty>>, delayed \subseteq delayed',
         \A w \in Workers : worker'[w] = worker[w] \/ (worker[w].key = k /\ worker'[w] = Idle)
  PROVE  WatchSound' /\ Listed' /\ Settled'
<1>1. /\ Woken(k)' /\ WatchSound'
      /\ \A j \in SliceKeys \ {k} : store'[j] = store[j] /\ watch'[j] = watch[j]
      /\ "slices" \in synced => watch'[k] # <<>>
  BY PublishWakes
<1>2. Listed'
  BY <1>1 DEF Listed, Announced
<1>3. ASSUME NEW j \in SliceKeys, store'[j] # None, ~Woken(j)'
      PROVE  /\ store'[j] = store[j] /\ ~Woken(j)
             /\ Verdict(j[1], store[j].export)' = Verdict(j[1], store[j].export)
             /\ j \in Processing => j \in Processing'
  <2>1. j # k
    BY <1>1, <1>3
  <2>2. store'[j] = store[j] /\ watch'[j] = watch[j]
    BY <1>1, <2>1
  <2>3. ~Woken(j)
    BY <1>3, <2>2, WokenStays
  <2>4. j \in Processing => j \in Processing'
    BY <2>1 DEF Processing
  <2>5. \A c, r : Verdict(c, r)' = Verdict(c, r)
    BY VerdictsStay
  <2> QED BY <2>2, <2>3, <2>4, <2>5
<1>4. Settled'
  BY <1>3, RestKept DEF Idle
<1> QED BY <1>1, <1>2, <1>4

LEMMA SliceChangesSettled ==
  ASSUME TypeOK, WatchSound, Listed, Settled,
         NEW k \in SliceKeys, CreateSlice(k) \/ DeleteSlice(k) \/ TouchSlice(k)
  PROVE  WatchSound' /\ Listed' /\ Settled'
<1>1. PICK s \in Slice \cup {None} : Publish(k, s)
  <2>1. CASE CreateSlice(k)
    <3>1. PICK r \in SliceCatalog[k] \ {None} :
            /\ Unused # {} /\ Publish(k, [export |-> r, rv |-> FreshVersion, cond |-> "Unset"])
      BY <2>1 DEF CreateSlice
    <3>2. [export |-> r, rv |-> FreshVersion, cond |-> "Unset"] \in Slice
      BY <3>1, FreshVersionIsUnused, CatalogAssumption DEF Slice, Conditions
    <3> QED BY <3>1, <3>2
  <2>2. CASE DeleteSlice(k)
    BY <2>2 DEF DeleteSlice
  <2>3. CASE TouchSlice(k)
    <3>1. [store[k] EXCEPT !.rv = FreshVersion] \in Slice
      BY <2>3, FreshVersionIsUnused DEF TouchSlice, Slice, TypeOK
    <3> QED BY <2>3, <3>1 DEF TouchSlice
  <2> QED BY <2>1, <2>2, <2>3
<1>2. UNCHANGED <<sliceCache, exports, synced, pending, dirty, delayed, worker>>
  BY DEF CreateSlice, DeleteSlice, TouchSlice, queue
<1> QED BY <1>1, <1>2, PublishSettled

(* The API server answers a request r of worker w, or one nobody awaits.   *)
LEMMA HandleSettled ==
  ASSUME TypeOK, WatchSound, Listed, Settled, NEW r \in Request, Handle(r),
         UNCHANGED <<sliceCache, exports, synced, pending, dirty>>, delayed \subseteq delayed',
         \A w \in Workers : worker'[w] = worker[w]
                            \/ (worker[w].key = r.key /\ worker'[w] = Idle),
         worker' = worker \/ Accepts(r) \/ r.key \in delayed'
  PROVE  WatchSound' /\ Listed' /\ Settled'
<1>1. r.key \in SliceKeys /\ r.cond \in Conditions
  BY DEF Request
<1>2. CASE Accepts(r)
  <2>1. store[r.key] \in Slice /\ FreshVersion \in ResourceVersions
    BY <1>1, <1>2, FreshVersionIsUnused DEF Handle, Accepts, TypeOK
  <2>2. [store[r.key] EXCEPT !.cond = r.cond, !.rv = FreshVersion] \in Slice
    BY <1>1, <2>1 DEF Slice
  <2> QED BY <1>1, <1>2, <2>2, PublishSettled DEF Handle
<1>3. CASE ~Accepts(r)
  <2>1. UNCHANGED <<store, watch>>
    BY <1>3 DEF Handle
  <2>2. WatchSound' /\ Listed'
    BY <2>1 DEF WatchSound, Listed, Announced
  <2>3. ASSUME NEW j \in SliceKeys, store'[j] # None, ~Woken(j)'
        PROVE  /\ store'[j] = store[j] /\ ~Woken(j)
               /\ Verdict(j[1], store[j].export)' = Verdict(j[1], store[j].export)
               /\ j \in Processing => j \in Processing'
    <3>1. ~Woken(j)
      BY <2>1, <2>3, WokenStays
    <3>2. worker' = worker \/ j # r.key
      BY <1>3, <2>3 DEF Woken
    <3>3. j \in Processing => j \in Processing'
      BY <3>2 DEF Processing
    <3>4. \A c, x : Verdict(c, x)' = Verdict(c, x)
      BY VerdictsStay
    <3> QED BY <2>1, <3>1, <3>3, <3>4
  <2>4. Settled'
    BY <2>3, RestKept DEF Idle
  <2> QED BY <2>2, <2>4
<1> QED BY <1>2, <1>3

LEMMA NothingMoves ==
  ASSUME TypeOK, WatchSound, Listed, Settled, UNCHANGED <<store, informed, queue, worker>>
  PROVE  WatchSound' /\ Listed' /\ Settled'
<1>1. WatchSound' /\ Listed'
  BY DEF WatchSound, Listed, Announced, informed, queue
<1>2. \A k \in SliceKeys : (store[k] # None => (Woken(k) => Woken(k)')) /\ Processing' = Processing
  BY WokenStays DEF informed, queue, Processing
<1>3. \A c, r : Verdict(c, r)' = Verdict(c, r)
  BY VerdictsStay DEF informed
<1>4. Settled'
  BY <1>2, <1>3, RestKept
<1> QED BY <1>1, <1>4

(* Requests end: with an answer, with a timeout, or when nobody waits.     *)
LEMMA RequestsSettled ==
  ASSUME TypeOK, WatchSound, Listed, Settled,
         \/ \E w \in Workers : Answer(w)
         \/ \E r \in late : Arrives(r) \/ Lost(r)
  PROVE  WatchSound' /\ Listed' /\ Settled'
<1>1. ASSUME NEW w \in Workers, Answer(w) PROVE WatchSound' /\ Listed' /\ Settled'
  <2>1. RequestOf(w) \in Request /\ RequestOf(w).key = worker[w].key
    BY <1>1 DEF Answer, RequestOf, Request, Preconditions, TypeOK, WorkerState, Slice
  <2>2. /\ Handle(RequestOf(w))
        /\ UNCHANGED <<sliceCache, exports, synced, pending, dirty>>
    BY <1>1 DEF Answer
  <2>3. /\ \A v \in Workers : worker'[v] = worker[v] \/ (v = w /\ worker'[v] = Idle)
        /\ delayed \subseteq delayed'
        /\ Accepts(RequestOf(w)) \/ worker[w].key \in delayed'
    BY <1>1 DEF Answer, Done, TypeOK
  <2> QED BY <2>1, <2>2, <2>3, HandleSettled
<1>2. ASSUME NEW r \in late, Arrives(r) PROVE WatchSound' /\ Listed' /\ Settled'
  <2>1. r \in Request
    BY DEF TypeOK
  <2> QED BY <1>2, <2>1, HandleSettled DEF Arrives, queue
<1>3. ASSUME NEW r \in late, Lost(r) PROVE WatchSound' /\ Listed' /\ Settled'
  BY <1>3, NothingMoves DEF Lost
<1> QED BY <1>1, <1>2, <1>3

-----------------------------------------------------------------------------
(* The exports.                                                            *)

(* An export that comes or goes is announced to the slices it matters to.  *)
LEMMA SetExportSettled ==
  ASSUME TypeOK, PathsStay, ExportsInCatalog, WatchSound, Listed, Settled,
         NEW e \in ExportKeys, SetExport(e)
  PROVE  ExportsInCatalog' /\ WatchSound' /\ Listed' /\ Settled'
<1>1. PICK x \in ExportCatalog[e] :
        /\ x # exports[e]
        /\ exports' = [exports EXCEPT ![e] = x]
        /\ pending' =
             IF "exports" \notin synced \/ (exports[e] # None /\ x # None) THEN pending
             ELSE pending \cup {[kind |-> "export", key |-> e,
                                 path |-> IF x = None THEN exports[e].path ELSE x.path]}
  BY Zenon DEF SetExport
<1>2. UNCHANGED <<store, watch, sliceCache, synced, dirty, delayed, worker>>
  BY DEF SetExport, queue
<1>3. exports[e] = None \/ x = None
  BY <1>1 DEF PathsStay, ExportsInCatalog
<1>4. ExportsInCatalog'
  BY <1>1 DEF ExportsInCatalog, TypeOK
<1>5. WatchSound' /\ Listed'
  <2>1. pending \subseteq pending'
    BY <1>1
  <2> QED BY <1>2, <2>1 DEF WatchSound, Listed, Announced
<1>6. ASSUME NEW k \in SliceKeys, store[k] # None, ~Woken(k)'
      PROVE  Verdict(k[1], store[k].export)' = Verdict(k[1], store[k].export)
  <2> DEFINE r == store[k].export
             path == IF r.path = NoPath THEN k[1] ELSE r.path
             p == IF x = None THEN exports[e].path ELSE x.path
             n == [kind |-> "export", key |-> e, path |-> p]
  <2>1. "exports" \in synced
    BY <1>2, <1>6 DEF Woken, Informers
  <2>2. n \in pending'
    BY <1>1, <1>3, <2>1
  <2>3. ~(e[2] = r.name /\ path \in {e[1], p})
    <3>1. n.kind = "export" /\ n.key = e /\ n.path = p
      OBVIOUS
    <3> QED BY <1>2, <1>6, <2>2, <3>1 DEF Woken, ExportNews
  <2>4. ~(e[2] = r.name /\ path \in {e[1], exports[e].path} /\ exports[e] # None)
    BY <1>3, <2>3
  <2>5. ~(e[2] = r.name /\ path \in {e[1], exports'[e].path} /\ exports'[e] # None)
    BY <1>1, <2>3 DEF TypeOK
  <2>6. \A f \in ExportKeys \ {e} : exports'[f] = exports[f]
    BY <1>1 DEF TypeOK
  <2>7. APIExportsByPathAndName(path, r.name)' = APIExportsByPathAndName(path, r.name)
    BY <1>2, <2>4, <2>5, <2>6 DEF APIExportsByPathAndName
  <2> QED BY <1>2, <2>7 DEF Verdict
<1>7. ASSUME NEW k \in SliceKeys, store'[k] # None, ~Woken(k)' PROVE ~Woken(k)
  BY <1>1, <1>2, <1>7, WokenStays
<1>8. Settled'
  BY <1>2, <1>6, <1>7, RestKept DEF Processing
<1> QED BY <1>4, <1>5, <1>8

-----------------------------------------------------------------------------
(* Informers and queue.                                                    *)

LEMMA NoWorkerYet ==
  ASSUME WorkersSynced, synced # Informers
  PROVE  \A w \in Workers : worker[w].at = "idle"
BY DEF WorkersSynced

LEMMA ListSettled ==
  ASSUME TypeOK, WorkersSynced, WatchSound, Listed, Settled, ListSlices \/ ListExports
  PROVE  WatchSound' /\ Listed' /\ Settled'
<1>1. /\ UNCHANGED <<store, watch, exports, worker>> /\ UNCHANGED <<dirty, delayed>>
      /\ pending \subseteq pending'
  BY DEF ListSlices, ListExports, queue
<1>2. \A w \in Workers : worker[w].at = "idle"
  BY NoWorkerYet DEF ListSlices, ListExports, Informers
<1>3. WatchSound'
  BY <1>1 DEF ListSlices, ListExports, WatchSound
<1>4. "slices" \in synced' => \A k \in SliceKeys : store[k] # None => Announced(k)'
  <2>1. CASE ListSlices
    BY <1>1, <2>1 DEF ListSlices, Announced
  <2>2. CASE ListExports
    <3>1. ASSUME "slices" \in synced', NEW k \in SliceKeys, store[k] # None PROVE Announced(k)'
      <4>1. "slices" \in synced /\ synced # Informers
        BY <2>2, <3>1 DEF ListExports, Informers
      <4> QED BY <1>1, <3>1, <4>1 DEF Listed, Announced
    <3> QED BY <3>1
  <2> QED BY <2>1, <2>2
<1>5. Listed'
  BY <1>1, <1>4 DEF Listed
<1>6. \A k \in SliceKeys : store'[k] # None => Woken(k)'
  BY <1>1, <1>4 DEF Woken, Announced, Informers
<1>7. Settled'
  BY <1>1, <1>2, <1>6, RestKept
<1> QED BY <1>3, <1>5, <1>7

LEMMA ObserveSettled ==
  ASSUME TypeOK, WatchSound, Listed, Settled, NEW k \in SliceKeys, Observe(k)
  PROVE  WatchSound' /\ Listed' /\ Settled'
<1>1. PICK i \in {1, Len(watch[k])} :
        /\ watch[k] # <<>>
        /\ sliceCache' = [sliceCache EXCEPT ![k] = watch[k][i]]
        /\ watch' = [watch EXCEPT ![k] = SubSeq(@, i + 1, Len(@))]
        /\ pending' = pending \cup {[kind |-> "slice", key |-> k]}
  BY DEF Observe
<1>2. UNCHANGED <<store, exports, synced, worker>> /\ UNCHANGED <<dirty, delayed>>
  BY DEF Observe, queue
<1> DEFINE q == watch[k]
<1>3. q \in Seq(Slice \cup {None}) /\ Len(q) \in Nat /\ Len(q) >= 1 /\ i \in 1..Len(q)
  BY <1>1 DEF TypeOK
<1>4. /\ watch'[k] = SubSeq(q, i + 1, Len(q)) /\ sliceCache'[k] = q[i]
      /\ \A j \in SliceKeys \ {k} : watch'[j] = watch[j] /\ sliceCache'[j] = sliceCache[j]
  BY <1>1 DEF TypeOK
<1>5. watch'[k] = <<>> => i = Len(q)
  BY <1>3, <1>4
<1>6. watch'[k] # <<>> => watch'[k][Len(watch'[k])] = q[Len(q)]
  <2>1. ASSUME i < Len(q)
        PROVE  Len(SubSeq(q, i + 1, Len(q))) = Len(q) - i
               /\ SubSeq(q, i + 1, Len(q))[Len(q) - i] = q[Len(q)]
    <3>1. \A j \in (i + 1)..Len(q) : q[j] \in Slice \cup {None}
      BY <1>3
    <3>2. /\ Len(SubSeq(q, i + 1, Len(q))) = Len(q) - (i + 1) + 1
          /\ \A j \in 1..(Len(q) - (i + 1) + 1) : SubSeq(q, i + 1, Len(q))[j] = q[i + 1 + j - 1]
      BY <1>3, <2>1, <3>1, SubSeqProperties
    <3>3. \A n \in Nat : i < n => /\ i + 1 + (n - i) - 1 = n /\ n - (i + 1) + 1 = n - i
                                  /\ n - i \in 1..(n - i)
      BY <1>3
    <3> HIDE DEF q
    <3> QED BY <1>3, <2>1, <3>2, <3>3
  <2>2. i < Len(q) \/ i = Len(q)
    BY <1>3
  <2>3. i = Len(q) => watch'[k] = <<>>
    BY <1>3, <1>4, SubSeqEmpty
  <2> QED BY <1>4, <2>1, <2>2, <2>3
<1>7. WatchSound'
  BY <1>1, <1>2, <1>4, <1>5, <1>6 DEF WatchSound
<1>8. Listed'
  BY <1>1, <1>2, <1>4 DEF Listed, Announced
<1>9. ASSUME NEW j \in SliceKeys, store'[j] # None, ~Woken(j)' PROVE ~Woken(j)
  <2>1. j # k
    BY <1>1, <1>9 DEF Woken
  <2> QED BY <1>1, <1>2, <1>4, <1>9, <2>1, WokenStays
<1>10. Settled'
  BY <1>2, <1>9, VerdictsStay, RestKept DEF Processing
<1> QED BY <1>7, <1>8, <1>10

(* An export's notification reaches every slice it matters to, unless the  *)
(* informer has not seen that slice, which then wakes up by itself.        *)
LEMMA ExportReachesSlices ==
  ASSUME TypeOK, NEW n \in pending, n.kind = "export", NEW k \in SliceKeys,
         store[k] # None, sliceCache[k] = store[k],
         n.key[2] = store[k].export.name,
         (IF store[k].export.path = NoPath THEN k[1] ELSE store[k].export.path)
           \in {n.key[1], n.path}
  PROVE  k \in KeysForExport(n.key, n.path)
<1> DEFINE r == store[k].export
           path == IF r.path = NoPath THEN k[1] ELSE r.path
<1>1. k[1] # NoPath
  BY KeyAssumption DEF SliceKeys
<1>2. path # NoPath /\ path \in ({n.path} \ {NoPath}) \cup {n.key[1]}
  BY <1>1
<1>3. <<path, r.name>> \in IndexByAPIExport(k)
  BY <1>1 DEF IndexByAPIExport
<1> QED BY <1>2, <1>3 DEF KeysForExport

LEMMA DeliverSettled ==
  ASSUME TypeOK, WatchSound, Listed, Settled, NEW n \in pending, Deliver(n)
  PROVE  WatchSound' /\ Listed' /\ Settled'
<1>1. UNCHANGED <<store, watch, sliceCache, exports, synced, delayed, worker>>
  BY DEF Deliver
<1>2. dirty \subseteq dirty' /\ pending' = pending \ {n}
  BY DEF Deliver, Enqueue
<1>3. ASSUME NEW k \in SliceKeys, n = [kind |-> "slice", key |-> k] PROVE k \in dirty'
  BY <1>3 DEF Deliver, Enqueue
<1>4. WatchSound'
  BY <1>1 DEF WatchSound
<1>5. Listed'
  BY <1>1, <1>2, <1>3 DEF Listed, Announced
<1>6. ASSUME NEW k \in SliceKeys, store'[k] # None, ~Woken(k)' PROVE ~Woken(k)
  <2>1. synced = Informers /\ watch[k] = <<>> /\ k \notin dirty' \cup delayed'
    BY <1>1, <1>6 DEF Woken
  <2>2. sliceCache[k] = store[k]
    BY <2>1 DEF WatchSound, Informers
  <2>3. [kind |-> "slice", key |-> k] \notin pending
    BY <1>2, <1>3, <1>6, <2>1 DEF Woken
  <2>4. ~ExportNews(k)
    <3> SUFFICES ASSUME NEW m \in pending, m.kind = "export", m.key[2] = store[k].export.name,
                        (IF store[k].export.path = NoPath THEN k[1] ELSE store[k].export.path)
                          \in {m.key[1], m.path}
                 PROVE  FALSE
      BY DEF ExportNews
    <3>1. CASE m = n
      <4>1. k \in KeysForExport(n.key, n.path)
        BY <1>1, <1>6, <2>2, <3>1, ExportReachesSlices
      <4> QED BY <2>1, <3>1, <4>1 DEF Deliver, Enqueue
    <3>2. CASE m # n
      BY <1>1, <1>2, <1>6, <3>2 DEF Woken, ExportNews
    <3> QED BY <3>1, <3>2
  <2> QED BY <1>2, <2>1, <2>3, <2>4, <1>1 DEF Woken
<1>7. Settled'
  BY <1>1, <1>6, VerdictsStay, RestKept DEF Processing
<1> QED BY <1>4, <1>5, <1>7

LEMMA QueueSettled ==
  ASSUME TypeOK, WatchSound, Listed, Settled,
         Resync \/ \E k \in SliceKeys : RateLimited(k)
  PROVE  WatchSound' /\ Listed' /\ Settled'
<1>1. /\ UNCHANGED <<store, watch, sliceCache, exports, synced, worker>>
      /\ pending \subseteq pending' /\ dirty \cup delayed \subseteq dirty' \cup delayed'
  BY DEF Resync, RateLimited, Enqueue, informed, queue
<1>2. WatchSound' /\ Listed'
  BY <1>1 DEF WatchSound, Listed, Announced
<1>3. ASSUME NEW k \in SliceKeys, store'[k] # None, ~Woken(k)' PROVE ~Woken(k)
  BY <1>1, <1>3, WokenStays
<1>4. Settled'
  BY <1>1, <1>3, VerdictsStay, RestKept DEF Processing
<1> QED BY <1>2, <1>4

-----------------------------------------------------------------------------
(* The workers.                                                            *)

(* The key a worker takes leaves the queue, and is in its hands.           *)
LEMMA GetSettled ==
  ASSUME TypeOK, WatchSound, Listed, Settled,
         NEW w \in Workers, NEW k \in SliceKeys, Get(w, k)
  PROVE  WatchSound' /\ Listed' /\ Settled'
<1>1. /\ UNCHANGED <<store, watch, sliceCache, exports, synced, pending, delayed>>
      /\ dirty' = dirty \ {k} /\ k \notin Processing /\ synced = Informers
      /\ worker'[w].at = "slice" /\ worker'[w].key = k
      /\ worker[w].at = "idle" /\ worker[w].key = NoKey
      /\ \A v \in Workers \ {w} : worker'[v] = worker[v]
  BY DEF Get, Wait, informed, TypeOK, WorkerState
<1>2. WatchSound' /\ Listed'
  BY <1>1 DEF WatchSound, Listed
<1>3. ASSUME NEW j \in SliceKeys, j # k PROVE Woken(j)' = Woken(j)
  BY <1>1, <1>3 DEF Woken, ExportNews
<1>4. \A c, r : Verdict(c, r)' = Verdict(c, r)
  BY <1>1, VerdictsStay
<1>5. ASSUME NEW v \in Workers PROVE Current(v)'
  <2>1. CASE v = w
    BY <1>1, <2>1 DEF Current
  <2>2. CASE v # w /\ worker[v].at # "idle"
    <3>1. worker[v].key \in SliceKeys \ {k} /\ worker'[v] = worker[v]
      BY <1>1, <2>2, KeyAssumption DEF Processing, TypeOK, WorkerState
    <3> QED BY <1>1, <1>3, <1>4, <3>1 DEF Current, Settled, WorkersCurrent
  <2>3. CASE v # w /\ worker[v].at = "idle"
    BY <1>1, <2>3 DEF Current
  <2> QED BY <2>1, <2>2, <2>3
<1>6. Processing' = Processing \cup {k}
  BY <1>1, KeyAssumption DEF Processing
<1>7. ConditionInSync'
  BY <1>1, <1>3, <1>4, <1>6 DEF ConditionInSync, Settled
<1> QED BY <1>2, <1>5, <1>7 DEF Settled, WorkersCurrent

(* A worker leaves its key alone where the key is woken up again, or has   *)
(* the right condition.                                                    *)
LEMMA DoneSettled ==
  ASSUME TypeOK, WatchSound, Listed, Settled, UNCHANGED <<store, informed, dirty>>,
         NEW w \in Workers, NEW err \in BOOLEAN, Done(w, err),
         LET k == worker[w].key
         IN  k \in SliceKeys /\ store[k] # None /\ ~Woken(k) =>
               err \/ store[k].cond = Verdict(k[1], store[k].export)
  PROVE  WatchSound' /\ Listed' /\ Settled'
<1>1. /\ worker'[w] = Idle /\ \A v \in Workers \ {w} : worker'[v] = worker[v]
      /\ delayed \subseteq delayed' /\ (err => worker[w].key \in delayed')
  BY DEF Done, TypeOK
<1>2. WatchSound' /\ Listed'
  BY <1>1 DEF WatchSound, Listed, Announced, informed
<1>3. ASSUME NEW j \in SliceKeys, store'[j] # None, ~Woken(j)' PROVE ~Woken(j)
  BY <1>1, <1>3, WokenStays DEF informed
<1>4. \A c, r : Verdict(c, r)' = Verdict(c, r)
  BY VerdictsStay DEF informed
<1>5. ASSUME NEW j \in SliceKeys, store'[j] # None, ~Woken(j)'
      PROVE  (j \in Processing => j \in Processing')
             \/ store[j].cond = Verdict(j[1], store[j].export)
  <2>1. CASE j = worker[w].key
    BY <1>1, <1>3, <1>5, <2>1 DEF Woken
  <2>2. CASE j # worker[w].key
    BY <1>1, <2>2 DEF Processing
  <2> QED BY <2>1, <2>2
<1>6. Settled'
  BY <1>1, <1>3, <1>4, <1>5, RestKept DEF Idle
<1> QED BY <1>2, <1>6

LEMMA GetSliceSettled ==
  ASSUME TypeOK, WorkersSynced, WatchSound, Listed, Settled, NEW w \in Workers, GetSlice(w)
  PROVE  WatchSound' /\ Listed' /\ Settled'
<1> PICK k : k = worker[w].key
  OBVIOUS
<1>1. worker[w].at = "slice" /\ k \in SliceKeys /\ synced = Informers
  BY DEF GetSlice, TypeOK, WorkerState, WorkersSynced
<1>2. store[k] # None /\ ~Woken(k) => sliceCache[k] = store[k]
  BY <1>1 DEF WatchSound, Woken, Informers
<1>3. CASE sliceCache[k] = None
  <2>1. Done(w, FALSE) /\ UNCHANGED <<store, informed, dirty>>
    BY <1>3 DEF GetSlice, Gone
  <2> QED BY <1>2, <1>3, <2>1, DoneSettled
<1>4. CASE sliceCache[k] # None
  <2>1. /\ worker' = [worker EXCEPT ![w].at = "export", ![w].old = sliceCache[k]]
        /\ UNCHANGED <<store, informed>> /\ UNCHANGED <<dirty, delayed>>
    BY <1>4 DEF GetSlice, Gone
  <2>2. /\ worker'[w].at = "export" /\ worker'[w].old = sliceCache[k] /\ worker'[w].key = k
        /\ \A v \in Workers \ {w} : worker'[v] = worker[v]
    BY <2>1 DEF TypeOK, WorkerState
  <2>3. Woken(k)' = Woken(k)
    BY <2>1 DEF Woken, ExportNews, informed
  <2>4. Current(w)'
    BY <1>2, <2>1, <2>2, <2>3 DEF Current
  <2>5. Settled'
    BY <1>1, <2>1, <2>2, <2>4, WorkerGoesOn
  <2>6. WatchSound' /\ Listed'
    BY <2>1 DEF WatchSound, Listed, Announced, informed
  <2> QED BY <2>5, <2>6
<1> QED BY <1>3, <1>4

(* The verdict is made of the exports there are now, and awaits its patch. *)
LEMMA DecisionSettled ==
  ASSUME TypeOK, WorkersSynced, WatchSound, Listed, Settled,
         NEW w \in Workers, Reconcile(w) \/ Commit(w)
  PROVE  WatchSound' /\ Listed' /\ Settled'
<1> PICK k : k = worker[w].key
  OBVIOUS
<1>1. /\ worker[w].at \in {"export", "commit"} /\ k \in SliceKeys /\ synced = Informers
      /\ UNCHANGED <<store, informed>> /\ UNCHANGED <<dirty, delayed>>
  BY DEF Reconcile, Commit, TypeOK, WorkerState, WorkersSynced, queue
<1>2. /\ worker'[w].old = worker[w].old /\ worker'[w].key = k
      /\ \A v \in Workers \ {w} : worker'[v] = worker[v]
  BY DEF Reconcile, Commit, TypeOK, WorkerState
<1>3. /\ Woken(k)' = Woken(k)
      /\ \A c, r : Verdict(c, r)' = Verdict(c, r)
  BY <1>1, VerdictsStay DEF Woken, ExportNews, informed
<1>4. Reconcile(w) => worker[w].at = "export" /\ worker'[w].cond = Verdict(k[1], worker[w].old.export)
  BY <1>1 DEF Reconcile, Informers, TypeOK, WorkerState
<1>5. Commit(w) => worker[w].at = "commit" /\ worker'[w].cond = worker[w].cond
  BY DEF Commit, TypeOK, WorkerState
<1>6. Current(w)
  BY DEF Settled, WorkersCurrent
<1>7. Current(w)'
  BY <1>1, <1>2, <1>3, <1>4, <1>5, <1>6 DEF Current
<1>8. Settled'
  BY <1>1, <1>2, <1>7, WorkerGoesOn
<1>9. WatchSound' /\ Listed'
  BY <1>1 DEF WatchSound, Listed, Announced, informed
<1> QED BY <1>8, <1>9

(* A pass ends: the condition was right, or the worker gave up.            *)
LEMMA EndSettled ==
  ASSUME TypeOK, WatchSound, Listed, Settled, NEW w \in Workers, NothingToCommit(w) \/ TimesOut(w)
  PROVE  WatchSound' /\ Listed' /\ Settled'
<1> DEFINE k == worker[w].key
<1>1. CASE NothingToCommit(w)
  <2>1. worker[w].at = "commit" /\ worker[w].old.cond = worker[w].cond
    BY <1>1 DEF NothingToCommit, NeedsPatch
  <2>2. store[k] # None /\ ~Woken(k) => store[k].cond = Verdict(k[1], store[k].export)
    BY <2>1 DEF Settled, WorkersCurrent, Current
  <2>3. Done(w, worker[w].cond = "InternalError") /\ UNCHANGED <<store, informed, dirty>>
    BY <1>1 DEF NothingToCommit
  <2> QED BY <2>2, <2>3, DoneSettled
<1>2. CASE TimesOut(w)
  BY <1>2, DoneSettled DEF TimesOut
<1> QED BY <1>1, <1>2

(* After a crash everything is looked at again.                            *)
LEMMA CrashSettled ==
  ASSUME TypeOK, WatchSound, Listed, Settled, Crash
  PROVE  WatchSound' /\ Listed' /\ Settled'
<1>1. /\ synced' = {} /\ \A k \in SliceKeys : watch'[k] = <<>>
      /\ \A w \in Workers : worker'[w] = Idle
  BY DEF Crash
<1>2. \A k \in SliceKeys : Woken(k)'
  BY <1>1 DEF Woken, Informers
<1> QED BY <1>1, <1>2 DEF WatchSound, Listed, Settled, WorkersCurrent, Current, ConditionInSync, Idle

-----------------------------------------------------------------------------
LEMMA ExportsStayInCatalog ==
  ASSUME TypeOK, PathsStay, ExportsInCatalog, WatchSound, Listed, Settled, [Next]_vars
  PROVE  ExportsInCatalog'
<1>1. (\E e \in ExportKeys : SetExport(e)) => ExportsInCatalog'
  BY SetExportSettled
<1>2. exports' = exports => ExportsInCatalog'
  BY DEF ExportsInCatalog
<1>3. Environment => exports' = exports \/ \E e \in ExportKeys : SetExport(e)
  BY DEF Environment, CreateSlice, DeleteSlice, TouchSlice, Crash
<1>4. Informing \/ Resync \/ (\E k \in SliceKeys : RateLimited(k)) => exports' = exports
  BY DEF Informing, ListSlices, ListExports, Observe, Deliver, Resync, RateLimited, informed
<1>5. \A w \in Workers : (\E k \in SliceKeys : Get(w, k)) \/ Step(w) \/ TimesOut(w)
        => exports' = exports
  BY DEF Get, Step, TimesOut, GetSlice, Reconcile, NothingToCommit, Commit, Answer, informed
<1>6. (\E r \in late : Arrives(r) \/ Lost(r)) \/ UNCHANGED vars => exports' = exports
  BY DEF Arrives, Lost, vars, informed
<1> QED BY <1>1, <1>2, <1>3, <1>4, <1>5, <1>6 DEF Next

LEMMA StepSettled ==
  ASSUME SyncInv, PathsStay, [Next]_vars
  PROVE  WatchSound' /\ Listed' /\ Settled'
<1> USE DEF SyncInv
<1>1. CASE UNCHANGED vars
  BY <1>1, NothingMoves DEF vars
<1>2. CASE Environment
  BY <1>2, SliceChangesSettled, SetExportSettled, CrashSettled DEF Environment
<1>3. CASE Informing
  BY <1>3, ListSettled, ObserveSettled, DeliverSettled DEF Informing
<1>4. CASE Resync \/ \E k \in SliceKeys : RateLimited(k)
  BY <1>4, QueueSettled
<1>5. ASSUME NEW w \in Workers, (\E k \in SliceKeys : Get(w, k)) \/ Step(w) \/ TimesOut(w)
      PROVE  WatchSound' /\ Listed' /\ Settled'
  BY <1>5, GetSettled, GetSliceSettled, DecisionSettled, EndSettled, RequestsSettled DEF Step
<1>6. CASE \E r \in late : Arrives(r) \/ Lost(r)
  BY <1>6, RequestsSettled
<1> QED BY <1>1, <1>2, <1>3, <1>4, <1>5, <1>6 DEF Next

LEMMA InitSyncInv == Init => SyncInv
<1> SUFFICES ASSUME Init PROVE SyncInv
  OBVIOUS
<1>1. TypeOK /\ WorkersSynced
  BY InitIInv DEF IInv
<1>2. /\ \A k \in SliceKeys : store[k] = None /\ watch[k] = <<>>
      /\ \A w \in Workers : worker[w].at = "idle"
      /\ synced = {}
  BY DEF Init, Idle
<1>3. ExportsInCatalog
  BY DEF Init, ExportsInCatalog
<1> QED BY <1>1, <1>2, <1>3
        DEF SyncInv, WatchSound, Listed, Settled, WorkersCurrent, Current, ConditionInSync

(* As long as exports keep the path annotation they have, a slice about    *)
(* which nothing is under way says of its export what is true.             *)
THEOREM ConditionsAreCurrent ==
  ASSUME PathsStay
  PROVE  Spec => []ConditionInSync
<1>1. Init => SyncInv
  BY InitSyncInv
<1>2. SyncInv /\ [Next]_vars => SyncInv'
  BY StepType, WorkersSyncedKept, ExportsStayInCatalog, StepSettled DEF SyncInv
<1>3. SyncInv => ConditionInSync
  BY DEF SyncInv, Settled
<1> QED BY <1>1, <1>2, <1>3, PTL DEF Spec
=============================================================================
