------------------------ MODULE APIReconcilerProofs ------------------------
(***************************************************************************)
(* Proofs about APIReconciler, for every value of its constants.           *)
(***************************************************************************)
EXTENDS APIReconciler, FiniteSetTheorems, TLAPS

(* What the event handlers leave in the queue are slice keys.              *)
LEMMA HandlersEnqueueSliceKeys ==
  /\ \A k \in SliceKeys : \A s : KeysForSlice(k, s) \subseteq SliceKeys
  /\ \A e : KeysForExport(e) \subseteq SliceKeys
  /\ \A h : \A K \in KeysForSchema(h) : K \subseteq SliceKeys
<1>1. \A c, n : SlicesReferring(c, n) \subseteq SliceKeys
  BY DEF SlicesReferring
<1>2. \A k \in SliceKeys : \A s : KeysForSlice(k, s) \subseteq SliceKeys
  BY <1>1 DEF KeysForSlice
<1>3. \A e : KeysForExport(e) \subseteq SliceKeys
  BY <1>1, <1>2 DEF KeysForExport
<1>4. \A h : \A K \in KeysForSchema(h) : K \subseteq SliceKeys
  BY <1>2 DEF KeysForSchema
<1> QED BY <1>2, <1>3, <1>4

(* The exports an index answers with are objects of the store.             *)
LEMMA CandidatesType ==
  ASSUME TypeOK, NEW i, NEW p \in SortedOrders(APIExportsByIdentity(i))
  PROVE  /\ [j \in DOMAIN p |-> <<p[j], exportCache[p[j]]>>] \in Seq(ExportKeys \X Export)
         /\ \E n \in Nat : DOMAIN p = 1..n
         /\ \A j \in DOMAIN p : p[j] \in APIExportsByIdentity(i)
         /\ \A e \in APIExportsByIdentity(i) : \E j \in DOMAIN p : p[j] = e
<1> DEFINE S == APIExportsByIdentity(i)
<1>1. S \subseteq ExportKeys /\ \A e \in S : exportCache[e] \in Export
  BY DEF APIExportsByIdentity, TypeOK
<1>2. Cardinality(S) \in Nat
  BY <1>1, StoreAssumption, FS_Subset, FS_CardinalityType
<1>3. /\ DOMAIN p = 1..Cardinality(S) /\ \A j \in DOMAIN p : p[j] \in S
      /\ \A e \in S : \E j \in DOMAIN p : p[j] = e
  BY DEF SortedOrders, Bijection, Injection, Surjection
<1>4. [j \in 1..Cardinality(S) |-> <<p[j], exportCache[p[j]]>>]
        \in [1..Cardinality(S) -> ExportKeys \X Export]
  BY <1>1, <1>3
<1> HIDE DEF S
<1>5. [1..Cardinality(S) -> ExportKeys \X Export] \subseteq Seq(ExportKeys \X Export)
  BY <1>2
<1> QED BY <1>2, <1>3, <1>4, <1>5 DEF S

LEMMA AddsForAllType ==
  ASSUME sliceCache \in [SliceKeys -> Slice \cup {None}]
  PROVE  AddsForAll(sliceCache, exportCache, schemaCache) \subseteq Event
<1>1. \A k \in SliceKeys : sliceCache[k] # None =>
        [kind |-> "slice", key |-> k, obj |-> sliceCache[k], tomb |-> FALSE]
          \in [kind : {"slice"}, key : SliceKeys, obj : Slice, tomb : BOOLEAN]
  OBVIOUS
<1>2. \A e \in ExportKeys : [kind |-> "export", key |-> e, tomb |-> FALSE]
          \in [kind : {"export"}, key : ExportKeys, tomb : BOOLEAN]
  OBVIOUS
<1>3. \A h \in SchemaKeys : [kind |-> "schema", key |-> h, tomb |-> FALSE]
          \in [kind : {"schema"}, key : SchemaKeys, tomb : BOOLEAN]
  OBVIOUS
<1> QED BY <1>1, <1>2, <1>3, Zenon DEF AddsForAll, Event

LEMMA NothingIsTyped ==
  /\ EmptySet \in DefSet
  /\ NoSchemas \in [GRs -> Schema \cup {None}]
  /\ NoClaims \in [GRs -> Claim \cup {NoClaim}]
  /\ <<>> \in Seq(Claim) /\ <<>> \in Seq(ExportKeys \X Export)
BY DEF EmptySet, DefSet, NoSchemas, NoClaims

(* The conjuncts of TypeOK that a reset of the worker and a restart        *)
(* establish.                                                              *)
LEMMA RestartType ==
  ASSUME TypeOK, Restart, budget' \in 0..MaxChanges
  PROVE  TypeOK'
<1>1. AddsForAll(sliceCache, exportCache, schemaCache) \subseteq Event
  BY AddsForAllType DEF TypeOK
<1> QED BY <1>1, NothingIsTyped, SentinelAssumption
        DEF TypeOK, Restart, ResetLocals, NothingToRead, caches, PCs, oldSet, DefSet

LEMMA InitType == Init => TypeOK
<1> SUFFICES ASSUME Init PROVE TypeOK
  OBVIOUS
<1>1. sliceCache \in [SliceKeys -> Slice \cup {None}]
  BY CatalogAssumption DEF Init
<1>2. exportCache \in [ExportKeys -> Export \cup {None}]
  BY CatalogAssumption DEF Init
<1>3. schemaCache \in [SchemaKeys -> Schema \cup {None}]
  BY CatalogAssumption DEF Init
<1>4. pending \subseteq Event
  BY <1>1, AddsForAllType DEF Init
<1>5. budget \in 0..MaxChanges
  BY BoundAssumption DEF Init
<1> QED BY <1>1, <1>2, <1>3, <1>4, <1>5, NothingIsTyped, SentinelAssumption
        DEF Init, TypeOK, PCs, oldSet

(* The steps of the control plane, the informers and the queue.            *)
LEMMA EnvironmentType == TypeOK /\ Environment => TypeOK'
<1> SUFFICES ASSUME TypeOK, Environment PROVE TypeOK'
  OBVIOUS
<1>1. budget' \in 0..MaxChanges
  BY BoundAssumption DEF Environment, SetSlice, SetExport, SetSchema, Crash, Change, TypeOK
<1>2. ASSUME NEW k \in SliceKeys, SetSlice(k) PROVE TypeOK'
  <2>1. SliceCatalog[k] \subseteq Slice \cup {None}
    BY CatalogAssumption
  <2>2. sliceCache' \in [SliceKeys -> Slice \cup {None}]
    BY <1>2, <2>1 DEF SetSlice, TypeOK
  <2>3. pending' \subseteq Event
    <3>1. \A s \in Slice, b \in BOOLEAN :
            [kind |-> "slice", key |-> k, tomb |-> b, obj |-> s] \in Event
      BY DEF Event
    <3>2. sliceCache[k] \in Slice \cup {None}
      BY DEF TypeOK
    <3> QED BY <1>2, <2>1, <3>1, <3>2 DEF SetSlice, TypeOK
  <2> QED BY <1>1, <1>2, <2>2, <2>3 DEF SetSlice, TypeOK, locals, reading, oldSet
<1>3. ASSUME NEW e \in ExportKeys, SetExport(e) PROVE TypeOK'
  <2>0. ExportCatalog[e] \subseteq Export \cup {None}
    BY CatalogAssumption
  <2>1. exportCache' \in [ExportKeys -> Export \cup {None}]
    BY <1>3, <2>0 DEF SetExport, TypeOK
  <2>2. \A b \in BOOLEAN : [kind |-> "export", key |-> e, tomb |-> b] \in Event
    BY DEF Event
  <2>3. pending' \subseteq Event
    BY <1>3, <2>2 DEF SetExport, TypeOK
  <2> QED BY <1>1, <1>3, <2>1, <2>3 DEF SetExport, TypeOK, locals, reading, oldSet
<1>4. ASSUME NEW s \in SchemaKeys, SetSchema(s) PROVE TypeOK'
  <2>0. SchemaCatalog[s] \subseteq Schema \cup {None}
    BY CatalogAssumption
  <2>1. schemaCache' \in [SchemaKeys -> Schema \cup {None}]
    BY <1>4, <2>0 DEF SetSchema, TypeOK
  <2>2. \A b \in BOOLEAN : [kind |-> "schema", key |-> s, tomb |-> b] \in Event
    BY DEF Event
  <2>3. pending' \subseteq Event
    BY <1>4, <2>2 DEF SetSchema, TypeOK
  <2> QED BY <1>1, <1>4, <2>1, <2>3 DEF SetSchema, TypeOK, locals, reading, oldSet
<1>5. ASSUME Crash PROVE TypeOK'
  BY <1>1, <1>5, RestartType DEF Crash
<1> QED BY <1>2, <1>3, <1>4, <1>5 DEF Environment

LEMMA DeliveryType ==
  TypeOK /\ (Informers \/ Resync \/ \E k \in SliceKeys : RateLimited(k)) => TypeOK'
<1>1. ASSUME TypeOK, NEW n \in pending, Deliver(n) PROVE TypeOK'
  <2>1. n \in Event
    BY <1>1 DEF TypeOK
  <2>2. n.kind = "slice" => n.key \in SliceKeys
    BY <2>1 DEF Event
  <2>3. \A K : K \subseteq SliceKeys /\ Enqueue(K) => dirty' \subseteq SliceKeys
    BY <1>1 DEF TypeOK, Enqueue
  <2>4. n.kind = "slice" => KeysForSlice(n.key, n.obj) \subseteq SliceKeys
    BY <2>2, HandlersEnqueueSliceKeys
  <2>5. KeysForExport(n.key) \subseteq SliceKeys
    BY HandlersEnqueueSliceKeys
  <2>6. \A K \in KeysForSchema(n.key) : K \subseteq SliceKeys
    BY HandlersEnqueueSliceKeys
  <2>7. dirty' \subseteq SliceKeys
    BY <1>1, <2>3, <2>4, <2>5, <2>6 DEF Deliver
  <2> QED BY <1>1, <2>7 DEF Deliver, TypeOK, caches, locals, reading, oldSet
<1>2. ASSUME TypeOK, NEW n \in pending, DeliverTombstone(n) PROVE TypeOK'
  BY <1>2, RestartType DEF DeliverTombstone, TypeOK
<1>3. ASSUME TypeOK, Resync PROVE TypeOK'
  <2>1. pending' \subseteq Event
    BY <1>3, AddsForAllType DEF Resync, TypeOK
  <2> QED BY <1>3, <2>1 DEF Resync, TypeOK, caches, locals, reading, oldSet
<1>4. ASSUME TypeOK, NEW k \in SliceKeys, RateLimited(k) PROVE TypeOK'
  BY <1>4 DEF RateLimited, Enqueue, TypeOK, caches, locals, reading, oldSet
<1> QED BY <1>1, <1>2, <1>3, <1>4 DEF Informers

(* A pair of a group-resource and a version, taken apart.                  *)
LEMMA GVRParts == \A t \in GVRs : t[1] \in GRs /\ t[2] \in Versions
BY DEF GVRs

LEMMA GVROfType ==
  ASSUME TypeOK, pc = "build", NEW t \in todo
  PROVE  GVROf(t) \in GVRs /\ schemas[t[1]] \in Schema
<1>1. t[1] \in GRs /\ t[2] \in Versions
  BY GVRParts DEF TypeOK
<1>2. schemas[t[1]] \in Schema
  BY <1>1 DEF TypeOK
<1> QED BY <1>1, <1>2 DEF GVROf, GVRs, Schema

LEMMA OldSetType == TypeOK /\ key \in SliceKeys => oldSet \in DefSet
BY NothingIsTyped DEF TypeOK, oldSet

(* The steps of the worker.                                                *)
LEMMA ReadingType ==
  TypeOK /\ ((\E k \in SliceKeys : Get(k)) \/ GetSlice \/ GetExport \/ Drop) => TypeOK'
<1> SUFFICES ASSUME TypeOK
             PROVE  (\E k \in SliceKeys : Get(k)) \/ GetSlice \/ GetExport \/ Drop => TypeOK'
  OBVIOUS
<1>1. ASSUME NEW k \in SliceKeys, Get(k) PROVE TypeOK'
  BY <1>1, SentinelAssumption DEF Get, Unchanged, TypeOK, PCs, caches, reading, oldSet
<1>2. ASSUME GetSlice PROVE TypeOK'
  BY <1>2 DEF GetSlice, Unchanged, TypeOK, PCs, caches, reading, oldSet
<1>3. ASSUME GetExport PROVE TypeOK'
  <2>1. key \in SliceKeys /\ slice \in Slice
    BY <1>3 DEF GetExport, NothingToServe, TypeOK
  <2>2. <<key[1], slice.name>> \in ExportKeys
    BY <2>1 DEF SliceKeys, ExportKeys, Slice
  <2>3. exports' \in Seq(ExportKeys \X Export)
    <3>1. CASE NothingToServe(exportCache[<<key[1], slice.name>>])
      BY <1>3, <3>1 DEF GetExport, TypeOK
    <3>2. CASE ~NothingToServe(exportCache[<<key[1], slice.name>>])
      <4> DEFINE e == <<key[1], slice.name>>
                 y == <<e, exportCache[e]>>
      <4>1. y \in ExportKeys \X Export
        BY <2>2, <3>2 DEF NothingToServe, TypeOK
      <4>2. exports' = <<y>>
        BY <1>3, <3>2 DEF GetExport
      <4> HIDE DEF y
      <4> QED BY <4>1, <4>2
    <3> QED BY <3>1, <3>2
  <2>4. pc' = "schemas" => exports' # <<>>
    BY <1>3 DEF GetExport
  <2> QED BY <1>3, <2>1, <2>2, <2>3, <2>4
          DEF GetExport, NothingToServe, Unchanged, TypeOK, PCs, caches, oldSet
<1>4. ASSUME Drop PROVE TypeOK'
  <2>1. key \in SliceKeys
    BY <1>4 DEF Drop, TypeOK
  <2> QED BY <1>4, <2>1, NothingIsTyped, SentinelAssumption
          DEF Drop, ResetLocals, NothingToRead, Unchanged, TypeOK, PCs, caches, reading, oldSet
<1> QED BY <1>1, <1>2, <1>3, <1>4

(* An answer to a claim is a schema, or none.                              *)
LEMMA AnswerType ==
  ASSUME TypeOK, NEW c \in Claim, NEW h \in Schema \cup {None}, AnswerWith(c, h)
  PROVE  schemas' \in [GRs -> Schema \cup {None}] /\ claims' \in [GRs -> Claim \cup {NoClaim}]
<1>1. c.gr \in GRs
  BY DEF Claim
<1> QED BY <1>1 DEF AnswerWith, TypeOK

LEMMA ResolveType == TypeOK /\ Resolve => TypeOK'
<1> SUFFICES ASSUME TypeOK PROVE Resolve => TypeOK'
  OBVIOUS
<1> USE DEF Unchanged, TypeOK, PCs, caches, oldSet
<1>0. exports # <<>> => /\ Head(exports) \in ExportKeys \X Export
                        /\ Tail(exports) \in Seq(ExportKeys \X Export)
  OBVIOUS
<1>1. claimsLeft # <<>> =>
        /\ Head(claimsLeft) \in Claim /\ Head(claimsLeft).gr \in GRs
        /\ Tail(claimsLeft) \in Seq(Claim)
  <2>1. claimsLeft # <<>> => Head(claimsLeft) \in Claim /\ Tail(claimsLeft) \in Seq(Claim)
    OBVIOUS
  <2> QED BY <2>1 DEF Claim
<1>2. ASSUME GetSchema PROVE TypeOK'
  <2> DEFINE x == Head(exports)[2]
             h == schemaCache[<<Head(exports)[1][1], x.resources[next]>>]
  <2>1. Head(exports)[1][1] \in Clusters /\ x.resources \in Seq(SchemaNames)
    BY <1>0, <1>2 DEF GetSchema, ExportKeys, Export
  <2>2. next \in DOMAIN x.resources
    BY <1>2, <2>1 DEF GetSchema, AllRead
  <2>3. h \in Schema \cup {None}
    BY <2>1, <2>2 DEF SchemaKeys
  <2>4. found' \in [GRs -> Schema \cup {None}]
    BY <1>2, <2>3 DEF GetSchema, Schema
  <2> QED BY <1>2, <2>4 DEF GetSchema
<1>3. ASSUME StartClaims PROVE TypeOK'
  <2>1. export.claims \in Seq(Claim)
    BY <1>3 DEF StartClaims, Export
  <2> QED BY <1>3, <2>1, NothingIsTyped DEF StartClaims, NothingToRead
<1>4. ASSUME ResolveClaim PROVE TypeOK'
  <2>1. InternalAnswer(Head(claimsLeft)) \in Schema \cup {None}
    BY SchemaAssumption DEF InternalAnswer
  <2>2. schemas' \in [GRs -> Schema \cup {None}] /\ claims' \in [GRs -> Claim \cup {NoClaim}]
    BY <1>1, <1>4, <2>1, AnswerType DEF ResolveClaim
  <2> QED BY <1>1, <1>4, <2>2 DEF ResolveClaim, reading
<1>5. ASSUME GetCandidates PROVE TypeOK'
  <2>1. exports' \in Seq(ExportKeys \X Export)
    BY <1>5, CandidatesType DEF GetCandidates
  <2> QED BY <1>5, <2>1 DEF GetCandidates
<1>6. ASSUME MatchCandidate PROVE TypeOK'
  <2>1. found[Head(claimsLeft).gr] \in Schema \cup {None}
    BY <1>1, <1>6 DEF MatchCandidate
  <2>2. schemas' \in [GRs -> Schema \cup {None}] /\ claims' \in [GRs -> Claim \cup {NoClaim}]
    BY <1>1, <1>6, <2>1, AnswerType DEF MatchCandidate
  <2> QED BY <1>0, <1>6, <2>2, NothingIsTyped DEF MatchCandidate
<1>7. ASSUME NextClaim PROVE TypeOK'
  BY <1>1, <1>7 DEF NextClaim, reading
<1> QED BY <1>2, <1>3, <1>4, <1>5, <1>6, <1>7 DEF Resolve

(* What Create puts into the new set is a definition, made anew for the    *)
(* export of the key.                                                      *)
LEMMA CreatedDef ==
  ASSUME TypeOK, NEW t \in todo, Create(t)
  PROVE  \E d \in Def : /\ newSet' = [newSet EXCEPT ![GVROf(t)] = d]
                        /\ d.id = FreshId /\ d.owner = export.identity
                        /\ d.uid = schemas[t[1]].uid
<1> DEFINE g == GVROf(t)
           d == [id |-> FreshId, uid |-> schemas[t[1]].uid, owner |-> export.identity,
                 identity |-> IdentityOf(g[1]), selector |-> slice.selector,
                 claim |-> claims[g[1]]]
<1>1. g \in GVRs /\ schemas[t[1]] \in Schema
  BY GVROfType DEF Create
<1>2. FreshId \in DefIds
  BY DEF Create, FreshId, FreeIds
<1>3. export \in Export /\ slice \in Slice
  BY DEF Create, TypeOK
<1>4. claims[g[1]] \in Claim \cup {NoClaim}
  BY <1>1, GVRParts DEF TypeOK
<1>5. IdentityOf(g[1]) \in Identities \cup {NoIdentity}
  BY <1>3, <1>4 DEF IdentityOf, Claim, Export
<1>6. d \in Def
  BY <1>1, <1>2, <1>3, <1>4, <1>5 DEF Def, Schema, Slice, Export
<1>7. newSet' = [newSet EXCEPT ![g] = d]
  BY DEF Create
<1> QED BY <1>6, <1>7

LEMMA BuildingType ==
  TypeOK /\ (StartBuild \/ \E t \in todo : Preserve(t) \/ Create(t) \/ CreateFails(t)
                                           \/ SelectorError(t))
    => TypeOK'
<1>1. ASSUME TypeOK, StartBuild PROVE TypeOK'
  BY <1>1 DEF StartBuild, Unchanged, TypeOK, PCs, caches, reading, oldSet
<1>2. ASSUME TypeOK, NEW t \in todo, Preserve(t) PROVE TypeOK'
  <2>1. GVROf(t) \in GVRs
    BY <1>2, GVROfType DEF Preserve
  <2>2. oldSet[GVROf(t)] \in Def
    BY <1>2, <2>1, OldSetType DEF Preserve, MayPreserve, TypeOK, DefSet
  <2>3. newSet' \in DefSet
    BY <1>2, <2>1, <2>2 DEF Preserve, TypeOK, DefSet
  <2> QED BY <1>2, <2>3 DEF Preserve, Unchanged, TypeOK, PCs, caches, reading, oldSet
<1>3. ASSUME TypeOK, NEW t \in todo, Create(t) PROVE TypeOK'
  <2>1. FreshId \in DefIds
    BY <1>3 DEF Create, FreshId, FreeIds
  <2>2. newSet' \in DefSet
    BY <1>3, CreatedDef DEF TypeOK, DefSet
  <2> QED BY <1>3, <2>1, <2>2 DEF Create, Unchanged, TypeOK, PCs, caches, reading, oldSet
<1>4. ASSUME TypeOK, NEW t \in todo, CreateFails(t) PROVE TypeOK'
  BY <1>4, BoundAssumption DEF CreateFails, Change, Unchanged, TypeOK, PCs, caches, reading, oldSet
<1>5. ASSUME TypeOK, NEW t \in todo, SelectorError(t) PROVE TypeOK'
  BY <1>5, NothingIsTyped, SentinelAssumption
     DEF SelectorError, ResetLocals, NothingToRead, Unchanged, TypeOK, PCs, caches, reading, oldSet
<1> QED BY <1>1, <1>2, <1>3, <1>4, <1>5

LEMMA FinishingType ==
  TypeOK /\ (StartFallback \/ (\E g \in todo : Fallback(g) \/ FallbackFails(g))
             \/ StartCleanup \/ (\E g \in todo : TearDown(g) \/ TearDownNil(g)) \/ Store)
    => TypeOK'
<1>1. ASSUME TypeOK, StartFallback PROVE TypeOK'
  <2>1. FallbackGVRs \subseteq GVRs
    BY SchemaAssumption DEF FallbackGVRs, GVRs
  <2> QED BY <1>1, <2>1 DEF StartFallback, Unchanged, TypeOK, PCs, caches, reading, oldSet
<1>2. ASSUME TypeOK, NEW g \in todo, Fallback(g) PROVE TypeOK'
  <2>1. FallbackDef(FreshId) \in Def
    BY <1>2 DEF Fallback, FreshId, FreeIds, FallbackDef, Def
  <2>2. newSet' \in DefSet
    BY <1>2, <2>1 DEF Fallback, TypeOK, DefSet
  <2> QED BY <1>2, <2>2 DEF Fallback, Unchanged, TypeOK, PCs, caches, reading, oldSet
<1>3. ASSUME TypeOK, NEW g \in todo, FallbackFails(g) PROVE TypeOK'
  <2>1. FallbackDef(Nil) \in Def
    BY DEF FallbackDef, Def
  <2>2. newSet' \in DefSet
    BY <1>3, <2>1 DEF FallbackFails, TypeOK, DefSet
  <2>3. budget' \in 0..MaxChanges
    BY <1>3, BoundAssumption DEF FallbackFails, Change, TypeOK
  <2> QED BY <1>3, <2>2, <2>3 DEF FallbackFails, Unchanged, TypeOK, PCs, caches, reading, oldSet
<1>4. ASSUME TypeOK, StartCleanup PROVE TypeOK'
  BY <1>4 DEF StartCleanup, Replaces, Unchanged, TypeOK, PCs, caches, reading, oldSet
<1>5. ASSUME TypeOK, NEW g \in todo, TearDown(g) PROVE TypeOK'
  BY <1>5 DEF TearDown, Unchanged, TypeOK, PCs, caches, reading, oldSet
<1>6. ASSUME TypeOK, NEW g \in todo, TearDownNil(g) PROVE TypeOK'
  BY <1>6, RestartType DEF TearDownNil, TypeOK
<1>7. ASSUME TypeOK, Store PROVE TypeOK'
  <2>1. apiSets' \in [SliceKeys -> DefSet \cup {NoSet}]
    BY <1>7 DEF Store, TypeOK
  <2> QED BY <1>7, <2>1, NothingIsTyped, SentinelAssumption
          DEF Store, ResetLocals, NothingToRead, Unchanged, TypeOK, PCs, caches, reading, oldSet
<1> QED BY <1>1, <1>2, <1>3, <1>4, <1>5, <1>6, <1>7

LEMMA StopType == TypeOK /\ (StopTearDown \/ StopPanics \/ QueueShutDown) => TypeOK'
<1>1. ASSUME TypeOK, StopTearDown PROVE TypeOK'
  BY <1>1 DEF StopTearDown, TypeOK, caches, locals, reading, oldSet
<1>2. ASSUME TypeOK, StopPanics PROVE TypeOK'
  BY <1>2, RestartType DEF StopPanics, TypeOK
<1>3. ASSUME TypeOK, QueueShutDown PROVE TypeOK'
  BY <1>3 DEF QueueShutDown, TypeOK, caches, locals, reading, oldSet
<1> QED BY <1>1, <1>2, <1>3

LEMMA StepType == TypeOK /\ [Next]_vars => TypeOK'
<1>1. TypeOK /\ UNCHANGED vars => TypeOK'
  BY DEF TypeOK, vars, caches, locals, reading, oldSet
<1>2. TypeOK /\ Next => TypeOK'
  BY EnvironmentType, DeliveryType, ReadingType, ResolveType, BuildingType, FinishingType, StopType
     DEF Next, Worker
<1> QED BY <1>1, <1>2

(* Every value the controller handles has the type its code gives it: the  *)
(* slice, export and schemas reconcile works on are there when it uses     *)
(* them, and a definition it tears down is one the served set had.         *)
THEOREM TypeCorrect == Spec => []TypeOK
BY InitType, StepType, PTL DEF Spec

-----------------------------------------------------------------------------
(* No wake-up is lost.  The inductive invariant is ReadsCurrent: what the  *)
(* worker has read either still holds or its key will come round again,    *)
(* and every other domain is in sync or has such news under way.           *)

(* Everything cached is announced as added after a start.                  *)
LEMMA StartAnnouncesSlices ==
  ASSUME NEW sc, NEW xc, NEW hc, NEW k \in SliceKeys, sc[k] # None
  PROVE  \E n \in AddsForAll(sc, xc, hc) : n.kind = "slice" /\ n.key = k
<1> DEFINE n == [kind |-> "slice", key |-> k, obj |-> sc[k], tomb |-> FALSE]
<1>1. n \in AddsForAll(sc, xc, hc)
  BY DEF AddsForAll
<1>2. n.kind = "slice" /\ n.key = k
  OBVIOUS
<1> QED BY <1>1, <1>2

LEMMA RestartInSync == Restart => ReadsCurrent'
<1> SUFFICES ASSUME Restart PROVE ReadsCurrent'
  OBVIOUS
<1>1. ASSUME NEW k \in SliceKeys PROVE InSync(k)' \/ Disturbed(k)'
  <2>1. CASE sliceCache[k] = None
    BY <2>1 DEF Restart, InSync, Wanted, caches
  <2>2. CASE sliceCache[k] # None
    BY <2>2, StartAnnouncesSlices DEF Restart, Disturbed, SliceNews
  <2> QED BY <2>1, <2>2
<1>2. \A g \in GVRs : ~Built(newSet[g])'
  BY DEF Restart, ResetLocals, EmptySet, Built
<1>3. key' = NoKey
  BY DEF Restart, ResetLocals
<1> QED BY <1>1, <1>2, <1>3, SentinelAssumption DEF ReadsCurrent

LEMMA InitInSync == Init => ReadsCurrent
<1> SUFFICES ASSUME Init PROVE ReadsCurrent
  OBVIOUS
<1>1. ASSUME NEW k \in SliceKeys PROVE InSync(k) \/ Disturbed(k)
  <2>1. CASE sliceCache[k] = None
    BY <2>1 DEF Init, InSync, Wanted
  <2>2. CASE sliceCache[k] # None
    BY <2>2, StartAnnouncesSlices DEF Init, Disturbed, SliceNews
  <2> QED BY <2>1, <2>2
<1>2. \A g \in GVRs : ~Built(newSet[g])
  BY DEF Init, EmptySet, Built
<1>3. key = NoKey
  BY DEF Init
<1> QED BY <1>1, <1>2, <1>3, SentinelAssumption DEF ReadsCurrent

(* A domain whose slice and export stay as they are is as much in sync, or *)
(* as truly read, after a step as before it.                               *)
LEMMA Framed ==
  ASSUME NEW k, sliceCache'[k] = sliceCache[k],
         sliceCache[k] # None =>
           exportCache'[<<k[1], sliceCache[k].name>>] = exportCache[<<k[1], sliceCache[k].name>>]
  PROVE  /\ Wanted(k)' = Wanted(k)
         /\ sliceCache[k] # None => CurrentExport(k)' = CurrentExport(k)
         /\ apiSets'[k] = apiSets[k] => InSync(k)' = InSync(k)
         /\ UNCHANGED <<pc, slice, export>> => ReadsHold(k)' = ReadsHold(k)
<1>1. Wanted(k)' = Wanted(k)
  BY DEF Wanted
<1>2. sliceCache[k] # None => CurrentExport(k)' = CurrentExport(k)
  BY DEF CurrentExport
<1>3. Wanted(k) => sliceCache[k] # None
  BY DEF Wanted
<1>4. apiSets'[k] = apiSets[k] => InSync(k)' = InSync(k)
  BY <1>1, <1>2, <1>3 DEF InSync
<1>5. UNCHANGED <<pc, slice, export>> => ReadsHold(k)' = ReadsHold(k)
  BY <1>1, <1>2, <1>3 DEF ReadsHold
<1> QED BY <1>1, <1>2, <1>4, <1>5

(* News is only lost by being acted upon.                                  *)
LEMMA DisturbedGrows ==
  ASSUME NEW k, sliceCache'[k] = sliceCache[k], Disturbed(k),
         pending \subseteq pending', dirty \subseteq dirty', delayed \subseteq delayed'
  PROVE  Disturbed(k)'
BY DEF Disturbed, SliceNews, ExportNews

(* A change of an object leaves the domains it does not concern alone and  *)
(* is news for the others.                                                 *)
LEMMA EnvironmentInSync == TypeOK /\ ReadsCurrent /\ Environment => ReadsCurrent'
<1> SUFFICES ASSUME TypeOK, ReadsCurrent, Environment PROVE ReadsCurrent'
  OBVIOUS
<1>1. ASSUME Crash PROVE ReadsCurrent'
  BY <1>1, RestartInSync DEF Crash
<1>2. ASSUME ~Crash PROVE ReadsCurrent'
  <2>1. UNCHANGED <<dirty, delayed, locals, apiSets, phase>> /\ pending \subseteq pending'
    BY <1>2 DEF Environment, SetSlice, SetExport, SetSchema
  <2>2. ASSUME NEW k \in SliceKeys, sliceCache'[k] = sliceCache[k],
               sliceCache[k] # None => exportCache'[<<k[1], sliceCache[k].name>>]
                                       = exportCache[<<k[1], sliceCache[k].name>>],
               Disturbed(k) \/ (IF k = key THEN ReadsHold(k) ELSE InSync(k))
        PROVE  Disturbed(k)' \/ (IF k = key' THEN ReadsHold(k)' ELSE InSync(k)')
    <3>1. Disturbed(k) => Disturbed(k)'
      BY <2>1, <2>2, DisturbedGrows
    <3>2. ReadsHold(k)' = ReadsHold(k) /\ InSync(k)' = InSync(k)
      BY <2>1, <2>2, Framed DEF locals
    <3> QED BY <2>1, <2>2, <3>1, <3>2 DEF locals
  <2>3. ASSUME NEW k \in SliceKeys, sliceCache'[k] # sliceCache[k] PROVE Disturbed(k)'
    <3>1. SetSlice(k)
      <4>1. PICK j \in SliceKeys : SetSlice(j)
        BY <1>2, <2>3 DEF Environment, SetExport, SetSchema
      <4>2. j = k
        BY <2>3, <4>1 DEF SetSlice, TypeOK
      <4> QED BY <4>1, <4>2
    <3>2. PICK s, b : [kind |-> "slice", key |-> k, tomb |-> b, obj |-> s] \in pending'
      BY <3>1 DEF SetSlice
    <3> QED BY <3>2 DEF Disturbed, SliceNews
  <2>4. ASSUME NEW k \in SliceKeys, sliceCache'[k] = sliceCache[k], sliceCache[k] # None,
               exportCache'[<<k[1], sliceCache[k].name>>]
                 # exportCache[<<k[1], sliceCache[k].name>>]
        PROVE  Disturbed(k)'
    <3> DEFINE e == <<k[1], sliceCache[k].name>>
    <3>1. e \in ExportKeys
      BY <2>4 DEF TypeOK, Slice, SliceKeys, ExportKeys
    <3>2. SetExport(e)
      <4>1. PICK f \in ExportKeys : SetExport(f)
        BY <1>2, <2>4 DEF Environment, SetSlice, SetSchema
      <4>2. f = e
        BY <2>4, <3>1, <4>1 DEF SetExport, TypeOK
      <4> QED BY <4>1, <4>2
    <3>3. PICK b : [kind |-> "export", key |-> e, tomb |-> b] \in pending'
      BY <3>2 DEF SetExport
    <3> QED BY <2>4, <3>3 DEF Disturbed, ExportNews
  <2>5. \A g \in GVRs : Built(newSet[g])' =>
        pc' \in {"build", "fallback", "cleanup"} /\ newSet'[g].owner = export'.identity
    BY <2>1 DEF ReadsCurrent, Built, locals
  <2> QED BY <2>1, <2>2, <2>3, <2>4, <2>5 DEF ReadsCurrent
<1> QED BY <1>1, <1>2

(* A domain a notification is news for is put in the queue.                *)
LEMMA NewsIsHeeded ==
  ASSUME NEW n \in pending, Deliver(n), phase # "shutDown", NEW k \in SliceKeys, Disturbed(k)
  PROVE  Disturbed(k)'
<1>1. dirty \subseteq dirty' /\ UNCHANGED <<caches, delayed>> /\ pending' = pending \ {n}
  BY DEF Deliver, Enqueue
<1>2. CASE k \in dirty'
  BY <1>2 DEF Disturbed
<1>3. CASE k \notin dirty' /\ k \in delayed
  BY <1>1, <1>3 DEF Disturbed
<1>4. ASSUME k \notin dirty', NEW m \in pending, m.kind = "slice", m.key = k
      PROVE  Disturbed(k)'
  <2>1. m # n
    BY <1>4 DEF Deliver, Enqueue, KeysForSlice
  <2> QED BY <1>1, <1>4, <2>1 DEF Disturbed, SliceNews
<1>5. ASSUME k \notin dirty', sliceCache[k] # None,
             NEW m \in pending, m.kind = "export", m.key = <<k[1], sliceCache[k].name>>
      PROVE  Disturbed(k)'
  <2>1. k \in SlicesReferring(k[1], sliceCache[k].name)
    BY <1>5 DEF SlicesReferring
  <2>2. k \in KeysForExport(<<k[1], sliceCache[k].name>>)
    BY <2>1 DEF KeysForExport, KeysForSlice
  <2>3. m # n
    BY <1>5, <2>2 DEF Deliver, Enqueue
  <2> QED BY <1>1, <1>5, <2>3 DEF Disturbed, ExportNews, caches
<1> QED BY <1>1, <1>2, <1>3, <1>4, <1>5 DEF Disturbed, SliceNews, ExportNews

(* A handled notification has put every domain it was news for in the      *)
(* queue.                                                                  *)
LEMMA DeliveryInSync ==
  TypeOK /\ ReadsCurrent /\ (Informers \/ Resync \/ \E k \in SliceKeys : RateLimited(k))
    => ReadsCurrent'
<1> SUFFICES ASSUME TypeOK, ReadsCurrent PROVE
      Informers \/ Resync \/ (\E k \in SliceKeys : RateLimited(k)) => ReadsCurrent'
  OBVIOUS
<1>1. ASSUME UNCHANGED <<caches, locals, apiSets, phase>>,
             phase # "shutDown" => \A k \in SliceKeys : Disturbed(k) => Disturbed(k)'
      PROVE  ReadsCurrent'
  <2>1. \A k \in SliceKeys : ReadsHold(k)' = ReadsHold(k) /\ InSync(k)' = InSync(k)
    BY <1>1, Framed DEF caches, locals
  <2>2. \A g \in GVRs : Built(newSet[g])' =>
        pc' \in {"build", "fallback", "cleanup"} /\ newSet'[g].owner = export'.identity
    BY <1>1 DEF ReadsCurrent, Built, locals
  <2> QED BY <1>1, <2>1, <2>2 DEF ReadsCurrent, locals
<1>2. ASSUME NEW n \in pending, Deliver(n) PROVE ReadsCurrent'
  <2>1. ASSUME phase # "shutDown", NEW k \in SliceKeys, Disturbed(k) PROVE Disturbed(k)'
    BY <1>2, <2>1, NewsIsHeeded
  <2> QED BY <1>1, <1>2, <2>1 DEF Deliver
<1>3. ASSUME NEW n \in pending, DeliverTombstone(n) PROVE ReadsCurrent'
  BY <1>3, RestartInSync DEF DeliverTombstone
<1>4. ASSUME Resync PROVE ReadsCurrent'
  <2>1. \A k \in SliceKeys : Disturbed(k) => Disturbed(k)'
    BY <1>4, DisturbedGrows DEF Resync, caches
  <2> QED BY <1>1, <1>4, <2>1 DEF Resync
<1>5. ASSUME NEW j \in SliceKeys, RateLimited(j) PROVE ReadsCurrent'
  <2>1. phase # "shutDown" => \A k \in SliceKeys : Disturbed(k) => Disturbed(k)'
    BY <1>5 DEF RateLimited, Enqueue, Disturbed, SliceNews, ExportNews, caches
  <2> QED BY <1>1, <1>5, <2>1 DEF RateLimited
<1> QED BY <1>2, <1>3, <1>4, <1>5 DEF Informers

(* The worker takes a key and reads its slice and export.                  *)
LEMMA ReadingInSync ==
  TypeOK /\ ReadsCurrent /\ ((\E k \in SliceKeys : Get(k)) \/ GetSlice \/ GetExport)
    => ReadsCurrent'
<1> SUFFICES ASSUME TypeOK, ReadsCurrent,
                    (\E k \in SliceKeys : Get(k)) \/ GetSlice \/ GetExport
             PROVE  ReadsCurrent'
  OBVIOUS
<1>1. UNCHANGED <<caches, pending, delayed, apiSets, newSet, phase>>
  BY DEF Get, GetSlice, GetExport, Unchanged
<1>2. \A g \in GVRs : ~Built(newSet[g])'
  BY <1>1 DEF Get, GetSlice, GetExport, NothingToServe, ReadsCurrent, Built
<1>3. ASSUME phase # "shutDown", NEW k \in SliceKeys, k # key'
      PROVE  Disturbed(k)' \/ InSync(k)'
  <2>1. InSync(k)' = InSync(k)
    BY <1>1, Framed DEF caches
  <2>2. Disturbed(k) => Disturbed(k)'
    BY <1>1, <1>3 DEF Get, GetSlice, GetExport, Disturbed, SliceNews, ExportNews, caches
  <2>3. k # key
    BY <1>3, SentinelAssumption DEF Get, GetSlice, GetExport, TypeOK
  <2> QED BY <1>3, <2>1, <2>2, <2>3 DEF ReadsCurrent
<1>4. ASSUME phase # "shutDown", NEW k \in SliceKeys, k = key'
      PROVE  Disturbed(k)' \/ ReadsHold(k)'
  <2>1. CASE \E j \in SliceKeys : Get(j)
    BY <2>1 DEF Get, ReadsHold
  <2>2. CASE GetSlice
    BY <1>4, <2>2 DEF GetSlice, Unchanged, ReadsHold, Wanted, caches
  <2>3. CASE GetExport
    <3>1. k = key /\ Disturbed(k)' = Disturbed(k)
      BY <1>1, <1>4, <2>3 DEF GetExport, Disturbed, SliceNews, ExportNews, caches
    <3>2. Disturbed(k) \/ slice = sliceCache[k]
      BY <1>3, <1>4, <2>3, <3>1 DEF ReadsCurrent, ReadsHold, GetExport
    <3>3. slice # None
      BY <2>3 DEF GetExport, NothingToServe, TypeOK
    <3>4. slice = sliceCache[k] => ReadsHold(k)'
      BY <1>1, <2>3, <3>1, <3>3 DEF GetExport, NothingToServe, ReadsHold, Wanted, CurrentExport, caches
    <3> QED BY <3>1, <3>2, <3>4
  <2> QED BY <2>1, <2>2, <2>3
<1> QED BY <1>1, <1>2, <1>3, <1>4 DEF ReadsCurrent

(* Resolving schemas changes nothing but what has been resolved.           *)
LEMMA ResolveFrame ==
  ASSUME Resolve
  PROVE  /\ UNCHANGED <<caches, pending, dirty, delayed, phase, key, slice, export, todo, newSet,
                        apiSets, live, budget>>
         /\ pc \in {"schemas", "claims", "candidates"}
         /\ pc' \in {"schemas", "claims", "candidates"}
BY DEF Resolve, GetSchema, StartClaims, ResolveClaim, GetCandidates, MatchCandidate, NextClaim,
       Unchanged

(* Resolving schemas and building the new set read nothing the set of      *)
(* served domains depends on.                                              *)
LEMMA BuildingInSync ==
  TypeOK /\ ReadsCurrent
  /\ (Resolve \/ StartBuild
      \/ (\E t \in todo : Preserve(t) \/ Create(t) \/ CreateFails(t))
      \/ StartFallback \/ (\E g \in todo : Fallback(g) \/ FallbackFails(g))
      \/ StartCleanup \/ (\E g \in todo : TearDown(g)))
    => ReadsCurrent'
<1> SUFFICES ASSUME TypeOK, ReadsCurrent,
      \/ Resolve \/ StartBuild
      \/ \E t \in todo : Preserve(t) \/ Create(t) \/ CreateFails(t)
      \/ StartFallback \/ (\E g \in todo : Fallback(g) \/ FallbackFails(g))
      \/ StartCleanup \/ (\E g \in todo : TearDown(g))
    PROVE ReadsCurrent'
  OBVIOUS
<1>1. /\ UNCHANGED <<caches, pending, dirty, delayed, key, slice, export, apiSets, phase>>
      /\ pc \in {"schemas", "claims", "candidates", "build", "fallback", "cleanup"}
      /\ pc' \in {"schemas", "claims", "candidates", "build", "fallback", "cleanup"}
      /\ pc' \in {"schemas", "claims", "candidates"} => Resolve
  BY ResolveFrame DEF StartBuild, Preserve, Create, CreateFails, StartFallback,
         Fallback, FallbackFails, StartCleanup, TearDown, Unchanged
<1>2. \A k \in SliceKeys : Disturbed(k) => Disturbed(k)'
  BY <1>1, DisturbedGrows DEF caches
<1>3. \A k \in SliceKeys : InSync(k)' = InSync(k)
  BY <1>1, Framed DEF caches
<1>4. \A k \in SliceKeys : ReadsHold(k) => ReadsHold(k)'
  BY <1>1 DEF ReadsHold, Wanted, CurrentExport, caches
<1>5. \A g \in GVRs : Built(newSet[g])' =>
        pc' \in {"build", "fallback", "cleanup"} /\ newSet'[g].owner = export'.identity
  <2>1. ASSUME NEW t \in todo, Preserve(t) PROVE newSet' = newSet \/
          /\ newSet' = [newSet EXCEPT ![GVROf(t)] = oldSet[GVROf(t)]]
          /\ oldSet[GVROf(t)].owner = export.identity
    BY <2>1 DEF Preserve, MayPreserve
  <2>2. ASSUME NEW t \in todo, Preserve(t) \/ Create(t) \/ CreateFails(t)
        PROVE  \A g \in GVRs : newSet'[g] # newSet[g] => newSet'[g].owner = export.identity
    BY <2>1, <2>2 DEF Create, CreateFails, TypeOK, DefSet
  <2>3. ASSUME NEW t \in todo, Fallback(t) \/ FallbackFails(t)
        PROVE  \A g \in GVRs : newSet'[g] # newSet[g] => newSet'[g].owner = NoIdentity
    BY <2>3 DEF Fallback, FallbackFails, FallbackDef, TypeOK, DefSet
  <2>4. \/ newSet' = newSet
        \/ \E t \in todo : Preserve(t) \/ Create(t) \/ CreateFails(t)
        \/ \E t \in todo : Fallback(t) \/ FallbackFails(t)
    BY ResolveFrame DEF StartBuild, StartFallback, StartCleanup, TearDown
  <2>5. ASSUME NEW g \in GVRs, newSet'[g] = newSet[g], Built(newSet[g])'
        PROVE  pc' \in {"build", "fallback", "cleanup"} /\ newSet'[g].owner = export'.identity
    <3>1. Built(newSet[g])
      BY <2>5 DEF Built
    <3>2. pc \in {"build", "fallback", "cleanup"} /\ newSet[g].owner = export.identity
      BY <2>5, <3>1 DEF ReadsCurrent
    <3> QED BY <1>1, <2>5, <3>2, ResolveFrame
           DEF StartBuild, Preserve, Create, CreateFails,
               StartFallback, Fallback, FallbackFails, StartCleanup, TearDown
  <2>6. ASSUME NEW g \in GVRs, newSet'[g] # newSet[g], Built(newSet[g])'
        PROVE  pc' \in {"build", "fallback", "cleanup"} /\ newSet'[g].owner = export'.identity
    BY <1>1, <2>2, <2>3, <2>4, <2>6
       DEF Built, Preserve, Create, CreateFails
  <2> QED BY <2>5, <2>6
<1> QED BY <1>1, <1>2, <1>3, <1>4, <1>5 DEF ReadsCurrent

(* The pass ends: its set is stored, the domain is dropped, or the key is  *)
(* put back; or the process stops.                                         *)
LEMMA FinishingInSync ==
  TypeOK /\ ReadsCurrent
  /\ (Drop \/ Store \/ (\E t \in todo : SelectorError(t)) \/ (\E g \in todo : TearDownNil(g))
      \/ StopTearDown \/ StopPanics \/ QueueShutDown)
    => ReadsCurrent'
<1>1. ASSUME TypeOK, ReadsCurrent, Drop \/ Store \/ (\E t \in todo : SelectorError(t))
      PROVE  ReadsCurrent'
  <2>1. /\ UNCHANGED <<caches, pending, dirty, phase>> /\ key \in SliceKeys
        /\ key' = NoKey /\ newSet' = EmptySet
    BY <1>1 DEF Drop, Store, SelectorError, ResetLocals, Unchanged, TypeOK
  <2>2. \A g \in GVRs : ~Built(newSet[g])'
    BY <2>1 DEF EmptySet, Built
  <2>3. ASSUME phase # "shutDown", NEW k \in SliceKeys, k # key
        PROVE  Disturbed(k)' \/ InSync(k)'
    <3>1. Disturbed(k) => Disturbed(k)'
      BY <1>1, <2>1, <2>3 DEF Drop, Store, SelectorError, Disturbed, SliceNews, ExportNews, caches
    <3>2. apiSets'[k] = apiSets[k]
      BY <1>1, <2>3 DEF Drop, Store, SelectorError, TypeOK
    <3>3. InSync(k)' = InSync(k)
      BY <2>1, <3>2, Framed DEF caches
    <3> QED BY <2>3, <3>1, <3>3, <1>1 DEF ReadsCurrent
  <2>4. ASSUME phase # "shutDown" PROVE Disturbed(key) \/ ReadsHold(key)
    BY <1>1, <2>1, <2>4 DEF ReadsCurrent
  <2>5. ASSUME phase # "shutDown", NEW k \in SliceKeys, k = key, Drop
        PROVE  Disturbed(k)' \/ InSync(k)'
    <3>1. Disturbed(k)' = Disturbed(k) /\ Wanted(k)' = Wanted(k)
      BY <2>1, <2>5, Framed DEF Drop, Disturbed, SliceNews, ExportNews, caches
    <3>2. ~Disturbed(k) => ~Wanted(k)
      BY <2>4, <2>5 DEF Drop, ReadsHold
    <3>3. apiSets'[k] = NoSet
      BY <1>1, <2>5 DEF Drop, TypeOK
    <3> QED BY <3>1, <3>2, <3>3 DEF InSync
  <2>6. ASSUME phase # "shutDown", NEW k \in SliceKeys, k = key, Store
        PROVE  Disturbed(k)' \/ InSync(k)'
    <3>1. Disturbed(k)' = Disturbed(k)
      BY <2>1, <2>6 DEF Store, Disturbed, SliceNews, ExportNews, caches
    <3>2. ~Disturbed(k) => Wanted(k) /\ CurrentExport(k).identity = export.identity
      BY <2>4, <2>6 DEF Store, ReadsHold
    <3>3. apiSets'[k] = newSet /\ newSet # NoSet
      BY <1>1, <2>6, SentinelAssumption DEF Store, TypeOK
    <3>4. \A g \in GVRs : Built(newSet[g]) => newSet[g].owner = export.identity
      BY <1>1 DEF ReadsCurrent
    <3>5. Wanted(k)' = Wanted(k) /\ CurrentExport(k)' = CurrentExport(k)
      BY <2>1, <2>6 DEF Wanted, CurrentExport, caches
    <3>6. \A g \in GVRs : Built(apiSets[k][g])' = Built(newSet[g])
      BY <3>3 DEF Built
    <3> QED BY <3>1, <3>2, <3>3, <3>4, <3>5, <3>6 DEF InSync
  <2>7. ASSUME phase # "shutDown", NEW k \in SliceKeys, k = key,
               NEW t \in todo, SelectorError(t)
        PROVE  Disturbed(k)' \/ InSync(k)'
    BY <2>7 DEF SelectorError, Disturbed
  <2> QED BY <1>1, <2>1, <2>2, <2>3, <2>5, <2>6, <2>7, SentinelAssumption DEF ReadsCurrent
<1>2. ASSUME ReadsCurrent, NEW g \in todo, TearDownNil(g) PROVE ReadsCurrent'
  BY <1>2, RestartInSync DEF TearDownNil
<1>3. ASSUME ReadsCurrent, StopPanics PROVE ReadsCurrent'
  BY <1>3, RestartInSync DEF StopPanics
<1>4. ASSUME ReadsCurrent, StopTearDown PROVE ReadsCurrent'
  <2>1. \A k \in SliceKeys : Disturbed(k)' = Disturbed(k) /\ InSync(k)' = InSync(k)
                             /\ ReadsHold(k)' = ReadsHold(k)
    BY <1>4, Framed DEF StopTearDown, caches, locals, Disturbed, SliceNews, ExportNews
  <2> QED BY <1>4, <2>1 DEF StopTearDown, ReadsCurrent, Built, locals
<1>5. ASSUME ReadsCurrent, QueueShutDown PROVE ReadsCurrent'
  BY <1>5 DEF QueueShutDown, ReadsCurrent, Built, locals
<1> QED BY <1>1, <1>2, <1>3, <1>4, <1>5

LEMMA StepInSync == TypeOK /\ ReadsCurrent /\ [Next]_vars => ReadsCurrent'
<1>1. ASSUME ReadsCurrent, UNCHANGED vars PROVE ReadsCurrent'
  <2>1. \A k \in SliceKeys : Disturbed(k)' = Disturbed(k) /\ InSync(k)' = InSync(k)
                             /\ ReadsHold(k)' = ReadsHold(k)
    BY <1>1, Framed DEF vars, caches, locals, Disturbed, SliceNews, ExportNews
  <2> QED BY <1>1, <2>1 DEF ReadsCurrent, Built, vars, locals
<1>2. TypeOK /\ ReadsCurrent /\ Next => ReadsCurrent'
  BY EnvironmentInSync, DeliveryInSync, ReadingInSync, BuildingInSync, FinishingInSync
     DEF Next, Worker
<1> QED BY <1>1, <1>2

(* Whatever reconcile acts upon is current or about to be replaced.        *)
THEOREM ReadsStayCurrent == Spec => []ReadsCurrent
<1>1. TypeOK /\ ReadsCurrent /\ [Next]_vars => ReadsCurrent'
  BY StepInSync
<1> QED BY <1>1, InitInSync, TypeCorrect, PTL DEF Spec

LEMMA NothingLost == TypeOK /\ ReadsCurrent => DomainInSync
BY DEF TypeOK, ReadsCurrent, DomainInSync, Quiet

(* No wake-up is lost: for any number of clusters, slices, exports and     *)
(* schemas, and any number of changes, crashes and restarts, a domain that *)
(* nothing is under way for is served exactly if its slice and export say  *)
(* so, and under that export's identity only.                              *)
THEOREM NoLostWakeUp == Spec => []DomainInSync
BY NothingLost, ReadsStayCurrent, TypeCorrect, PTL
=============================================================================
