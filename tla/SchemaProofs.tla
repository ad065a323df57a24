---------------------------- MODULE SchemaProofs ----------------------------
(***************************************************************************)
(* A domain about which nothing is under way serves the current schemas of *)
(* its export (ServedSchemasCurrent), and what the export claims from the  *)
(* current schemas of the claimed identity (ServedClaimsCurrent), for      *)
(* every value of the constants, in every behaviour in which the things do *)
(* not happen that the code does not recover from before the next resync:  *)
(* a slice that the schema handler stumbles over, a schema that is         *)
(* replaced without a notification, a definition that cannot be created,   *)
(* and, for claims, an identity that is taken away or changed.             *)
(*                                                                         *)
(* The argument goes along reconcile: the export and the schemas it has    *)
(* read are those of now, or its key comes round again; the new set is     *)
(* built from the schemas read, version by version. A claim is answered    *)
(* from the exports of its identity; what is news to one of them wakes the *)
(* claimers through a slice of that export.                                *)
(***************************************************************************)
EXTENDS DomainMapProofs, SequenceTheorems

(* enqueueAPIResourceSchema looks for exports at spec.export.path, and     *)
(* gives up at the first it does not find.                                 *)
SlicesResolve ==
  \A k \in SliceKeys : sliceCache[k] # None =>
    /\ sliceCache[k].path = k[1]
    /\ CurrentExport(k) = None =>
         \A j \in SliceKeys \ {k} : j[1] = k[1] => sliceCache[j] = None

(* No schema is replaced in one update, no creation fails.                 *)
NothingMissed ==
  /\ \A s \in SchemaKeys : schemaCache[s] = None \/ schemaCache'[s] \in {schemaCache[s], None}
  /\ \A t \in todo : ~CreateFails(t)

Woken(k) == Disturbed(k) \/ SchemaNews(k)

(* What reconcile has read for its key k is what there is.                 *)
ExportRead(k) == pc \notin {"idle", "slice", "drop", "export"} => export = CurrentExport(k)

SchemasRead(k) ==
  /\ pc = "schemas" => found = SchemasUpTo(k[1], export, next - 1)
  /\ pc \in {"claims", "candidates", "build", "fallback", "cleanup"} =>
       \A r \in GRs : /\ OwnSchemas(k)[r] # None => schemas[r] = OwnSchemas(k)[r]
                      /\ schemas[r] # None => OwnSchemas(k)[r] # None \/ Claimed(export, r)
  /\ pc = "candidates" => OwnSchemas(k)[Head(claimsLeft).gr] = None

SchemasHold ==
  phase # "shutDown" =>
    \A k \in SliceKeys :
      Woken(k) \/ (IF k = key THEN ExportRead(k) /\ SchemasRead(k) ELSE SchemasInSync(k))

(* What getSchemasFromAPIExport is at: nothing, the key's own export, or   *)
(* the candidates for a claim.                                             *)
ReadingShape ==
  /\ pc \notin {"schemas", "candidates"} => exports = <<>>
  /\ exports = <<>> => found = NoSchemas /\ next = 1
  /\ pc = "schemas" => exports = <<<<<<key[1], slice.name>>, export>>>>
  /\ exports # <<>> => next <= Len(Head(exports)[2].resources) + 1
  /\ \A r \in GRs : found[r] # None => found[r].gr = r

(* What is left of the claims is left of the export's.                     *)
ClaimsOfExport ==
  pc \in {"claims", "candidates"} => Range(claimsLeft) \subseteq Range(export.claims)

(* The schemas read are found under their own names, and the new set has a *)
(* definition of a schema's served versions exactly, as far as it is built. *)
NamesMatch ==
  \A r \in GRs : schemas[r] # None => schemas[r].gr = r \/ schemas[r].gr \in CrossAnswers

Listed(g) == schemas[g[1]] # None /\ g[2] \in schemas[g[1]].served
Due(g) == Listed(g) /\ schemas[g[1]].gr = g[1]

SetBuilt ==
  /\ pc = "build" => \A t \in todo : Listed(t)
  /\ pc = "fallback" => todo \subseteq FallbackGVRs
  /\ pc \in {"build", "fallback", "cleanup"} =>
       \A g \in PlainGVRs :
         /\ Due(g) => (pc = "build" /\ g \in todo) \/ Built(newSet[g])
         /\ Built(newSet[g]) => Due(g) /\ newSet[g].uid = schemas[g[1]].uid

Construction == ReadingShape /\ ClaimsOfExport /\ NamesMatch /\ SetBuilt
Known == TypeOK /\ ReadsCurrent /\ MapInv /\ SchemasHold /\ Construction

-----------------------------------------------------------------------------
(* What a domain depends on.                                               *)
SameObjects(k) ==
  /\ sliceCache'[k] = sliceCache[k]
  /\ sliceCache[k] # None =>
       /\ CurrentExport(k)' = CurrentExport(k)
       /\ CurrentExport(k) # None =>
            \A r \in Range(CurrentExport(k).resources) :
              schemaCache'[<<k[1], r>>] = schemaCache[<<k[1], r>>]

LEMMA SchemasStay ==
  ASSUME NEW c, NEW x,
         \A r \in Range(x.resources) : schemaCache'[<<c, r>>] = schemaCache[<<c, r>>]
  PROVE  /\ \A n : SchemasUpTo(c, x, n)' = SchemasUpTo(c, x, n)
         /\ SchemasFromAPIExport(c, x)' = SchemasFromAPIExport(c, x)
<1>1. \A i \in DOMAIN x.resources :
        schemaCache'[<<c, x.resources[i]>>] = schemaCache[<<c, x.resources[i]>>]
  BY DEF Range
<1>2. ASSUME NEW n PROVE SchemasUpTo(c, x, n)' = SchemasUpTo(c, x, n)
  BY <1>1 DEF SchemasUpTo
<1> QED BY <1>2 DEF SchemasFromAPIExport

LEMMA OwnSchemasStay ==
  ASSUME NEW k \in SliceKeys, SameObjects(k), sliceCache[k] # None, CurrentExport(k) # None
  PROVE  OwnSchemas(k)' = OwnSchemas(k)
<1>1. SchemasFromAPIExport(k[1], CurrentExport(k))' = SchemasFromAPIExport(k[1], CurrentExport(k))
  BY SchemasStay DEF SameObjects
<1> QED BY <1>1 DEF OwnSchemas

LEMMA DomainFramed ==
  ASSUME NEW k \in SliceKeys, SameObjects(k)
  PROVE  /\ Wanted(k)' = Wanted(k)
         /\ apiSets'[k] = apiSets[k] => SchemasInSync(k)' = SchemasInSync(k)
         /\ Wanted(k) /\ UNCHANGED <<pc, export>> => ExportRead(k)' = ExportRead(k)
         /\ Wanted(k) /\ ExportRead(k) /\ SchemasRead(k)
              /\ UNCHANGED <<pc, export, schemas, found, next, claimsLeft>> => SchemasRead(k)'
<1>1. Wanted(k)' = Wanted(k)
  BY DEF SameObjects, Wanted, CurrentExport
<1>2. Wanted(k) => /\ CurrentExport(k)' = CurrentExport(k)
                   /\ OwnSchemas(k)' = OwnSchemas(k)
  BY OwnSchemasStay DEF SameObjects, Wanted, CurrentExport
<1>3. apiSets'[k] = apiSets[k] => SchemasInSync(k)' = SchemasInSync(k)
  BY <1>1, <1>2 DEF SchemasInSync, Built, Claimed
<1>4. Wanted(k) /\ UNCHANGED <<pc, export>> => ExportRead(k)' = ExportRead(k)
  BY <1>2 DEF ExportRead
<1>5. ASSUME Wanted(k), ExportRead(k), SchemasRead(k),
             UNCHANGED <<pc, export, schemas, found, next, claimsLeft>>
      PROVE  SchemasRead(k)'
  <2>1. CASE pc = "schemas"
    <3>1. export = CurrentExport(k) /\ sliceCache[k] # None /\ export # None
      BY <1>5, <2>1 DEF ExportRead, Wanted, CurrentExport
    <3>2. \A n : SchemasUpTo(k[1], export, n)' = SchemasUpTo(k[1], export, n)
      <4>1. \A r \in Range(export.resources) : schemaCache'[<<k[1], r>>] = schemaCache[<<k[1], r>>]
        BY <3>1 DEF SameObjects
      <4>2. ASSUME NEW x, x = export PROVE \A n : SchemasUpTo(k[1], x, n)' = SchemasUpTo(k[1], x, n)
        BY <4>1, <4>2, SchemasStay
      <4> QED BY <1>5, <4>2
    <3> QED BY <1>5, <2>1, <3>2 DEF SchemasRead
  <2>2. CASE pc # "schemas"
    BY <1>2, <1>5, <2>2 DEF SchemasRead, Claimed
  <2> QED BY <2>1, <2>2
<1> QED BY <1>1, <1>3, <1>4, <1>5

(* The caches change, or the queue: a domain that is left alone has all    *)
(* it depends on unchanged.                                                *)
LEMMA LeftAlone ==
  ASSUME TypeOK, ReadsCurrent, SchemasHold, UNCHANGED <<locals, apiSets>>,
         phase' # "shutDown" => phase # "shutDown",
         phase' # "shutDown" =>
           \A k \in SliceKeys : Woken(k)' \/ (~Woken(k) /\ SameObjects(k))
  PROVE  SchemasHold'
<1> SUFFICES ASSUME phase' # "shutDown", NEW k \in SliceKeys, ~Woken(k)'
             PROVE  IF k = key THEN ExportRead(k)' /\ SchemasRead(k)' ELSE SchemasInSync(k)'
  BY DEF SchemasHold, locals
<1>1. phase # "shutDown" /\ ~Woken(k) /\ SameObjects(k)
  OBVIOUS
<1>2. IF k = key THEN ExportRead(k) /\ SchemasRead(k) ELSE SchemasInSync(k)
  BY <1>1 DEF SchemasHold
<1>3. k = key /\ pc \notin {"idle", "slice", "drop", "export"} => Wanted(k)
  BY <1>1 DEF Woken, ReadsCurrent, ReadsHold
<1>4. pc \in {"idle", "slice", "drop", "export"} => ExportRead(k)' /\ SchemasRead(k)'
  BY DEF ExportRead, SchemasRead, locals
<1> QED BY <1>1, <1>2, <1>3, <1>4, DomainFramed DEF locals, reading

LEMMA ConstructionStays ==
  ASSUME Construction, UNCHANGED locals
  PROVE  Construction'
BY DEF Construction, ReadingShape, ClaimsOfExport, NamesMatch, SetBuilt, Listed, Due, Built,
       locals, reading

(* A start has every slice looked at.                                      *)
LEMMA RestartSchemas == Restart => SchemasHold' /\ Construction'
<1> SUFFICES ASSUME Restart PROVE SchemasHold' /\ Construction'
  OBVIOUS
<1>1. ASSUME NEW k \in SliceKeys PROVE SchemasInSync(k)' \/ Woken(k)'
  <2>1. CASE sliceCache[k] = None
    BY <2>1 DEF Restart, SchemasInSync, Wanted, caches
  <2>2. CASE sliceCache[k] # None
    BY <2>2, StartAnnouncesSlices DEF Restart, Woken, Disturbed, SliceNews
  <2> QED BY <2>1, <2>2
<1>2. key' = NoKey /\ pc' = "idle" /\ schemas' = NoSchemas /\ NothingToRead
  BY DEF Restart, ResetLocals
<1>3. SchemasHold'
  BY <1>1, <1>2, SentinelAssumption DEF SchemasHold
<1> QED BY <1>2, <1>3 DEF Construction, ReadingShape, NothingToRead, ClaimsOfExport,
        NamesMatch, SetBuilt, NoSchemas

LEMMA InitSchemas == Init => SchemasHold /\ Construction
<1> SUFFICES ASSUME Init PROVE SchemasHold /\ Construction
  OBVIOUS
<1>1. ASSUME NEW k \in SliceKeys PROVE SchemasInSync(k) \/ Woken(k)
  <2>1. CASE sliceCache[k] = None
    BY <2>1 DEF SchemasInSync, Wanted
  <2>2. CASE sliceCache[k] # None
    BY <2>2, StartAnnouncesSlices DEF Init, Woken, Disturbed, SliceNews
  <2> QED BY <2>1, <2>2
<1>2. /\ key = NoKey /\ pc = "idle" /\ schemas = NoSchemas
      /\ exports = <<>> /\ found = NoSchemas /\ next = 1
  BY DEF Init
<1>3. SchemasHold
  BY <1>1, <1>2, SentinelAssumption DEF SchemasHold
<1> QED BY <1>2, <1>3 DEF Construction, ReadingShape, NothingToRead, ClaimsOfExport,
        NamesMatch, SetBuilt, NoSchemas

-----------------------------------------------------------------------------
(* The control plane and the informers.                                    *)

(* What changes an object of a domain is announced.                        *)
LEMMA ChangesAreAnnounced ==
  ASSUME TypeOK, NothingMissed, Environment, ~Crash, NEW k \in SliceKeys, ~Woken(k)'
  PROVE  ~Woken(k) /\ SameObjects(k)
<1>0. UNCHANGED <<dirty, delayed>> /\ pending \subseteq pending'
  BY DEF Environment, SetSlice, SetExport, SetSchema
<1>1. sliceCache'[k] = sliceCache[k]
  <2>1. ASSUME sliceCache'[k] # sliceCache[k] PROVE FALSE
    <3>1. SetSlice(k)
      <4>1. PICK j \in SliceKeys : SetSlice(j)
        BY <2>1 DEF Environment, SetExport, SetSchema
      <4>2. j = k
        BY <2>1, <4>1 DEF SetSlice, TypeOK
      <4> QED BY <4>1, <4>2
    <3>2. PICK s, b : [kind |-> "slice", key |-> k, tomb |-> b, obj |-> s] \in pending'
      BY <3>1 DEF SetSlice
    <3> QED BY <3>2 DEF Woken, Disturbed, SliceNews
  <2> QED BY <2>1
<1>2. ASSUME sliceCache[k] # None PROVE CurrentExport(k)' = CurrentExport(k)
  <2> DEFINE e == <<k[1], sliceCache[k].name>>
  <2>1. ASSUME exportCache'[e] # exportCache[e] PROVE FALSE
    <3>1. e \in ExportKeys
      BY <1>2 DEF TypeOK, Slice, SliceKeys, ExportKeys
    <3>2. SetExport(e)
      <4>1. PICK f \in ExportKeys : SetExport(f)
        BY <2>1 DEF Environment, SetSlice, SetSchema
      <4>2. f = e
        BY <2>1, <3>1, <4>1 DEF SetExport, TypeOK
      <4> QED BY <4>1, <4>2
    <3>3. PICK b : [kind |-> "export", key |-> e, tomb |-> b] \in pending'
      BY <3>2 DEF SetExport
    <3> QED BY <1>1, <1>2, <3>3 DEF Woken, Disturbed, ExportNews
  <2> QED BY <1>1, <2>1 DEF CurrentExport
<1>3. ASSUME sliceCache[k] # None, CurrentExport(k) # None,
             NEW r \in Range(CurrentExport(k).resources)
      PROVE  schemaCache'[<<k[1], r>>] = schemaCache[<<k[1], r>>]
  <2> DEFINE s == <<k[1], r>>
  <2>1. ASSUME schemaCache'[s] # schemaCache[s] PROVE FALSE
    <3>1. PICK j \in SchemaKeys : SetSchema(j)
      BY <2>1 DEF Environment, SetSlice, SetExport
    <3>2. j = s
      BY <2>1, <3>1 DEF SetSchema, TypeOK
    <3>3. ~(schemaCache[j] # None /\ schemaCache'[j] # None)
      BY <2>1, <3>2 DEF NothingMissed
    <3>4. PICK b : [kind |-> "schema", key |-> j, tomb |-> b] \in pending'
      BY <3>1, <3>3 DEF SetSchema, TypeOK
    <3> QED BY <1>1, <1>2, <1>3, <3>2, <3>4 DEF Woken, SchemaNews
  <2> QED BY <2>1
<1>4. ~Disturbed(k)
  BY <1>0, <1>1, DisturbedGrows DEF Woken
<1>5. ~SchemaNews(k)
  BY <1>0, <1>1, <1>2 DEF Woken, SchemaNews
<1> QED BY <1>1, <1>2, <1>3, <1>4, <1>5 DEF Woken, SameObjects

LEMMA EnvironmentSchemas ==
  ASSUME Known, NothingMissed, Environment
  PROVE  SchemasHold' /\ Construction'
<1> USE DEF Known
<1>1. CASE Crash
  BY <1>1, RestartSchemas DEF Crash
<1>2. CASE ~Crash
  <2>1. /\ UNCHANGED <<locals, apiSets, phase, dirty, delayed>> /\ pending \subseteq pending'
    BY <1>2 DEF Environment, SetSlice, SetExport, SetSchema
  <2>2. \A k \in SliceKeys : ~Woken(k)' => ~Woken(k) /\ SameObjects(k)
    BY <1>2, ChangesAreAnnounced
  <2> QED BY <2>1, <2>2, LeftAlone, ConstructionStays
<1> QED BY <1>1, <1>2

(* The schema handler finds every slice whose export declares the schema.  *)
LEMMA SchemaReachesSlices ==
  ASSUME TypeOK, SlicesResolve, NEW k \in SliceKeys, sliceCache[k] # None,
         CurrentExport(k) # None, NEW s, s[1] = k[1], s[2] \in Range(CurrentExport(k).resources),
         NEW K \in KeysForSchema(s)
  PROVE  k \in K /\ KeysForSlice(k, sliceCache[k]) \subseteq K
<1> DEFINE ExportOf(j) == GetAPIExport(sliceCache[j].path, sliceCache[j].name)
           Using == {j \in SliceKeys : /\ j[1] = s[1] /\ sliceCache[j] # None
                                       /\ ExportOf(j) # None
                                       /\ s[2] \in Range(ExportOf(j).resources)}
<1>1. \A j \in SliceKeys : sliceCache[j] # None => ExportOf(j) = CurrentExport(j)
  BY DEF SlicesResolve, GetAPIExport, CurrentExport, ExportKeys, SliceKeys, TypeOK, Slice
<1>2. \A j \in SliceKeys : j[1] = s[1] /\ sliceCache[j] # None => ExportOf(j) # None
  BY <1>1 DEF SlicesResolve
<1>3. k \in Using
  BY <1>1
<1>4. K = UNION {KeysForSlice(j, sliceCache[j]) : j \in Using}
  BY <1>2 DEF KeysForSchema
<1>5. k \in KeysForSlice(k, sliceCache[k])
  BY DEF KeysForSlice
<1> QED BY <1>3, <1>4, <1>5

(* What is under way stays under way until the worker takes it up.         *)
LEMMA NewsAreHeeded ==
  ASSUME TypeOK, SlicesResolve, phase # "shutDown", NEW k \in SliceKeys, Woken(k),
         \/ \E n \in pending : Deliver(n)
         \/ Resync \/ \E j \in SliceKeys : RateLimited(j)
  PROVE  Woken(k)'
<1>1. ASSUME NEW n \in pending, Deliver(n) PROVE Woken(k)'
  <2>1. UNCHANGED caches /\ pending' = pending \ {n}
    BY <1>1 DEF Deliver
  <2>2. ASSUME SchemaNews(k) PROVE Woken(k)'
    <3>1. PICK m \in pending : /\ m.kind = "schema" /\ m.key[1] = k[1]
                               /\ m.key[2] \in Range(CurrentExport(k).resources)
      BY <2>2 DEF SchemaNews
    <3>2. CASE m = n
      <4>1. \A K \in KeysForSchema(n.key) : k \in K
        BY <2>2, <3>1, <3>2, SchemaReachesSlices DEF SchemaNews
      <4>2. k \in dirty'
        BY <1>1, <3>1, <3>2, <4>1 DEF Deliver, Enqueue
      <4> QED BY <4>2 DEF Woken, Disturbed
    <3>3. CASE m # n
      BY <2>1, <2>2, <3>1, <3>3 DEF Woken, SchemaNews, CurrentExport, caches
    <3> QED BY <3>2, <3>3
  <2> QED BY <1>1, <2>2, NewsIsHeeded DEF Woken
<1>2. CASE Resync
  BY <1>2, DisturbedGrows DEF Resync, caches, Woken, SchemaNews
<1>3. ASSUME NEW j \in SliceKeys, RateLimited(j) PROVE Woken(k)'
  BY <1>3 DEF RateLimited, Enqueue, Woken, Disturbed, SliceNews, ExportNews, SchemaNews,
     CurrentExport, caches
<1> QED BY <1>1, <1>2, <1>3

LEMMA DeliverySchemas ==
  ASSUME Known, SlicesResolve, Informers \/ Resync \/ \E k \in SliceKeys : RateLimited(k)
  PROVE  SchemasHold' /\ Construction'
<1> USE DEF Known
<1>1. CASE \E n \in pending : DeliverTombstone(n)
  BY <1>1, RestartSchemas DEF DeliverTombstone
<1>2. CASE \/ \E n \in pending : Deliver(n)
           \/ Resync \/ \E j \in SliceKeys : RateLimited(j)
  <2>1. UNCHANGED <<caches, locals, apiSets, phase>>
    BY <1>2 DEF Deliver, Resync, RateLimited
  <2>2. \A k \in SliceKeys : SameObjects(k)
    BY <2>1 DEF SameObjects, CurrentExport, caches
  <2>3. phase # "shutDown" => \A k \in SliceKeys : Woken(k) => Woken(k)'
    BY <1>2, NewsAreHeeded
  <2> QED BY <2>1, <2>2, <2>3, LeftAlone, ConstructionStays
<1> QED BY <1>1, <1>2 DEF Informers

-----------------------------------------------------------------------------
(* The worker reads.                                                       *)

(* A step within the pass over the key leaves the other domains alone.     *)
LEMMA WithinPass ==
  ASSUME TypeOK, SchemasHold,
         UNCHANGED <<caches, pending, dirty, delayed, phase>>, UNCHANGED <<key, apiSets>>,
         phase # "shutDown" /\ key \in SliceKeys /\ ~Woken(key) =>
           \A k \in SliceKeys : k = key => ExportRead(k)' /\ SchemasRead(k)'
  PROVE  SchemasHold'
<1>1. \A k \in SliceKeys : Woken(k)' = Woken(k)
  BY DEF Woken, Disturbed, SliceNews, ExportNews, SchemaNews, CurrentExport, caches
<1>2. \A k \in SliceKeys : SchemasInSync(k)' = SchemasInSync(k)
  <2>1. \A k \in SliceKeys : SameObjects(k)
    BY DEF SameObjects, CurrentExport, caches
  <2> QED BY <2>1, DomainFramed
<1> QED BY <1>1, <1>2 DEF SchemasHold

(* How far the schemas of an export have been read, one resource at a time. *)
LEMMA NothingUpTo ==
  ASSUME NEW c, NEW x \in Export
  PROVE  SchemasUpTo(c, x, 0) = NoSchemas /\ SchemasUpTo(c, x, 0)' = NoSchemas
<1>1. x.resources \in Seq(SchemaNames)
  BY DEF Export
<1>2. \A i \in DOMAIN x.resources : ~(i <= 0)
  BY <1>1
<1> QED BY <1>2 DEF SchemasUpTo, NoSchemas

LEMMA NextUpTo ==
  ASSUME NEW c, NEW x \in Export, NEW n \in Nat, n + 1 <= Len(x.resources),
         NEW h, h = schemaCache[<<c, x.resources[n + 1]>>]
  PROVE  SchemasUpTo(c, x, n + 1) =
           IF h = None THEN SchemasUpTo(c, x, n) ELSE [SchemasUpTo(c, x, n) EXCEPT ![h.gr] = h]
<1> DEFINE At(i) == schemaCache[<<c, x.resources[i]>>]
           Hit(g, i) == At(i) # None /\ At(i).gr = g
           Read(m) == {i \in DOMAIN x.resources : i <= m}
           LastHit(m, g, i) == Hit(g, i) /\ \A j \in Read(m) : Hit(g, j) => j <= i
           Found(m, g) == IF \E i \in Read(m) : LastHit(m, g, i)
                          THEN At(CHOOSE i \in Read(m) : LastHit(m, g, i)) ELSE None
<1>1. \A m : SchemasUpTo(c, x, m) = [g \in GRs |-> Found(m, g)]
  BY DEF SchemasUpTo
<1>2. x.resources \in Seq(SchemaNames) /\ DOMAIN x.resources = 1..Len(x.resources)
  BY DEF Export
<1>3. Read(n + 1) = Read(n) \cup {n + 1} /\ \A j \in Read(n) : j \in Nat /\ j < n + 1
  BY <1>2
<1>4. /\ At(n + 1) = h
      /\ \A g : Hit(g, n + 1) <=> h # None /\ h.gr = g
  OBVIOUS
<1> HIDE DEF Read, Hit, At, LastHit
<1>5. ASSUME NEW m \in {n, n + 1}, NEW g, NEW i \in Read(m), LastHit(m, g, i)
      PROVE  Found(m, g) = At(i)
  <2>1. \A j \in Read(m) : j \in Nat
    BY <1>3
  <2>2. ASSUME NEW j \in Read(m), LastHit(m, g, j) PROVE j = i
    <3>1. j <= i /\ i <= j
      BY <1>5, <2>2 DEF LastHit
    <3> QED BY <2>1, <3>1
  <2>3. (CHOOSE j \in Read(m) : LastHit(m, g, j)) = i
    BY <1>5, <2>2
  <2> QED BY <1>5, <2>3
<1> HIDE DEF Found
<1>6. ASSUME NEW g, Hit(g, n + 1) PROVE Found(n + 1, g) = h
  <2>1. LastHit(n + 1, g, n + 1) /\ n + 1 \in Read(n + 1)
    BY <1>3, <1>6 DEF LastHit
  <2> QED BY <1>4, <1>5, <2>1
<1>7. ASSUME NEW g, ~Hit(g, n + 1) PROVE Found(n + 1, g) = Found(n, g)
  <2>1. \A i : i \in Read(n + 1) /\ LastHit(n + 1, g, i) <=> i \in Read(n) /\ LastHit(n, g, i)
    BY <1>3, <1>7 DEF LastHit
  <2>2. CASE \E i \in Read(n) : LastHit(n, g, i)
    <3>1. PICK i \in Read(n) : LastHit(n, g, i)
      BY <2>2
    <3>2. Found(n, g) = At(i)
      BY <1>5, <3>1
    <3>3. i \in Read(n + 1) /\ LastHit(n + 1, g, i)
      BY <2>1, <3>1
    <3>4. Found(n + 1, g) = At(i)
      BY <1>5, <3>3
    <3> QED BY <3>2, <3>4
  <2>3. CASE ~\E i \in Read(n) : LastHit(n, g, i)
    <3>1. ~\E i \in Read(n + 1) : LastHit(n + 1, g, i)
      BY <2>1, <2>3
    <3> QED BY <2>3, <3>1 DEF Found
  <2> QED BY <2>2, <2>3
<1> QED BY <1>1, <1>4, <1>6, <1>7

LEMMA GetSchemasOfKey ==
  ASSUME Known, (\E k \in SliceKeys : Get(k)) \/ GetSlice \/ GetExport
  PROVE  SchemasHold' /\ Construction'
<1> USE DEF Known
<1>1. /\ pc' \in {"slice", "export", "drop", "schemas"} /\ schemas' = schemas
      /\ exports = <<>> /\ found = NoSchemas /\ next = 1 /\ UNCHANGED <<found, next>>
  BY DEF Get, GetSlice, GetExport, NothingToServe, Construction, ReadingShape, reading
<1>2. Construction'
  <2>1. ReadingShape'
    <3>1. CASE (\E k \in SliceKeys : Get(k)) \/ GetSlice
      BY <1>1, <3>1 DEF Get, GetSlice, reading, ReadingShape, NoSchemas
    <3>2. CASE GetExport /\ pc' = "drop"
      BY <1>1, <3>2 DEF GetExport, ReadingShape, NoSchemas
    <3>3. CASE GetExport /\ pc' # "drop"
      <4>1. export' \in Export /\ exports' = <<<<<<key'[1], slice'.name>>, export'>>>>
        BY <3>3 DEF GetExport, NothingToServe, TypeOK, Slice, SliceKeys, ExportKeys
      <4>2. Len(export'.resources) \in Nat /\ Head(exports')[2] = export'
        BY <4>1 DEF Export
      <4>3. \A r \in GRs : found'[r] = None
        BY <1>1 DEF NoSchemas
      <4>4. pc' = "schemas"
        BY <3>3 DEF GetExport
      <4>5. exports' # <<>> /\ next' = 1
        BY <1>1, <4>1
      <4> QED BY <4>1, <4>2, <4>3, <4>4, <4>5 DEF ReadingShape
    <3> QED BY <3>1, <3>2, <3>3
  <2> QED BY <1>1, <2>1 DEF Construction, ClaimsOfExport, NamesMatch, SetBuilt
<1>3. \A k \in SliceKeys : SchemasRead(k)'
  <2>1. CASE pc' # "schemas"
    BY <1>1, <2>1 DEF SchemasRead
  <2>2. CASE pc' = "schemas"
    <3>1. PICK x \in Export : x = export'
      BY <2>2 DEF Get, GetSlice, GetExport, NothingToServe, TypeOK, Slice, SliceKeys, ExportKeys
    <3>2. \A k \in SliceKeys : SchemasUpTo(k[1], x, 0)' = NoSchemas
      BY NothingUpTo
    <3> QED BY <1>1, <2>2, <3>1, <3>2 DEF SchemasRead
  <2> QED BY <2>1, <2>2
<1>4. ASSUME NEW j \in SliceKeys, Get(j) PROVE SchemasHold'
  <2>1. /\ UNCHANGED <<caches, pending, phase, delayed, apiSets>> /\ dirty' = dirty \ {j}
        /\ key' = j /\ pc' = "slice" /\ key = NoKey
    BY <1>4 DEF Get, Unchanged, TypeOK
  <2>2. ASSUME NEW k \in SliceKeys, k # j PROVE Woken(k)' = Woken(k) /\ SchemasInSync(k)' = SchemasInSync(k)
    <3>1. SameObjects(k)
      BY <2>1 DEF SameObjects, CurrentExport, caches
    <3>2. Woken(k)' = Woken(k)
      BY <2>1, <2>2 DEF Woken, Disturbed, SliceNews, ExportNews, SchemaNews, CurrentExport, caches
    <3> QED BY <2>1, <3>1, <3>2, DomainFramed
  <2>3. ExportRead(j)'
    BY <2>1 DEF ExportRead
  <2> QED BY <1>3, <2>1, <2>2, <2>3, SentinelAssumption DEF SchemasHold
<1>5. CASE GetSlice
  <2>1. \A k \in SliceKeys : ExportRead(k)'
    BY <1>5 DEF GetSlice, NothingToServe, ExportRead
  <2>2. UNCHANGED <<caches, pending, dirty, delayed, phase>> /\ UNCHANGED <<key, apiSets>>
    BY <1>5 DEF GetSlice, NothingToServe, Unchanged
  <2> QED BY <1>2, <1>3, <2>1, <2>2, WithinPass
<1>6. CASE GetExport
  <2>1. ASSUME phase # "shutDown", NEW k \in SliceKeys, k = key, ~Woken(k) PROVE ExportRead(k)'
    <3>1. slice = sliceCache[k]
      BY <1>6, <2>1 DEF GetExport, ReadsCurrent, ReadsHold, Woken
    <3> QED BY <1>6, <2>1, <3>1 DEF GetExport, ExportRead, CurrentExport, Unchanged, caches
  <2>2. UNCHANGED <<caches, pending, dirty, delayed, phase>> /\ UNCHANGED <<key, apiSets>>
    BY <1>6 DEF GetExport, NothingToServe, Unchanged
  <2> QED BY <1>2, <1>3, <2>1, <2>2, WithinPass
<1> QED BY <1>2, <1>4, <1>5, <1>6

LEMMA OwnNames ==
  ASSUME NEW c, NEW x, NEW r \in GRs, SchemasFromAPIExport(c, x)[r] # None
  PROVE  SchemasFromAPIExport(c, x)[r].gr = r
<1> DEFINE n == Len(x.resources)
           Read == {i \in DOMAIN x.resources : i <= n}
           At(i) == schemaCache[<<c, x.resources[i]>>]
           Hit(i) == At(i) # None /\ At(i).gr = r
           LastHit(i) == Hit(i) /\ \A j \in Read : Hit(j) => j <= i
<1>1. /\ \E i \in Read : LastHit(i)
      /\ SchemasFromAPIExport(c, x)[r] = At(CHOOSE i \in Read : LastHit(i))
  BY DEF SchemasFromAPIExport, SchemasUpTo
<1>2. LastHit(CHOOSE i \in Read : LastHit(i))
  BY <1>1
<1> QED BY <1>1, <1>2

(* What is known of the key while its schemas are resolved.                *)
LEMMA KeyKnown ==
  ASSUME Known, Resolve, phase # "shutDown", NEW k \in SliceKeys, k = key, ~Woken(k)
  PROVE  /\ export = CurrentExport(k) /\ Wanted(k) /\ SchemasRead(k)
         /\ ExportRead(k)' /\ OwnSchemas(k)' = OwnSchemas(k)
<1>1. UNCHANGED <<caches, export>> /\ pc \notin {"idle", "slice", "drop", "export"}
  BY ResolveFrame
<1>2. export = CurrentExport(k) /\ Wanted(k) /\ SchemasRead(k)
  BY <1>1 DEF Known, SchemasHold, ExportRead, ReadsCurrent, ReadsHold, Woken
<1>3. SameObjects(k)
  BY <1>1 DEF SameObjects, CurrentExport, caches
<1>4. OwnSchemas(k)' = OwnSchemas(k) /\ CurrentExport(k)' = CurrentExport(k)
  BY <1>2, <1>3, OwnSchemasStay DEF SameObjects, Wanted, CurrentExport
<1> QED BY <1>1, <1>2, <1>4 DEF ExportRead

LEMMA CachesStay ==
  ASSUME Resolve
  PROVE  \A c, x, n : SchemasUpTo(c, x, n)' = SchemasUpTo(c, x, n)
BY ResolveFrame DEF SchemasUpTo, caches

(* To prove of a step of Resolve: the reads of a key without news.         *)
LEMMA ResolvingPass ==
  ASSUME Known, Resolve,
         ASSUME phase # "shutDown", NEW k \in SliceKeys, k = key, ~Woken(k),
                export = CurrentExport(k), SchemasRead(k), OwnSchemas(k)' = OwnSchemas(k)
         PROVE  SchemasRead(k)'
  PROVE  SchemasHold' /\ SetBuilt'
<1>1. \A k \in SliceKeys : phase # "shutDown" /\ k = key /\ ~Woken(k)
        => ExportRead(k)' /\ SchemasRead(k)'
  BY KeyKnown
<1>2. SchemasHold'
  BY <1>1, ResolveFrame, WithinPass DEF Known
<1>3. SetBuilt'
  BY ResolveFrame DEF SetBuilt
<1> QED BY <1>2, <1>3

(* One more schema of the export that is being read.                       *)
LEMMA GetSchemaReads ==
  ASSUME Known, GetSchema
  PROVE  /\ next' <= Len(Head(exports)[2].resources) + 1
         /\ \A r \in GRs : found'[r] # None => found'[r].gr = r
         /\ found = SchemasUpTo(Head(exports)[1][1], Head(exports)[2], next - 1) =>
              found' = SchemasUpTo(Head(exports)[1][1], Head(exports)[2], next' - 1)
<1> DEFINE e == Head(exports)[1]
           x == Head(exports)[2]
           h == schemaCache[<<e[1], x.resources[next]>>]
           n == next - 1
<1>1. /\ exports # <<>> /\ ~(next > Len(x.resources)) /\ next' = next + 1
      /\ found' = IF h = None THEN found ELSE [found EXCEPT ![h.gr] = h]
  BY DEF GetSchema, AllRead
<1>2. Head(exports) \in ExportKeys \X Export /\ found \in [GRs -> Schema \cup {None}]
      /\ next \in Nat \ {0}
  BY <1>1 DEF Known, TypeOK
<1>3. x \in Export /\ e[1] \in Clusters /\ x.resources \in Seq(SchemaNames)
  BY <1>2 DEF ExportKeys, Export
<1>4. n \in Nat /\ n + 1 = next /\ next' - 1 = n + 1 /\ n + 1 <= Len(x.resources)
      /\ next' <= Len(x.resources) + 1
  BY <1>1, <1>2, <1>3
<1>5. h \in Schema \cup {None}
  BY <1>3, <1>4 DEF Known, TypeOK, SchemaKeys
<1>6. \A r \in GRs : found'[r] # None => found'[r].gr = r
  BY <1>1, <1>2, <1>5 DEF Known, Construction, ReadingShape, Schema
<1>7. SchemasUpTo(e[1], x, n + 1) =
        IF h = None THEN SchemasUpTo(e[1], x, n) ELSE [SchemasUpTo(e[1], x, n) EXCEPT ![h.gr] = h]
  BY <1>3, <1>4, NextUpTo
<1> QED BY <1>1, <1>4, <1>6, <1>7

LEMMA GetSchemaSchemas ==
  ASSUME Known, GetSchema
  PROVE  SchemasHold' /\ Construction'
<1>1. UNCHANGED <<pc, key, slice, export, exports, claimsLeft, schemas>> /\ exports # <<>>
      /\ pc \in {"schemas", "candidates"}
  BY DEF GetSchema
<1>2. Resolve
  BY DEF Resolve
<1>3. ASSUME NEW k \in SliceKeys, k = key, SchemasRead(k), OwnSchemas(k)' = OwnSchemas(k)
      PROVE  SchemasRead(k)'
  <2>1. CASE pc = "schemas"
    <3>1. Head(exports) = <<<<k[1], slice.name>>, export>>
      BY <1>3, <2>1 DEF Known, Construction, ReadingShape
    <3>2. found' = SchemasUpTo(k[1], export, next' - 1)
      BY <1>3, <2>1, <3>1, GetSchemaReads DEF SchemasRead
    <3>3. found' = SchemasUpTo(k[1], export, next - 1)'
      BY <1>1, <1>2, <3>2, CachesStay
    <3> QED BY <1>1, <2>1, <3>3 DEF SchemasRead
  <2>2. CASE pc = "candidates"
    BY <1>1, <1>3, <2>2 DEF SchemasRead, Claimed
  <2> QED BY <1>1, <2>1, <2>2
<1>4. SchemasHold' /\ SetBuilt'
  BY <1>2, <1>3, ResolvingPass
<1>5. ReadingShape'
  BY <1>1, GetSchemaReads DEF Known, Construction, ReadingShape
<1>6. ClaimsOfExport' /\ NamesMatch'
  BY <1>1 DEF Known, Construction, ClaimsOfExport, NamesMatch
<1> QED BY <1>4, <1>5, <1>6 DEF Construction

(* The schemas of the key's export have all been read.                     *)
LEMMA AllAreRead ==
  ASSUME Known, exports # <<>>, AllRead
  PROVE  SchemasUpTo(Head(exports)[1][1], Head(exports)[2], next - 1)
           = SchemasFromAPIExport(Head(exports)[1][1], Head(exports)[2])
<1> DEFINE x == Head(exports)[2]
<1>1. x \in Export /\ next \in Nat
  BY DEF Known, TypeOK
<1>2. Len(x.resources) \in Nat
  BY <1>1 DEF Export
<1>3. next > Len(x.resources) /\ next <= Len(x.resources) + 1
  BY DEF AllRead, Known, Construction, ReadingShape
<1>4. next - 1 = Len(x.resources)
  BY <1>1, <1>2, <1>3
<1> QED BY <1>4 DEF SchemasFromAPIExport

LEMMA StartClaimsSchemas ==
  ASSUME Known, StartClaims
  PROVE  SchemasHold' /\ Construction'
<1>1. /\ pc = "schemas" /\ pc' = "claims" /\ schemas' = found /\ claimsLeft' = export.claims
      /\ UNCHANGED export /\ exports' = <<>> /\ found' = NoSchemas /\ next' = 1 /\ AllRead
  BY DEF StartClaims, NothingToRead
<1>2. exports # <<>> /\ Head(exports) = <<<<key[1], slice.name>>, export>>
  BY <1>1 DEF Known, Construction, ReadingShape
<1>3. Resolve
  BY DEF Resolve
<1>4. ASSUME NEW k \in SliceKeys, k = key, export = CurrentExport(k), SchemasRead(k),
             OwnSchemas(k)' = OwnSchemas(k)
      PROVE  SchemasRead(k)'
  <2>1. found = SchemasFromAPIExport(k[1], export)
    BY <1>1, <1>2, <1>4, AllAreRead DEF SchemasRead
  <2> QED BY <1>1, <1>4, <2>1 DEF SchemasRead, OwnSchemas
<1>5. SchemasHold' /\ SetBuilt'
  BY <1>3, <1>4, ResolvingPass
<1>6. NamesMatch'
  BY <1>1 DEF Known, Construction, ReadingShape, NamesMatch
<1>7. ReadingShape' /\ ClaimsOfExport'
  BY <1>1 DEF ReadingShape, NoSchemas, ClaimsOfExport
<1> QED BY <1>5, <1>6, <1>7 DEF Construction

(* The claim at the head of those still to be looked at.                   *)
LEMMA HeadClaim ==
  ASSUME Known, claimsLeft # <<>>
  PROVE  /\ Head(claimsLeft) \in Claim /\ Head(claimsLeft).gr \in GRs
         /\ Head(claimsLeft) \in Range(claimsLeft)
         /\ Range(Tail(claimsLeft)) \subseteq Range(claimsLeft)
         /\ \A c \in Range(claimsLeft) : c = Head(claimsLeft) \/ c \in Range(Tail(claimsLeft))
         /\ pc \in {"claims", "candidates"} => Claimed(export, Head(claimsLeft).gr)
<1>1. claimsLeft \in Seq(Claim)
  BY DEF Known, TypeOK
<1>2. /\ Head(claimsLeft) = claimsLeft[1] /\ 1 \in DOMAIN claimsLeft
      /\ Head(claimsLeft) \in Claim
  BY <1>1
<1>3. ASSUME NEW i \in DOMAIN claimsLeft, i # 1
      PROVE  i - 1 \in DOMAIN Tail(claimsLeft) /\ Tail(claimsLeft)[i - 1] = claimsLeft[i]
  BY <1>1, <1>3
<1>4. Head(claimsLeft).gr \in GRs /\ Head(claimsLeft) \in Range(claimsLeft)
  BY <1>2 DEF Claim, Range
<1>5. Range(Tail(claimsLeft)) \subseteq Range(claimsLeft)
  BY <1>1, HeadTailProperties DEF Range
<1>6. \A c \in Range(claimsLeft) : c = Head(claimsLeft) \/ c \in Range(Tail(claimsLeft))
  BY <1>2, <1>3 DEF Range
<1>7. pc \in {"claims", "candidates"} => Claimed(export, Head(claimsLeft).gr)
  BY <1>4 DEF Known, Construction, ClaimsOfExport, Claimed, Range
<1> QED BY <1>2, <1>4, <1>5, <1>6, <1>7

(* Claims come after the export's own resources, and do not replace them.  *)
LEMMA AnswerSchemas ==
  ASSUME Known, claimsLeft # <<>>, pc \in {"claims", "candidates"}, pc' = pc, UNCHANGED export,
         NEW h, AnswerWith(Head(claimsLeft), h),
         h # None => h.gr = Head(claimsLeft).gr \/ h.gr \in CrossAnswers
  PROVE  /\ NamesMatch'
         /\ \A k \in SliceKeys :
              /\ SchemasRead(k) /\ OwnSchemas(k)' = OwnSchemas(k)
              /\ h # None => OwnSchemas(k)[Head(claimsLeft).gr] = None
              /\ pc = "candidates" => claimsLeft' = claimsLeft
              => SchemasRead(k)'
<1> DEFINE g == Head(claimsLeft).gr
<1>1. g \in GRs /\ Claimed(export, g) /\ schemas \in [GRs -> Schema \cup {None}]
  BY HeadClaim DEF Known, TypeOK
<1>2. IF h = None THEN schemas' = schemas ELSE schemas' = [schemas EXCEPT ![g] = h]
  BY DEF AnswerWith
<1>3. \A r \in GRs : schemas'[r] # schemas[r] => r = g /\ h # None /\ schemas'[r] = h
  BY <1>1, <1>2
<1>4. NamesMatch'
  BY <1>3 DEF Known, Construction, NamesMatch
<1>5. ASSUME NEW k \in SliceKeys, SchemasRead(k), OwnSchemas(k)' = OwnSchemas(k),
             h # None => OwnSchemas(k)[g] = None, pc = "candidates" => claimsLeft' = claimsLeft
      PROVE  SchemasRead(k)'
  <2>1. \A r \in GRs :
          /\ OwnSchemas(k)[r] # None => schemas'[r] = OwnSchemas(k)[r]
          /\ schemas'[r] # None => OwnSchemas(k)[r] # None \/ Claimed(export, r)
    BY <1>1, <1>3, <1>5 DEF SchemasRead
  <2> QED BY <1>5, <2>1 DEF SchemasRead, Claimed
<1> QED BY <1>4, <1>5

LEMMA ResolveClaimSchemas ==
  ASSUME Known, ResolveClaim
  PROVE  SchemasHold' /\ Construction'
<1> DEFINE c == Head(claimsLeft)
           h == InternalAnswer(c)
<1>1. /\ pc = "claims" /\ UNCHANGED <<pc, key, slice, export, reading>> /\ claimsLeft # <<>>
      /\ claimsLeft' = Tail(claimsLeft) /\ AnswerWith(c, h)
  BY DEF ResolveClaim
<1>2. Resolve
  BY DEF Resolve
<1>3. h # None => h.gr = c.gr \/ h.gr \in CrossAnswers
  BY DEF InternalAnswer, CrossAnswers
<1>4. ASSUME NEW k \in SliceKeys, SchemasRead(k), OwnSchemas(k)' = OwnSchemas(k)
      PROVE  SchemasRead(k)'
  <2>1. h # None => OwnSchemas(k)[c.gr] = None
    <3>1. h # None => schemas[c.gr] = None
      BY DEF InternalAnswer
    <3> QED BY <1>1, <1>4, <3>1, HeadClaim DEF SchemasRead
  <2> QED BY <1>1, <1>3, <1>4, <2>1, AnswerSchemas
<1>5. SchemasHold' /\ SetBuilt'
  BY <1>2, <1>4, ResolvingPass
<1>6. NamesMatch'
  BY <1>1, <1>3, AnswerSchemas
<1>7. ReadingShape' /\ ClaimsOfExport'
  BY <1>1, HeadClaim DEF Known, Construction, ReadingShape, ClaimsOfExport, reading
<1> QED BY <1>5, <1>6, <1>7 DEF Construction

LEMMA GetCandidatesSchemas ==
  ASSUME Known, GetCandidates
  PROVE  SchemasHold' /\ Construction'
<1>1. /\ pc = "claims" /\ pc' = "candidates" /\ claimsLeft # <<>>
      /\ UNCHANGED <<key, export, found, next, claimsLeft, schemas>>
      /\ AnsweredByExport(Head(claimsLeft))
  BY DEF GetCandidates
<1>2. Resolve
  BY DEF Resolve
<1>3. ASSUME NEW k \in SliceKeys, SchemasRead(k), OwnSchemas(k)' = OwnSchemas(k)
      PROVE  SchemasRead(k)'
  BY <1>1, <1>3, HeadClaim DEF SchemasRead, Claimed, AnsweredByExport
<1>4. SchemasHold' /\ SetBuilt'
  BY <1>2, <1>3, ResolvingPass
<1>5. ReadingShape'
  <2>1. exports = <<>> /\ found = NoSchemas /\ next = 1
    BY <1>1 DEF Known, Construction, ReadingShape
  <2>2. exports' \in Seq(ExportKeys \X Export)
    BY CandidatesType DEF GetCandidates, Known
  <2>3. ASSUME exports' # <<>> PROVE Len(Head(exports')[2].resources) \in Nat
    <3>1. Head(exports')[2] \in Export
      BY <2>2, <2>3
    <3> QED BY <3>1 DEF Export
  <2> QED BY <1>1, <2>1, <2>3 DEF ReadingShape, NoSchemas
<1>6. ClaimsOfExport' /\ NamesMatch'
  BY <1>1 DEF Known, Construction, ClaimsOfExport, NamesMatch
<1> QED BY <1>4, <1>5, <1>6 DEF Construction

LEMMA MatchCandidateSchemas ==
  ASSUME Known, MatchCandidate
  PROVE  SchemasHold' /\ Construction'
<1> DEFINE c == Head(claimsLeft)
           h == found[c.gr]
<1>1. /\ pc = "candidates" /\ UNCHANGED <<pc, key, export, claimsLeft>>
      /\ AnswerWith(c, h) /\ exports # <<>>
      /\ exports' = Tail(exports) /\ found' = NoSchemas /\ next' = 1
  BY DEF MatchCandidate
<1>2. Resolve
  BY DEF Resolve
<1>3. claimsLeft # <<>> /\ c.gr \in GRs
  BY <1>1, HeadClaim DEF Known, TypeOK
<1>4. h # None => h.gr = c.gr
  BY <1>3 DEF Known, Construction, ReadingShape
<1>5. ASSUME NEW k \in SliceKeys, SchemasRead(k), OwnSchemas(k)' = OwnSchemas(k)
      PROVE  SchemasRead(k)'
  <2>1. OwnSchemas(k)[c.gr] = None
    BY <1>1, <1>5 DEF SchemasRead
  <2> QED BY <1>1, <1>3, <1>4, <1>5, <2>1, AnswerSchemas
<1>6. SchemasHold' /\ SetBuilt'
  BY <1>2, <1>5, ResolvingPass
<1>7. NamesMatch'
  BY <1>1, <1>3, <1>4, AnswerSchemas
<1>8. ReadingShape'
  <2>1. exports' \in Seq(ExportKeys \X Export)
    BY <1>1 DEF Known, TypeOK
  <2>2. ASSUME exports' # <<>> PROVE Len(Head(exports')[2].resources) \in Nat
    <3>1. Head(exports')[2] \in Export
      BY <2>1, <2>2
    <3> QED BY <3>1 DEF Export
  <2> QED BY <1>1, <2>2 DEF ReadingShape, NoSchemas
<1>9. ClaimsOfExport'
  BY <1>1 DEF Known, Construction, ClaimsOfExport
<1> QED BY <1>6, <1>7, <1>8, <1>9 DEF Construction

LEMMA NextClaimSchemas ==
  ASSUME Known, NextClaim
  PROVE  SchemasHold' /\ Construction'
<1>1. /\ pc = "candidates" /\ pc' = "claims" /\ exports = <<>> /\ claimsLeft' = Tail(claimsLeft)
      /\ UNCHANGED <<key, export, reading, schemas>>
  BY DEF NextClaim
<1>2. Resolve
  BY DEF Resolve
<1>3. claimsLeft # <<>>
  BY <1>1 DEF Known, TypeOK
<1>4. ASSUME NEW k \in SliceKeys, SchemasRead(k), OwnSchemas(k)' = OwnSchemas(k)
      PROVE  SchemasRead(k)'
  BY <1>1, <1>4 DEF SchemasRead, Claimed
<1>5. SchemasHold' /\ SetBuilt'
  BY <1>2, <1>4, ResolvingPass
<1>6. ReadingShape' /\ ClaimsOfExport' /\ NamesMatch'
  BY <1>1, <1>3, HeadClaim
     DEF Known, Construction, ReadingShape, ClaimsOfExport, NamesMatch, reading
<1> QED BY <1>5, <1>6 DEF Construction

LEMMA ResolveSchemas ==
  ASSUME Known, Resolve
  PROVE  SchemasHold' /\ Construction'
BY GetSchemaSchemas, StartClaimsSchemas, ResolveClaimSchemas, GetCandidatesSchemas,
   MatchCandidateSchemas, NextClaimSchemas DEF Resolve

-----------------------------------------------------------------------------
(* The worker builds.                                                      *)

(* Nothing more is read: what is known of the reads stays.                 *)
LEMMA ReadsKept ==
  ASSUME Known, UNCHANGED <<caches, pending, dirty, delayed, phase, key, apiSets>>,
         UNCHANGED <<export, reading, schemas>>,
         pc \in {"claims", "build", "fallback", "cleanup"}, pc' \in {"build", "fallback", "cleanup"}
  PROVE  SchemasHold' /\ ReadingShape' /\ ClaimsOfExport' /\ NamesMatch'
<1> USE DEF Known
<1>1. ASSUME phase # "shutDown", NEW k \in SliceKeys, k = key, ~Woken(k)
      PROVE  ExportRead(k)' /\ SchemasRead(k)'
  <2>1. ExportRead(k) /\ SchemasRead(k) /\ Wanted(k)
    BY <1>1 DEF SchemasHold, ReadsCurrent, ReadsHold, Woken
  <2>2. SameObjects(k)
    BY DEF SameObjects, CurrentExport, caches
  <2>3. CurrentExport(k)' = CurrentExport(k) /\ OwnSchemas(k)' = OwnSchemas(k)
    BY <2>1, <2>2, OwnSchemasStay DEF SameObjects, Wanted, CurrentExport
  <2> QED BY <2>1, <2>3 DEF ExportRead, SchemasRead, Claimed
<1>2. SchemasHold'
  BY <1>1, WithinPass
<1>3. ReadingShape'
  BY DEF Construction, ReadingShape, reading
<1> QED BY <1>2, <1>3 DEF Construction, ClaimsOfExport, NamesMatch

(* A definition of schema t[1] in version t[2] is put into the new set.    *)
LEMMA VersionBuilt ==
  ASSUME TypeOK, NamesMatch, SetBuilt, NEW t \in todo, NEW d,
         pc = "build", UNCHANGED <<pc, schemas>>, todo' = todo \ {t},
         newSet' = [newSet EXCEPT ![GVROf(t)] = d], Built(d), d.uid = schemas[t[1]].uid
  PROVE  SetBuilt'
<1>1. t \in GVRs /\ t[1] \in GRs /\ t[2] \in Versions /\ t = <<t[1], t[2]>> /\ Listed(t)
  BY GVRParts DEF TypeOK, SetBuilt, GVRs
<1>2. GVROf(t) \in GVRs
  BY GVROfType
<1>3. ASSUME NEW g \in PlainGVRs
      PROVE  /\ Due(g) => g \in todo' \/ Built(newSet'[g])
             /\ Built(newSet'[g]) => Due(g) /\ newSet'[g].uid = schemas[g[1]].uid
  <2>1. g \in GVRs /\ g[1] \notin CrossAnswers /\ g = <<g[1], g[2]>>
    BY DEF PlainGVRs, GVRs
  <2>2. CASE GVROf(t) = g
    <3>1. newSet'[g] = d
      BY <1>2, <2>2 DEF TypeOK, DefSet
    <3>2. schemas[t[1]].gr = g[1] /\ t[2] = g[2]
      BY <2>1, <2>2 DEF GVROf
    <3>3. t = g
      BY <1>1, <2>1, <3>2 DEF NamesMatch, Listed
    <3> QED BY <1>1, <3>1, <3>2, <3>3 DEF Due
  <2>3. CASE GVROf(t) # g
    <3>1. newSet'[g] = newSet[g]
      BY <1>2, <2>1, <2>3 DEF TypeOK, DefSet
    <3>2. Due(g) => g # t
      BY <2>1, <2>3 DEF Due, GVROf
    <3> QED BY <3>1, <3>2 DEF SetBuilt
  <2> QED BY <2>2, <2>3
<1>4. \A g : Due(g)' = Due(g) /\ Listed(g)' = Listed(g)
  BY DEF Due, Listed
<1> QED BY <1>3, <1>4 DEF SetBuilt, Built

LEMMA BuildingSchemas ==
  ASSUME Known, NothingMissed,
         StartBuild \/ \E t \in todo : Preserve(t) \/ Create(t) \/ CreateFails(t)
  PROVE  SchemasHold' /\ Construction'
<1> USE DEF Known
<1>1. SchemasHold' /\ ReadingShape' /\ ClaimsOfExport' /\ NamesMatch'
  BY ReadsKept DEF StartBuild, Preserve, Create, CreateFails, Unchanged
<1>2. CASE StartBuild
  <2>1. /\ pc' = "build" /\ UNCHANGED <<schemas, newSet>> /\ newSet = EmptySet
        /\ todo' = {g \in GVRs : Listed(g)}
    BY <1>2 DEF StartBuild, Listed, MapInv, NewSetCleared
  <2>2. \A g \in GVRs : ~Built(newSet[g])
    BY <2>1, EmptySetIsEmpty DEF Built
  <2>3. SetBuilt'
    BY <2>1, <2>2 DEF SetBuilt, Due, Listed, PlainGVRs, Built
  <2> QED BY <1>1, <2>3 DEF Construction
<1>3. ASSUME NEW t \in todo, Preserve(t) PROVE SetBuilt'
  <2>1. export.identity # NoIdentity
    BY <1>3 DEF Preserve, TypeOK
  <2>2. Built(oldSet[GVROf(t)]) /\ oldSet[GVROf(t)].uid = schemas[t[1]].uid
    BY <1>3, <2>1 DEF Preserve, MayPreserve, Built
  <2> QED BY <1>3, <2>2, VersionBuilt DEF Preserve, Construction
<1>4. ASSUME NEW t \in todo, Create(t) PROVE SetBuilt'
  <2>1. export.identity # NoIdentity
    BY <1>4 DEF Create, TypeOK
  <2>2. PICK d \in Def : /\ newSet' = [newSet EXCEPT ![GVROf(t)] = d]
                         /\ d.owner = export.identity /\ d.uid = schemas[t[1]].uid
    BY <1>4, CreatedDef
  <2>3. Built(d)
    BY <2>1, <2>2, SentinelAssumption DEF Built
  <2> QED BY <1>4, <2>2, <2>3, VersionBuilt DEF Create, Construction
<1>5. \A t \in todo : ~CreateFails(t)
  BY DEF NothingMissed
<1> QED BY <1>1, <1>2, <1>3, <1>4, <1>5 DEF Construction

(* The fallbacks and the clean-up leave the other places of the set alone. *)
LEMMA CompletingSchemas ==
  ASSUME Known,
         \/ StartFallback \/ (\E g \in todo : Fallback(g) \/ FallbackFails(g))
         \/ StartCleanup \/ (\E g \in todo : TearDown(g))
  PROVE  SchemasHold' /\ Construction'
<1> USE DEF Known
<1>1. SchemasHold' /\ ReadingShape' /\ ClaimsOfExport' /\ NamesMatch'
  BY ReadsKept DEF StartFallback, Fallback, FallbackFails, StartCleanup, TearDown, Unchanged
<1>2. pc \in {"build", "fallback", "cleanup"} /\ pc' \in {"fallback", "cleanup"}
      /\ (pc = "build" => todo = {}) /\ (pc' = "fallback" => todo' \subseteq FallbackGVRs)
      /\ schemas' = schemas
  BY DEF StartFallback, Fallback, FallbackFails, StartCleanup, TearDown, Construction, SetBuilt
<1>3. \A g \in PlainGVRs : newSet'[g] = newSet[g]
  <2>1. ASSUME NEW f \in todo, Fallback(f) \/ FallbackFails(f), NEW g \in PlainGVRs
        PROVE  newSet'[g] = newSet[g]
    <3>1. f \in FallbackGVRs /\ g \notin FallbackGVRs /\ g \in GVRs
      BY <2>1 DEF Fallback, FallbackFails, Construction, SetBuilt, PlainGVRs
    <3> QED BY <2>1, <3>1 DEF Fallback, FallbackFails, TypeOK, DefSet
  <2> QED BY <2>1 DEF StartFallback, StartCleanup, TearDown
<1>4. SetBuilt'
  BY <1>2, <1>3 DEF Construction, SetBuilt, Due, Listed, Built
<1> QED BY <1>1, <1>4 DEF Construction

(* The pass ends.                                                          *)
LEMMA FinishingSchemas ==
  ASSUME Known, Drop \/ Store \/ \E t \in todo : SelectorError(t)
  PROVE  SchemasHold' /\ Construction'
<1> USE DEF Known
<1>1. /\ UNCHANGED <<caches, pending, dirty, phase>> /\ key \in SliceKeys
      /\ key' = NoKey /\ pc' = "idle" /\ schemas' = NoSchemas /\ NothingToRead
  BY DEF Drop, Store, SelectorError, ResetLocals, Unchanged, TypeOK
<1>2. Construction'
  BY <1>1 DEF Construction, ReadingShape, NothingToRead, ClaimsOfExport,
        NamesMatch, SetBuilt, NoSchemas
<1>3. ASSUME NEW k \in SliceKeys
      PROVE  SameObjects(k) /\ CurrentExport(k)' = CurrentExport(k)
             /\ (phase # "shutDown" => (Woken(k) => Woken(k)'))
  BY <1>1 DEF SameObjects, CurrentExport, Woken, Disturbed, SliceNews, ExportNews, SchemaNews,
     Drop, Store, SelectorError, caches
<1>4. ASSUME phase # "shutDown", NEW k \in SliceKeys, k # key, ~Woken(k)' PROVE SchemasInSync(k)'
  <2>1. apiSets'[k] = apiSets[k]
    BY <1>4 DEF Drop, Store, SelectorError, TypeOK
  <2> QED BY <1>3, <1>4, <2>1, DomainFramed DEF SchemasHold
<1>5. ASSUME phase # "shutDown", NEW k \in SliceKeys, k = key, ~Woken(k)' PROVE SchemasInSync(k)'
  <2>1. ~Woken(k) /\ SameObjects(k)
    BY <1>3, <1>5
  <2>2. ReadsHold(k) /\ ExportRead(k) /\ SchemasRead(k)
    BY <1>5, <2>1 DEF ReadsCurrent, Woken, SchemasHold
  <2>3. CASE Drop
    <3>1. ~Wanted(k)'
      BY <2>1, <2>2, <2>3, DomainFramed DEF Drop, ReadsHold
    <3> QED BY <3>1 DEF SchemasInSync
  <2>4. CASE Store
    <3>1. Wanted(k) /\ export = CurrentExport(k) /\ pc = "cleanup"
      BY <2>2, <2>4 DEF Store, ReadsHold, ExportRead
    <3>2. OwnSchemas(k)' = OwnSchemas(k)
      BY <2>1, <3>1, OwnSchemasStay DEF Wanted, CurrentExport
    <3>3. apiSets'[k] = newSet /\ newSet # NoSet
      BY <1>5, <2>4, SentinelAssumption DEF Store, TypeOK
    <3>4. ASSUME NEW g \in PlainGVRs
          PROVE  LET h == OwnSchemas(k)[g[1]]
                     d == newSet[g]
                     current == h # None /\ g[2] \in h.served
                 IN  /\ current => Built(d) /\ d.uid = h.uid
                     /\ Built(d) /\ ~Claimed(CurrentExport(k), g[1]) => current /\ d.uid = h.uid
      <4>1. g \in GVRs /\ g[1] \in GRs /\ g[1] \notin CrossAnswers
        BY GVRParts DEF PlainGVRs
      <4>2. OwnSchemas(k)[g[1]] # None => OwnSchemas(k)[g[1]].gr = g[1]
        BY <4>1, OwnNames DEF OwnSchemas
      <4>3. /\ OwnSchemas(k)[g[1]] # None => schemas[g[1]] = OwnSchemas(k)[g[1]]
            /\ schemas[g[1]] # None /\ ~Claimed(CurrentExport(k), g[1]) =>
                 schemas[g[1]] = OwnSchemas(k)[g[1]]
        BY <2>2, <3>1, <4>1 DEF SchemasRead
      <4>4. /\ Due(g) => Built(newSet[g])
            /\ Built(newSet[g]) => Due(g) /\ newSet[g].uid = schemas[g[1]].uid
        BY <3>1 DEF Construction, SetBuilt
      <4> QED BY <4>2, <4>3, <4>4 DEF Due, Listed
    <3>5. CurrentExport(k)' = CurrentExport(k)
      BY <1>3
    <3> QED BY <3>2, <3>3, <3>4, <3>5 DEF SchemasInSync, Built, Claimed
  <2>5. ASSUME NEW t \in todo, SelectorError(t) PROVE FALSE
    BY <1>5, <2>5 DEF SelectorError, Woken, Disturbed
  <2> QED BY <2>3, <2>4, <2>5
<1>6. SchemasHold'
  BY <1>1, <1>4, <1>5, SentinelAssumption DEF SchemasHold
<1> QED BY <1>2, <1>6

-----------------------------------------------------------------------------
LEMMA StepSchemas ==
  ASSUME Known, SlicesResolve, [Next /\ NothingMissed]_vars
  PROVE  SchemasHold' /\ Construction'
<1> USE DEF Known
<1>1. ASSUME UNCHANGED <<caches, pending, dirty, delayed, locals, apiSets>>, phase' = phase
      PROVE  SchemasHold' /\ Construction'
  <2>1. \A k \in SliceKeys : Woken(k)' = Woken(k) /\ SameObjects(k)
    BY <1>1 DEF Woken, Disturbed, SliceNews, ExportNews, SchemaNews, SameObjects, CurrentExport, caches
  <2> QED BY <1>1, <2>1, LeftAlone, ConstructionStays
<1>2. CASE UNCHANGED vars
  BY <1>1, <1>2 DEF vars
<1>3. CASE StopTearDown \/ QueueShutDown
  <2>1. Construction'
    BY <1>3, ConstructionStays DEF StopTearDown, QueueShutDown
  <2>2. CASE StopTearDown
    <3>1. \A k \in SliceKeys : Woken(k)' = Woken(k) /\ SameObjects(k)
      BY <2>2 DEF StopTearDown, Woken, Disturbed, SliceNews, ExportNews, SchemaNews,
         SameObjects, CurrentExport, caches
    <3> QED BY <2>1, <2>2, <3>1, LeftAlone DEF StopTearDown
  <2>3. CASE QueueShutDown
    BY <2>1, <2>3 DEF QueueShutDown, SchemasHold
  <2> QED BY <1>3, <2>2, <2>3
<1>4. CASE StopPanics \/ \E g \in todo : TearDownNil(g)
  BY <1>4, RestartSchemas DEF StopPanics, TearDownNil
<1> QED BY <1>2, <1>3, <1>4, EnvironmentSchemas, DeliverySchemas, GetSchemasOfKey,
           ResolveSchemas, BuildingSchemas, CompletingSchemas, FinishingSchemas
        DEF Next, Worker

LEMMA KnownAlways == Spec /\ []SlicesResolve /\ [][NothingMissed]_vars => []Known
<1>1. Init => SchemasHold /\ Construction
  BY InitSchemas
<1>2. Known /\ SlicesResolve /\ [Next /\ NothingMissed]_vars => (SchemasHold /\ Construction)'
  BY StepSchemas
<1>3. Known <=> TypeOK /\ ReadsCurrent /\ MapInv /\ (SchemasHold /\ Construction)
  BY DEF Known
<1>4. [Next]_vars /\ [NothingMissed]_vars => [Next /\ NothingMissed]_vars
  OBVIOUS
<1> QED BY <1>1, <1>2, <1>3, <1>4, TypeCorrect, ReadsStayCurrent, MapInvAlways, PTL DEF Spec

(* A domain about which nothing is under way serves the current schema of  *)
(* each of its export's resources in each served version, and nothing that *)
(* is neither declared nor claimed: for any number of clusters, slices,    *)
(* exports and schemas, whatever order reads, notifications, crashes and   *)
(* lost watches come in, as long as the handler finds the exports of the   *)
(* slices it goes through, no schema is replaced unseen and no creation    *)
(* fails.                                                                  *)
THEOREM SchemasAreServed ==
  Spec /\ []SlicesResolve /\ [][NothingMissed]_vars => []ServedSchemasCurrent
<1>1. Known => ServedSchemasCurrent
  <2> SUFFICES ASSUME Known, phase # "shutDown", NEW k \in SliceKeys, Quiet(k), ~SchemaNews(k)
               PROVE  SchemasInSync(k)
    BY DEF ServedSchemasCurrent
  <2> QED BY DEF Known, SchemasHold, Woken, Quiet
<1> QED BY <1>1, KnownAlways, PTL
-----------------------------------------------------------------------------
(* Claims.                                                                 *)

(* An export that has an identity keeps it, and is not deleted.            *)
IdentitiesStay ==
  \A e \in ExportKeys :
    exportCache[e] # None /\ exportCache[e].identity # NoIdentity =>
      exportCache'[e] # None /\ exportCache'[e].identity = exportCache[e].identity

Provides(e, c) == e \in APIExportsByIdentity(c.identity)

(* Something already under way will wake whoever makes claim c.            *)
ClaimNews(c) ==
  \E n \in pending :
    \/ n.kind = "export" /\ Provides(n.key, c)
    \/ n.kind = "slice" /\ Provides(<<n.obj.path, n.obj.name>>, c)
    \/ n.kind = "schema" /\ \E e \in APIExportsByIdentity(c.identity) :
                               n.key[1] = e[1] /\ n.key[2] \in Range(exportCache[e].resources)

Followed(c) == c.identity # NoIdentity /\ Attended(c) /\ ~ClaimNews(c)

Offer(e, c) == SchemasFromAPIExport(e[1], exportCache[e])[c.gr]

(* Of the exports that may answer c, those read have done so if they could, *)
(* and the others are still to be read.                                    *)
CandidatesRead(c) ==
  /\ \A i \in DOMAIN exports : /\ exports[i][1] \in APIExportsByIdentity(c.identity)
                              /\ exports[i][2] = exportCache[exports[i][1]]
  /\ exports # <<>> => found = SchemasUpTo(Head(exports)[1][1], Head(exports)[2], next - 1)
  /\ \A e \in APIExportsByIdentity(c.identity) :
       schemas[c.gr] # None \/ Offer(e, c) = None \/ \E i \in DOMAIN exports : exports[i][1] = e

(* c is still to be looked at, or has been answered with what there is.    *)
ClaimRead(c) ==
  /\ pc \in {"claims", "candidates", "build", "fallback", "cleanup"} =>
       /\ schemas[c.gr] \in Offers(c) \cup {None}
       /\ schemas[c.gr] = None /\ Offers(c) # {} =>
            pc \in {"claims", "candidates"} /\ c \in Range(claimsLeft)
  /\ pc = "candidates" /\ c = Head(claimsLeft) => CandidatesRead(c)

ClaimsOf(k) == Range(CurrentExport(k).claims)

ClaimsHold ==
  phase # "shutDown" =>
    \A k \in SliceKeys : ~Woken(k) /\ Wanted(k) =>
      \A c \in ClaimsOf(k) : Followed(c) /\ AsksOthers(k, c) =>
        IF k = key THEN ClaimRead(c) ELSE ClaimInSync(k, c)

(* What a claim depends on.                                                *)
SameOffers(c) ==
  /\ APIExportsByIdentity(c.identity)' = APIExportsByIdentity(c.identity)
  /\ \A e \in APIExportsByIdentity(c.identity) :
       /\ exportCache'[e] = exportCache[e]
       /\ \A r \in Range(exportCache[e].resources) :
            schemaCache'[<<e[1], r>>] = schemaCache[<<e[1], r>>]

LEMMA OffersStay ==
  ASSUME NEW c, SameOffers(c)
  PROVE  /\ Offers(c)' = Offers(c)
         /\ \A e \in APIExportsByIdentity(c.identity) : Offer(e, c)' = Offer(e, c)
<1>1. ASSUME NEW e \in APIExportsByIdentity(c.identity)
      PROVE  Offer(e, c)' = Offer(e, c)
  <2>1. SchemasFromAPIExport(e[1], exportCache[e])' = SchemasFromAPIExport(e[1], exportCache[e])
    BY SchemasStay DEF SameOffers
  <2> QED BY <2>1 DEF Offer
<1> QED BY <1>1 DEF Offers, SameOffers, Offer

(* What has been read of the exports that may answer a claim stays so.     *)
LEMMA CandidatesStay ==
  ASSUME TypeOK, NEW c, SameOffers(c), UNCHANGED <<schemas, reading>>, CandidatesRead(c)
  PROVE  CandidatesRead(c)'
<1>1. ASSUME exports # <<>>
      PROVE  SchemasUpTo(Head(exports)[1][1], Head(exports)[2], next - 1)'
               = SchemasUpTo(Head(exports)[1][1], Head(exports)[2], next - 1)
  <2> DEFINE e == Head(exports)[1]
             x == Head(exports)[2]
  <2>1. e \in APIExportsByIdentity(c.identity) /\ x = exportCache[e]
    <3>1. 1 \in DOMAIN exports /\ Head(exports) = exports[1]
      BY <1>1 DEF TypeOK
    <3> QED BY <3>1 DEF CandidatesRead
  <2>2. \A r \in Range(x.resources) : schemaCache'[<<e[1], r>>] = schemaCache[<<e[1], r>>]
    BY <2>1 DEF SameOffers
  <2>3. ASSUME NEW d, NEW y, d = e[1], y = x
        PROVE  \A n : SchemasUpTo(d, y, n)' = SchemasUpTo(d, y, n)
    BY <2>2, <2>3, SchemasStay
  <2>4. UNCHANGED <<exports, next>>
    BY DEF reading
  <2> QED BY <2>3, <2>4
<1>2. exports # <<>> => found' = SchemasUpTo(Head(exports)[1][1], Head(exports)[2], next - 1)'
  BY <1>1 DEF CandidatesRead, reading
<1>3. \A e \in APIExportsByIdentity(c.identity) : Offer(e, c)' = Offer(e, c)
  BY OffersStay
<1> QED BY <1>2, <1>3 DEF CandidatesRead, SameOffers, reading

LEMMA ClaimFramed ==
  ASSUME TypeOK, NEW k \in SliceKeys, SameObjects(k), Wanted(k), NEW c, SameOffers(c)
  PROVE  /\ AsksOthers(k, c)' <=> AsksOthers(k, c)
         /\ apiSets'[k] = apiSets[k] => (ClaimInSync(k, c)' <=> ClaimInSync(k, c))
         /\ UNCHANGED <<pc, schemas, claimsLeft, reading>> => (ClaimRead(c) => ClaimRead(c)')
<1>1. CurrentExport(k)' = CurrentExport(k) /\ OwnSchemas(k)' = OwnSchemas(k)
  BY OwnSchemasStay DEF SameObjects, Wanted, CurrentExport
<1>2. AsksOthers(k, c)' <=> AsksOthers(k, c)
  BY <1>1 DEF AsksOthers
<1>3. Offers(c)' = Offers(c)
  BY OffersStay
<1>4. apiSets'[k] = apiSets[k] => (ClaimInSync(k, c)' <=> ClaimInSync(k, c))
  BY <1>2, <1>3 DEF ClaimInSync, Built
<1>5. UNCHANGED <<pc, schemas, claimsLeft, reading>> => (ClaimRead(c) => ClaimRead(c)')
  BY <1>3, CandidatesStay DEF ClaimRead
<1> QED BY <1>2, <1>4, <1>5

(* A domain that is left alone, and a claim that has no news, go on as     *)
(* they were.                                                              *)
LEMMA ClaimsLeftAlone ==
  ASSUME TypeOK, ClaimsHold, UNCHANGED <<locals, apiSets>>,
         phase' # "shutDown" => phase # "shutDown",
         phase' # "shutDown" => \A k \in SliceKeys :
           \/ Woken(k)'
           \/ /\ ~Woken(k) /\ SameObjects(k)
              /\ Wanted(k) =>
                   \A c \in ClaimsOf(k) : Followed(c)' => Followed(c) /\ SameOffers(c)
  PROVE  ClaimsHold'
<1> SUFFICES ASSUME phase' # "shutDown", NEW k \in SliceKeys, ~Woken(k)', Wanted(k)',
                    NEW c \in ClaimsOf(k)', Followed(c)', AsksOthers(k, c)'
             PROVE  IF k = key THEN ClaimRead(c)' ELSE ClaimInSync(k, c)'
  BY DEF ClaimsHold, locals
<1>1. phase # "shutDown" /\ ~Woken(k) /\ SameObjects(k) /\ Wanted(k)
  BY DomainFramed
<1>2. c \in ClaimsOf(k)
  BY <1>1 DEF ClaimsOf, SameObjects, Wanted, CurrentExport
<1>3. Followed(c) /\ SameOffers(c)
  BY <1>1, <1>2
<1>4. IF k = key THEN ClaimRead(c) ELSE ClaimInSync(k, c)
  BY <1>1, <1>2, <1>3, ClaimFramed DEF ClaimsHold
<1> QED BY <1>1, <1>3, <1>4, ClaimFramed DEF locals, reading

LEMMA RestartClaims == Restart => ClaimsHold'
<1> SUFFICES ASSUME Restart, NEW k \in SliceKeys, Wanted(k)' PROVE Woken(k)'
  BY DEF ClaimsHold
<1>1. sliceCache[k] # None
  BY DEF Restart, caches, Wanted
<1> QED BY <1>1, StartAnnouncesSlices DEF Restart, Woken, Disturbed, SliceNews

LEMMA InitClaims == Init => ClaimsHold
<1> SUFFICES ASSUME Init, NEW k \in SliceKeys, Wanted(k) PROVE Woken(k)
  BY DEF ClaimsHold
<1>1. sliceCache[k] # None
  BY DEF Wanted
<1> QED BY <1>1, StartAnnouncesSlices DEF Init, Woken, Disturbed, SliceNews

(* What changes an offer is announced, or goes unnoticed for want of a     *)
(* slice; when there is one again, that is announced.                      *)
LEMMA OffersAreAnnounced ==
  ASSUME TypeOK, NothingMissed, IdentitiesStay, SlicesResolve', Environment, ~Crash,
         NEW c, Followed(c)'
  PROVE  Followed(c) /\ SameOffers(c)
<1> DEFINE Providers == APIExportsByIdentity(c.identity)
<1>1. c.identity # NoIdentity /\ Attended(c)' /\ ~ClaimNews(c)' /\ pending \subseteq pending'
  BY DEF Followed, Environment, SetSlice, SetExport, SetSchema
<1>2. CASE \E j \in SliceKeys : SetSlice(j)
  <2>1. PICK j \in SliceKeys : SetSlice(j)
    BY <1>2
  <2>2. UNCHANGED <<exportCache, schemaCache>>
    BY <2>1 DEF SetSlice
  <2>3. Providers' = Providers /\ SameOffers(c)
    BY <2>2 DEF APIExportsByIdentity, SameOffers
  <2>4. ~ClaimNews(c)
    BY <1>1, <2>2, <2>3 DEF ClaimNews, Provides
  <2>5. ASSUME NEW e \in Providers PROVE SlicesReferring(e[1], e[2]) # {}
    <3>1. PICK i \in SliceKeys : i[1] = e[1] /\ sliceCache'[i] # None /\ sliceCache'[i].name = e[2]
      BY <1>1, <2>3 DEF Attended, SlicesReferring
    <3>2. CASE sliceCache'[i] = sliceCache[i]
      BY <3>1, <3>2 DEF SlicesReferring
    <3>3. CASE sliceCache'[i] # sliceCache[i]
      <4>1. i = j
        BY <2>1, <3>3 DEF SetSlice, TypeOK
      <4>2. PICK n \in pending' : n.kind = "slice" /\ n.obj = sliceCache'[i]
        <5>1. PICK s \in SliceCatalog[j], b \in {FALSE, Relists} :
                /\ sliceCache' = [sliceCache EXCEPT ![j] = s]
                /\ pending' = pending \cup {[kind |-> "slice", key |-> j, tomb |-> s = None /\ b,
                                             obj |-> IF s = None THEN sliceCache[j] ELSE s]}
          BY <2>1 DEF SetSlice
        <5>2. sliceCache'[i] = s /\ s # None
          BY <3>1, <4>1, <5>1 DEF TypeOK
        <5> DEFINE m == [kind |-> "slice", key |-> j, tomb |-> s = None /\ b,
                         obj |-> IF s = None THEN sliceCache[j] ELSE s]
        <5>3. m \in pending'
          BY <5>1
        <5>4. m.kind = "slice" /\ m.obj = sliceCache'[i]
          BY <5>2
        <5> HIDE DEF m
        <5> QED BY <5>3, <5>4
      <4>3. e = <<n.obj.path, n.obj.name>>
        BY <3>1, <4>2 DEF SlicesResolve, APIExportsByIdentity, ExportKeys
      <4> QED BY <1>1, <2>3, <4>2, <4>3 DEF ClaimNews, Provides
    <3> QED BY <3>2, <3>3
  <2> QED BY <1>1, <2>3, <2>4, <2>5 DEF Followed, Attended
<1>3. CASE \E f \in ExportKeys : SetExport(f)
  <2>1. PICK f \in ExportKeys : SetExport(f)
    BY <1>3
  <2>2. UNCHANGED <<sliceCache, schemaCache>> /\ \A e \in ExportKeys \ {f} : exportCache'[e] = exportCache[e]
    BY <2>1 DEF SetExport, TypeOK
  <2>3. f \notin Providers'
    <3>1. PICK b : [kind |-> "export", key |-> f, tomb |-> b] \in pending'
      BY <2>1 DEF SetExport
    <3> QED BY <1>1, <3>1 DEF ClaimNews, Provides
  <2>4. f \notin Providers
    BY <1>1, <2>3 DEF IdentitiesStay, APIExportsByIdentity
  <2>5. Providers' = Providers /\ SameOffers(c)
    BY <2>2, <2>3, <2>4 DEF APIExportsByIdentity, SameOffers
  <2>6. ~ClaimNews(c)
    BY <1>1, <2>2, <2>4, <2>5 DEF ClaimNews, Provides, SameOffers
  <2> QED BY <1>1, <2>2, <2>5, <2>6 DEF Followed, Attended, SlicesReferring
<1>4. CASE \E s \in SchemaKeys : SetSchema(s)
  <2>1. PICK s \in SchemaKeys : SetSchema(s)
    BY <1>4
  <2>2. UNCHANGED <<sliceCache, exportCache>> /\ s[1] \in Clusters /\ s = <<s[1], s[2]>>
    BY <2>1 DEF SetSchema, SchemaKeys
  <2>3. Providers' = Providers
    BY <2>2 DEF APIExportsByIdentity
  <2>4. ASSUME NEW e \in Providers, NEW r \in Range(exportCache[e].resources)
        PROVE  schemaCache'[<<e[1], r>>] = schemaCache[<<e[1], r>>]
    <3>1. CASE s = <<e[1], r>>
      <4>1. schemaCache'[s] # schemaCache[s]
        BY <2>1 DEF SetSchema, TypeOK
      <4>2. ~(schemaCache[s] # None /\ schemaCache'[s] # None)
        BY <4>1 DEF NothingMissed
      <4>3. PICK b : [kind |-> "schema", key |-> s, tomb |-> b] \in pending'
        BY <2>1, <4>2 DEF SetSchema, TypeOK
      <4> QED BY <1>1, <2>2, <2>3, <3>1, <4>3 DEF ClaimNews
    <3>2. CASE s # <<e[1], r>>
      BY <2>1, <3>2 DEF SetSchema, TypeOK
    <3> QED BY <3>1, <3>2
  <2>5. SameOffers(c)
    BY <2>2, <2>3, <2>4 DEF SameOffers
  <2>6. ~ClaimNews(c)
    BY <1>1, <2>2, <2>3 DEF ClaimNews, Provides
  <2> QED BY <1>1, <2>2, <2>3, <2>5, <2>6 DEF Followed, Attended, SlicesReferring
<1> QED BY <1>2, <1>3, <1>4 DEF Environment

LEMMA EnvironmentClaims ==
  ASSUME Known, ClaimsHold, NothingMissed, IdentitiesStay, SlicesResolve', Environment
  PROVE  ClaimsHold'
<1>1. CASE Crash
  BY <1>1, RestartClaims DEF Crash
<1>2. CASE ~Crash
  <2>1. UNCHANGED <<locals, apiSets, phase>>
    BY <1>2 DEF Environment, SetSlice, SetExport, SetSchema
  <2>2. TypeOK
    BY DEF Known
  <2>3. \A k \in SliceKeys : ~Woken(k)' => ~Woken(k) /\ SameObjects(k)
    BY <1>2, <2>2, ChangesAreAnnounced
  <2>4. \A c : Followed(c)' => Followed(c) /\ SameOffers(c)
    BY <1>2, <2>2, OffersAreAnnounced
  <2> QED BY <2>1, <2>2, <2>3, <2>4, ClaimsLeftAlone
<1> QED BY <1>1, <1>2

(* Whoever makes the claim is woken through a slice of a claimed export.   *)
LEMMA SliceReachesClaimers ==
  ASSUME TypeOK, NEW k \in SliceKeys, Wanted(k), NEW c \in ClaimsOf(k), c.identity # NoIdentity,
         NEW j, NEW s, Provides(<<s.path, s.name>>, c)
  PROVE  k \in KeysForSlice(j, s)
<1> DEFINE o == <<k[1], sliceCache[k].name>>
<1>1. GetAPIExport(s.path, s.name) # None /\ GetAPIExport(s.path, s.name).identity = c.identity
  BY DEF Provides, APIExportsByIdentity, GetAPIExport
<1>2. o \in APIExportsByClaimedIdentity(c.identity)
  BY DEF APIExportsByClaimedIdentity, Wanted, ClaimsOf, CurrentExport, TypeOK, Slice,
     SliceKeys, ExportKeys
<1>3. k \in SlicesReferring(o[1], o[2])
  BY DEF SlicesReferring, Wanted
<1> QED BY <1>1, <1>2, <1>3 DEF KeysForSlice

LEMMA NewsOfClaims ==
  ASSUME TypeOK, SlicesResolve, NEW n \in pending, Deliver(n), phase # "shutDown",
         NEW k \in SliceKeys, Wanted(k), NEW c \in ClaimsOf(k), Followed(c)', ClaimNews(c)
  PROVE  k \in dirty'
<1> DEFINE Providers == APIExportsByIdentity(c.identity)
<1>1. UNCHANGED caches /\ pending' = pending \ {n}
  BY DEF Deliver
<1>2. Providers' = Providers /\ c.identity # NoIdentity /\ ~ClaimNews(c)'
      /\ \A e \in Providers : SlicesReferring(e[1], e[2]) # {}
  BY <1>1 DEF APIExportsByIdentity, Followed, Attended, SlicesReferring, caches
<1>3. \/ n.kind = "export" /\ Provides(n.key, c)
      \/ n.kind = "slice" /\ Provides(<<n.obj.path, n.obj.name>>, c)
      \/ n.kind = "schema" /\ \E e \in Providers :
                                 n.key[1] = e[1] /\ n.key[2] \in Range(exportCache[e].resources)
  BY <1>1, <1>2 DEF ClaimNews, Provides, caches
<1>4. ASSUME NEW e \in Providers
      PROVE  \E j \in SlicesReferring(e[1], e[2]) : k \in KeysForSlice(j, sliceCache[j])
  <2>1. PICK j \in SlicesReferring(e[1], e[2]) : TRUE
    BY <1>2
  <2>2. e = <<sliceCache[j].path, sliceCache[j].name>>
    BY <2>1 DEF SlicesReferring, SlicesResolve, APIExportsByIdentity, ExportKeys
  <2> QED BY <1>2, <2>1, <2>2, SliceReachesClaimers DEF Provides
<1>5. CASE n.kind = "export" /\ Provides(n.key, c)
  BY <1>4, <1>5 DEF Deliver, Enqueue, KeysForExport, Provides
<1>6. CASE n.kind = "slice" /\ Provides(<<n.obj.path, n.obj.name>>, c)
  BY <1>2, <1>6, SliceReachesClaimers DEF Deliver, Enqueue
<1>7. ASSUME n.kind = "schema", NEW e \in Providers,
             n.key[1] = e[1], n.key[2] \in Range(exportCache[e].resources)
      PROVE  k \in dirty'
  <2>1. PICK j \in SlicesReferring(e[1], e[2]) : k \in KeysForSlice(j, sliceCache[j])
    BY <1>4, <1>7
  <2>2. /\ j \in SliceKeys /\ sliceCache[j] # None /\ CurrentExport(j) = exportCache[e]
        /\ exportCache[e] # None /\ n.key[1] = j[1]
    BY <1>7, <2>1 DEF SlicesReferring, CurrentExport, APIExportsByIdentity, ExportKeys
  <2>3. \A K \in KeysForSchema(n.key) : k \in K
    BY <1>7, <2>1, <2>2, SchemaReachesSlices
  <2> QED BY <1>7, <2>3 DEF Deliver, Enqueue
<1> QED BY <1>3, <1>5, <1>6, <1>7

LEMMA DeliveryClaims ==
  ASSUME Known, ClaimsHold, SlicesResolve,
         Informers \/ Resync \/ \E k \in SliceKeys : RateLimited(k)
  PROVE  ClaimsHold'
<1>1. CASE \E n \in pending : DeliverTombstone(n)
  BY <1>1, RestartClaims DEF DeliverTombstone
<1>2. CASE \/ \E n \in pending : Deliver(n)
           \/ Resync \/ \E j \in SliceKeys : RateLimited(j)
  <2>1. UNCHANGED <<caches, locals, apiSets, phase>> /\ TypeOK
    BY <1>2 DEF Deliver, Resync, RateLimited, Known
  <2>2. \A c : SameOffers(c) /\ Attended(c)' = Attended(c)
    BY <2>1 DEF SameOffers, Attended, SlicesReferring, APIExportsByIdentity, caches
  <2>3. ASSUME phase # "shutDown", NEW k \in SliceKeys, ~Woken(k)', Wanted(k),
               NEW c \in ClaimsOf(k), Followed(c)'
        PROVE  Followed(c)
    <3>1. ASSUME ClaimNews(c) PROVE FALSE
      <4>1. CASE \E n \in pending : Deliver(n)
        BY <2>1, <2>3, <3>1, <4>1, NewsOfClaims DEF Woken, Disturbed
      <4>2. CASE Resync
        BY <3>1, <4>2 DEF Resync, ClaimNews
      <4>3. CASE \E j \in SliceKeys : RateLimited(j)
        <5>1. pending' = pending /\ UNCHANGED caches
          BY <4>3 DEF RateLimited
        <5>2. ClaimNews(c)'
          BY <3>1, <5>1 DEF ClaimNews, Provides, APIExportsByIdentity, caches
        <5> QED BY <2>3, <5>2 DEF Followed
      <4> QED BY <1>2, <4>1, <4>2, <4>3
    <3> QED BY <2>2, <2>3, <3>1 DEF Followed
  <2>4. \A k \in SliceKeys : SameObjects(k)
    BY <2>1 DEF SameObjects, CurrentExport, caches
  <2>5. phase # "shutDown" => \A k \in SliceKeys : Woken(k) => Woken(k)'
    BY <1>2, <2>1, NewsAreHeeded
  <2> QED BY <2>1, <2>2, <2>3, <2>4, <2>5, ClaimsLeftAlone
<1> QED BY <1>1, <1>2 DEF Informers

(* The worker changes neither objects nor notifications.                   *)
LEMMA WorkerLeaves ==
  ASSUME UNCHANGED <<caches, pending>>
  PROVE  /\ \A k \in SliceKeys : SameObjects(k) /\ ClaimsOf(k)' = ClaimsOf(k) /\ Wanted(k)' = Wanted(k)
         /\ \A c : /\ SameOffers(c) /\ Followed(c)' = Followed(c) /\ Offers(c)' = Offers(c)
                   /\ \A e : Offer(e, c)' = Offer(e, c)
<1>1. \A k \in SliceKeys : SameObjects(k) /\ ClaimsOf(k)' = ClaimsOf(k) /\ Wanted(k)' = Wanted(k)
  BY DEF SameObjects, ClaimsOf, CurrentExport, Wanted, caches
<1>2. \A c : SameOffers(c)
  BY DEF SameOffers, APIExportsByIdentity, caches
<1>3. \A c : Followed(c)' = Followed(c)
  BY DEF Followed, Attended, SlicesReferring, ClaimNews, Provides, APIExportsByIdentity, caches
<1>4. \A c, e : Offer(e, c)' = Offer(e, c)
  BY DEF Offer, SchemasFromAPIExport, SchemasUpTo, caches
<1> QED BY <1>1, <1>2, <1>3, <1>4, OffersStay

LEMMA ClaimsWithinPass ==
  ASSUME Known, ClaimsHold,
         UNCHANGED <<caches, pending, dirty, delayed, phase>>, UNCHANGED <<key, apiSets>>,
         ASSUME phase # "shutDown", NEW k \in SliceKeys, k = key, ~Woken(k), Wanted(k),
                NEW c \in ClaimsOf(k), Followed(c), AsksOthers(k, c), ClaimRead(c)
         PROVE  ClaimRead(c)'
  PROVE  ClaimsHold'
<1> SUFFICES ASSUME phase' # "shutDown", NEW k \in SliceKeys, ~Woken(k)', Wanted(k)',
                    NEW c \in ClaimsOf(k)', Followed(c)', AsksOthers(k, c)'
             PROVE  IF k = key THEN ClaimRead(c)' ELSE ClaimInSync(k, c)'
  BY DEF ClaimsHold
<1>1. Woken(k)' = Woken(k)
  BY DEF Woken, Disturbed, SliceNews, ExportNews, SchemaNews, CurrentExport, caches
<1>2. /\ Wanted(k) /\ c \in ClaimsOf(k) /\ Followed(c) /\ SameOffers(c) /\ SameObjects(k)
  BY WorkerLeaves
<1>3. AsksOthers(k, c) /\ TypeOK
  BY <1>2, ClaimFramed DEF Known
<1>4. IF k = key THEN ClaimRead(c) ELSE ClaimInSync(k, c)
  BY <1>1, <1>2, <1>3 DEF ClaimsHold
<1>5. CASE k = key
  BY <1>1, <1>2, <1>3, <1>4, <1>5
<1>6. CASE k # key
  BY <1>2, <1>3, <1>4, <1>6, ClaimFramed
<1> QED BY <1>5, <1>6

LEMMA GettingClaims ==
  ASSUME Known, ClaimsHold, (\E k \in SliceKeys : Get(k)) \/ GetSlice \/ GetExport
  PROVE  ClaimsHold'
<1>1. ASSUME NEW j \in SliceKeys, Get(j) PROVE ClaimsHold'
  <2>1. /\ UNCHANGED <<caches, pending, phase, delayed, apiSets>> /\ dirty' = dirty \ {j}
        /\ key' = j /\ pc' = "slice" /\ key = NoKey
    BY <1>1 DEF Get, Unchanged, Known, TypeOK
  <2> SUFFICES ASSUME phase' # "shutDown", NEW k \in SliceKeys, k # j, ~Woken(k)', Wanted(k)',
                      NEW c \in ClaimsOf(k)', Followed(c)', AsksOthers(k, c)'
               PROVE  ClaimInSync(k, c)'
    BY <2>1 DEF ClaimsHold, ClaimRead
  <2>2. ~Woken(k)
    BY <2>1 DEF Woken, Disturbed, SliceNews, ExportNews, SchemaNews, CurrentExport, caches
  <2>3. /\ Wanted(k) /\ c \in ClaimsOf(k) /\ Followed(c) /\ SameOffers(c) /\ SameObjects(k)
    BY <2>1, WorkerLeaves
  <2>4. AsksOthers(k, c) /\ k # key /\ TypeOK
    BY <2>1, <2>3, ClaimFramed, SentinelAssumption DEF Known
  <2>5. ClaimInSync(k, c)
    BY <2>1, <2>2, <2>3, <2>4 DEF ClaimsHold
  <2> QED BY <2>1, <2>3, <2>4, <2>5, ClaimFramed
<1>2. CASE GetSlice \/ GetExport
  <2>1. /\ UNCHANGED <<caches, pending, dirty, delayed, phase>> /\ UNCHANGED <<key, apiSets>>
        /\ pc' \in {"export", "drop", "schemas"}
    BY <1>2 DEF GetSlice, GetExport, Unchanged
  <2>2. \A c : ClaimRead(c)'
    BY <2>1 DEF ClaimRead
  <2> QED BY <2>1, <2>2, ClaimsWithinPass
<1> QED BY <1>1, <1>2

LEMMA ClaimsTyped ==
  ASSUME TypeOK, NEW k \in SliceKeys, Wanted(k), NEW c \in ClaimsOf(k)
  PROVE  c.gr \in GRs
<1>1. CurrentExport(k) \in Export
  BY DEF Wanted, CurrentExport, TypeOK, Slice, SliceKeys, ExportKeys
<1>2. CurrentExport(k).claims \in Seq(Claim)
  BY <1>1 DEF Export
<1>3. c \in Claim
  BY <1>2 DEF ClaimsOf, Range
<1> QED BY <1>3 DEF Claim

(* To prove of a step of Resolve: what is known of one claim of the key.   *)
LEMMA ResolvingClaim ==
  ASSUME Known, ClaimsHold, Resolve,
         ASSUME NEW k \in SliceKeys, k = key, export = CurrentExport(k), SchemasRead(k),
                NEW c \in ClaimsOf(k), c.gr \in GRs, c.identity # NoIdentity,
                AsksOthers(k, c), ClaimRead(c)
         PROVE  ClaimRead(c)'
  PROVE  ClaimsHold'
<1>1. /\ UNCHANGED <<caches, pending, dirty, delayed, phase>> /\ UNCHANGED <<key, apiSets>>
  BY ResolveFrame
<1>2. ASSUME phase # "shutDown", NEW k \in SliceKeys, k = key, ~Woken(k), Wanted(k),
             NEW c \in ClaimsOf(k), Followed(c), AsksOthers(k, c), ClaimRead(c)
      PROVE  ClaimRead(c)'
  BY <1>2, KeyKnown, ClaimsTyped DEF Known, Followed
<1> QED BY <1>1, <1>2, ClaimsWithinPass

(* The one claim of the key to a resource, if it is looked at.             *)
LEMMA TheClaim ==
  ASSUME Known, claimsLeft # <<>>, pc \in {"claims", "candidates"},
         NEW k \in SliceKeys, export = CurrentExport(k), NEW c, AsksOthers(k, c)
  PROVE  Head(claimsLeft).gr = c.gr => Head(claimsLeft) = c
<1>1. Head(claimsLeft) \in ClaimsOf(k)
  BY HeadClaim DEF Known, Construction, ClaimsOfExport, ClaimsOf
<1> QED BY <1>1 DEF AsksOthers, ClaimsOf

LEMMA GetSchemaClaims ==
  ASSUME Known, ClaimsHold, GetSchema
  PROVE  ClaimsHold'
<1>1. UNCHANGED <<caches, pc, exports, claimsLeft, schemas>> /\ exports # <<>>
  BY DEF GetSchema, Unchanged
<1>2. Resolve
  BY DEF Resolve
<1>3. ASSUME NEW c, ClaimRead(c) PROVE ClaimRead(c)'
  <2>1. Offers(c)' = Offers(c) /\ \A e : Offer(e, c)' = Offer(e, c)
        /\ APIExportsByIdentity(c.identity)' = APIExportsByIdentity(c.identity)
    BY <1>1, <1>2, ResolveFrame, WorkerLeaves DEF APIExportsByIdentity, caches
  <2>2. ASSUME CandidatesRead(c) PROVE CandidatesRead(c)'
    <3>1. found' = SchemasUpTo(Head(exports)[1][1], Head(exports)[2], next' - 1)
      BY <1>1, <2>2, GetSchemaReads DEF CandidatesRead
    <3>2. found' = SchemasUpTo(Head(exports)[1][1], Head(exports)[2], next - 1)'
      BY <1>1, <1>2, <3>1, CachesStay
    <3> QED BY <1>1, <2>1, <2>2, <3>2 DEF CandidatesRead, caches
  <2> QED BY <1>1, <1>3, <2>1, <2>2 DEF ClaimRead
<1> QED BY <1>2, <1>3, ResolvingClaim

LEMMA StartClaimsClaims ==
  ASSUME Known, ClaimsHold, StartClaims
  PROVE  ClaimsHold'
<1>1. /\ pc = "schemas" /\ pc' = "claims" /\ schemas' = found /\ claimsLeft' = export.claims
      /\ AllRead
  BY DEF StartClaims
<1>2. exports # <<>> /\ Head(exports) = <<<<key[1], slice.name>>, export>>
  BY <1>1 DEF Known, Construction, ReadingShape
<1>3. Resolve
  BY DEF Resolve
<1>4. ASSUME NEW k \in SliceKeys, k = key, export = CurrentExport(k), SchemasRead(k),
             NEW c \in ClaimsOf(k), AsksOthers(k, c)
      PROVE  ClaimRead(c)'
  <2>1. schemas' = OwnSchemas(k)
    BY <1>1, <1>2, <1>4, AllAreRead DEF SchemasRead, OwnSchemas
  <2>2. schemas'[c.gr] = None /\ c \in Range(claimsLeft')
    BY <1>1, <1>4, <2>1 DEF AsksOthers, ClaimsOf
  <2> QED BY <1>1, <2>2 DEF ClaimRead
<1> QED BY <1>3, <1>4, ResolvingClaim

LEMMA ResolveClaimClaims ==
  ASSUME Known, ClaimsHold, ResolveClaim
  PROVE  ClaimsHold'
<1> DEFINE o == Head(claimsLeft)
<1>1. /\ pc = "claims" /\ pc' = "claims" /\ claimsLeft # <<>> /\ claimsLeft' = Tail(claimsLeft)
      /\ ~AnsweredByExport(o) /\ AnswerWith(o, InternalAnswer(o))
  BY DEF ResolveClaim
<1>2. Resolve
  BY DEF Resolve
<1>3. /\ o \in Range(claimsLeft) /\ o.gr \in GRs
      /\ \A c \in Range(claimsLeft) : c = o \/ c \in Range(Tail(claimsLeft))
  BY <1>1, HeadClaim
<1>4. schemas \in [GRs -> Schema \cup {None}]
  BY DEF Known, TypeOK
<1>5. ASSUME NEW k \in SliceKeys, export = CurrentExport(k), NEW c \in ClaimsOf(k), c.gr \in GRs,
             c.identity # NoIdentity, AsksOthers(k, c), ClaimRead(c)
      PROVE  ClaimRead(c)'
  <2>1. Offers(c)' = Offers(c)
    BY <1>2, ResolveFrame, WorkerLeaves
  <2>2. schemas'[c.gr] = schemas[c.gr]
    <3>1. CASE o.gr = c.gr
      <4>1. c.gr \notin InternalGRs
        BY <1>5 DEF AsksOthers
      <4> QED BY <1>1, <3>1, <4>1 DEF AnswerWith, InternalAnswer
    <3>2. CASE o.gr # c.gr
      BY <1>1, <1>4, <1>5, <3>2 DEF AnswerWith
    <3> QED BY <3>1, <3>2
  <2>3. ASSUME o = c PROVE schemas[c.gr] # None
    BY <1>1, <1>5, <2>3 DEF AnsweredByExport, AsksOthers
  <2> QED BY <1>1, <1>3, <1>5, <2>1, <2>2, <2>3 DEF ClaimRead
<1> QED BY <1>2, <1>5, ResolvingClaim

LEMMA GetCandidatesClaims ==
  ASSUME Known, ClaimsHold, GetCandidates
  PROVE  ClaimsHold'
<1> DEFINE o == Head(claimsLeft)
           S == APIExportsByIdentity(o.identity)
<1>1. /\ pc = "claims" /\ pc' = "candidates" /\ claimsLeft # <<>>
      /\ UNCHANGED <<found, next, claimsLeft, schemas, caches>>
  BY DEF GetCandidates, Unchanged
<1>2. Resolve
  BY DEF Resolve
<1>3. found = NoSchemas /\ next = 1
  BY <1>1 DEF Known, Construction, ReadingShape
<1>4. /\ exports' \in Seq(ExportKeys \X Export)
      /\ \A i \in DOMAIN exports' : exports'[i][1] \in S /\ exports'[i][2] = exportCache[exports'[i][1]]
      /\ \A e \in S : \E i \in DOMAIN exports' : exports'[i][1] = e
  <2>1. PICK p \in SortedOrders(S) : exports' = [i \in DOMAIN p |-> <<p[i], exportCache[p[i]]>>]
    BY DEF GetCandidates
  <2> QED BY <2>1, CandidatesType DEF Known
<1>5. CandidatesRead(o)'
  <2>1. S' = S
    BY <1>1 DEF APIExportsByIdentity, caches
  <2>2. ASSUME exports' # <<>>
        PROVE  found' = SchemasUpTo(Head(exports)[1][1], Head(exports)[2], next - 1)'
    <3>1. Head(exports')[2] \in Export
      BY <1>4, <2>2
    <3> QED BY <1>1, <1>3, <3>1, NothingUpTo
  <2> QED BY <1>1, <1>4, <2>1, <2>2 DEF CandidatesRead, caches
<1>6. ASSUME NEW c, ClaimRead(c) PROVE ClaimRead(c)'
  <2>1. Offers(c)' = Offers(c)
    BY <1>1, WorkerLeaves, <1>2, ResolveFrame
  <2> QED BY <1>1, <1>5, <1>6, <2>1 DEF ClaimRead
<1> QED BY <1>2, <1>6, ResolvingClaim

LEMMA MatchCandidateClaims ==
  ASSUME Known, ClaimsHold, MatchCandidate
  PROVE  ClaimsHold'
<1> DEFINE o == Head(claimsLeft)
           e == Head(exports)[1]
<1>1. /\ pc = "candidates" /\ pc' = "candidates" /\ UNCHANGED <<claimsLeft, caches>>
      /\ AnswerWith(o, found[o.gr]) /\ AllRead
      /\ exports # <<>> /\ exports' = Tail(exports) /\ found' = NoSchemas /\ next' = 1
  BY DEF MatchCandidate, Unchanged
<1>2. Resolve
  BY DEF Resolve
<1>3. claimsLeft # <<>> /\ o.gr \in GRs /\ o \in Range(claimsLeft)
  BY <1>1, HeadClaim DEF Known, TypeOK
<1>4. schemas \in [GRs -> Schema \cup {None}] /\ exports \in Seq(ExportKeys \X Export)
  BY DEF Known, TypeOK
<1>5. /\ Head(exports) = exports[1] /\ 1 \in DOMAIN exports
      /\ \A i \in DOMAIN exports' : i + 1 \in DOMAIN exports /\ exports'[i] = exports[i + 1]
      /\ \A i \in DOMAIN exports :
           i # 1 => i - 1 \in DOMAIN exports' /\ exports'[i - 1] = exports[i]
  BY <1>1, <1>4
<1>6. exports' # <<>> => Head(exports')[2] \in Export
  BY <1>1, <1>4
<1>7. ASSUME CandidatesRead(o) PROVE CandidatesRead(o)' /\ found[o.gr] \in Offers(o) \cup {None}
  <2>1. e \in APIExportsByIdentity(o.identity) /\ Head(exports)[2] = exportCache[e]
    BY <1>5, <1>7 DEF CandidatesRead
  <2>2. found[o.gr] = Offer(e, o)
    BY <1>1, <1>7, <2>1, AllAreRead DEF CandidatesRead, Offer
  <2>3. found[o.gr] \in Offers(o) \cup {None}
    BY <2>1, <2>2 DEF Offers, Offer
  <2>4. APIExportsByIdentity(o.identity)' = APIExportsByIdentity(o.identity)
        /\ \A f : Offer(f, o)' = Offer(f, o)
    BY <1>1, <1>2, ResolveFrame, WorkerLeaves DEF APIExportsByIdentity, caches
  <2>5. schemas'[o.gr] = IF Offer(e, o) = None THEN schemas[o.gr] ELSE Offer(e, o)
    BY <1>1, <1>3, <1>4, <2>2 DEF AnswerWith
  <2>6. ASSUME NEW f \in APIExportsByIdentity(o.identity)
        PROVE  schemas'[o.gr] # None \/ Offer(f, o) = None \/ \E i \in DOMAIN exports' : exports'[i][1] = f
    <3>1. CASE f = e
      BY <2>5, <3>1
    <3>2. CASE f # e
      <4>1. schemas[o.gr] # None \/ Offer(f, o) = None \/ \E i \in DOMAIN exports : exports[i][1] = f
        BY <1>7 DEF CandidatesRead
      <4>2. ASSUME NEW i \in DOMAIN exports, exports[i][1] = f
            PROVE  \E j \in DOMAIN exports' : exports'[j][1] = f
        BY <1>5, <3>2, <4>2
      <4> QED BY <2>5, <4>1, <4>2
    <3> QED BY <3>1, <3>2
  <2>7. exports' # <<>> => found' = SchemasUpTo(Head(exports)[1][1], Head(exports)[2], next - 1)'
    BY <1>1, <1>6, NothingUpTo
  <2>8. \A i \in DOMAIN exports' : /\ exports'[i][1] \in APIExportsByIdentity(o.identity)
                                   /\ exports'[i][2] = exportCache[exports'[i][1]]
    BY <1>5, <1>7 DEF CandidatesRead
  <2>9. CandidatesRead(o)'
    BY <1>1, <1>3, <2>4, <2>6, <2>7, <2>8 DEF CandidatesRead, caches
  <2> QED BY <2>3, <2>9
<1>8. ASSUME NEW k \in SliceKeys, export = CurrentExport(k), NEW c \in ClaimsOf(k), c.gr \in GRs,
             AsksOthers(k, c), ClaimRead(c)
      PROVE  ClaimRead(c)'
  <2>1. Offers(c)' = Offers(c) /\ None \notin Offers(c)
    BY <1>2, ResolveFrame, WorkerLeaves DEF Offers
  <2>2. CASE o = c
    <3>1. CandidatesRead(o)' /\ found[o.gr] \in Offers(o) \cup {None}
      BY <1>1, <1>7, <1>8, <2>2 DEF ClaimRead
    <3>2. schemas'[o.gr] \in Offers(c) \cup {None}
      BY <1>1, <1>3, <1>4, <1>8, <2>2, <3>1 DEF AnswerWith, ClaimRead
    <3> QED BY <1>1, <1>3, <2>1, <2>2, <3>1, <3>2 DEF ClaimRead
  <2>3. CASE o # c
    <3>1. schemas'[c.gr] = schemas[c.gr]
      <4>1. o.gr # c.gr
        BY <1>1, <1>3, <1>8, <2>3, TheClaim
      <4> QED BY <1>1, <1>4, <1>8, <4>1 DEF AnswerWith
    <3> QED BY <1>1, <1>8, <2>1, <2>3, <3>1 DEF ClaimRead
  <2> QED BY <2>2, <2>3
<1> QED BY <1>2, <1>8, ResolvingClaim

(* All candidates have been read: the claim is answered if it can be.      *)
LEMMA NextClaimClaims ==
  ASSUME Known, ClaimsHold, NextClaim
  PROVE  ClaimsHold'
<1> DEFINE o == Head(claimsLeft)
<1>1. /\ pc = "candidates" /\ pc' = "claims" /\ exports = <<>> /\ claimsLeft' = Tail(claimsLeft)
      /\ UNCHANGED schemas
  BY DEF NextClaim
<1>2. Resolve
  BY DEF Resolve
<1>3. claimsLeft # <<>>
  BY <1>1 DEF Known, TypeOK
<1>4. ASSUME NEW c, ClaimRead(c) PROVE ClaimRead(c)'
  <2>1. Offers(c)' = Offers(c)
    BY <1>2, ResolveFrame, WorkerLeaves
  <2>2. ASSUME c = o, Offers(c) # {} PROVE schemas[c.gr] # None
    <3>1. CandidatesRead(c)
      BY <1>1, <1>4, <2>2 DEF ClaimRead
    <3>2. PICK e \in APIExportsByIdentity(c.identity) : Offer(e, c) # None
      BY <2>2 DEF Offers, Offer
    <3>3. ~\E i \in DOMAIN exports : exports[i][1] = e
      BY <1>1
    <3> QED BY <3>1, <3>2, <3>3 DEF CandidatesRead
  <2>3. c \in Range(claimsLeft) => c = o \/ c \in Range(claimsLeft')
    BY <1>1, <1>3, HeadClaim
  <2> QED BY <1>1, <1>4, <2>1, <2>2, <2>3 DEF ClaimRead
<1> QED BY <1>2, <1>4, ResolvingClaim

LEMMA ResolvingClaims ==
  ASSUME Known, ClaimsHold, Resolve
  PROVE  ClaimsHold'
BY GetSchemaClaims, StartClaimsClaims, ResolveClaimClaims, GetCandidatesClaims,
   MatchCandidateClaims, NextClaimClaims DEF Resolve

LEMMA BuildingClaims ==
  ASSUME Known, ClaimsHold,
         \/ StartBuild \/ \E t \in todo : Preserve(t) \/ Create(t) \/ CreateFails(t)
         \/ StartFallback \/ \E g \in todo : Fallback(g) \/ FallbackFails(g)
         \/ StartCleanup \/ \E g \in todo : TearDown(g)
  PROVE  ClaimsHold'
<1>1. /\ UNCHANGED <<caches, pending, dirty, delayed, phase>> /\ UNCHANGED <<key, apiSets>>
      /\ UNCHANGED <<schemas, claimsLeft>> /\ pc \in {"claims", "build", "fallback", "cleanup"}
      /\ pc' \in {"build", "fallback", "cleanup"} /\ (pc = "claims" => claimsLeft = <<>>)
  BY DEF StartBuild, Preserve, Create, CreateFails, StartFallback, Fallback, FallbackFails,
     StartCleanup, TearDown, Unchanged
<1>2. \A c : ~(pc = "claims" /\ c \in Range(claimsLeft))
  BY <1>1 DEF Range
<1>3. \A c : ClaimRead(c) => ClaimRead(c)'
  BY <1>1, <1>2, WorkerLeaves DEF ClaimRead
<1> QED BY <1>1, <1>3, ClaimsWithinPass

LEMMA FinishingClaims ==
  ASSUME Known, ClaimsHold, Drop \/ Store \/ \E t \in todo : SelectorError(t)
  PROVE  ClaimsHold'
<1>1. UNCHANGED <<caches, pending, dirty, phase>> /\ key \in SliceKeys /\ key' = NoKey
  BY DEF Drop, Store, SelectorError, ResetLocals, Unchanged, Known, TypeOK
<1> SUFFICES ASSUME phase # "shutDown", NEW k \in SliceKeys, ~Woken(k)', Wanted(k)',
                    NEW c \in ClaimsOf(k)', Followed(c)', AsksOthers(k, c)'
             PROVE  ClaimInSync(k, c)'
  BY <1>1, SentinelAssumption DEF ClaimsHold
<1>2. Wanted(k) /\ c \in ClaimsOf(k) /\ Followed(c) /\ SameOffers(c) /\ SameObjects(k)
  BY <1>1, WorkerLeaves
<1>3. AsksOthers(k, c) /\ TypeOK
  BY <1>2, ClaimFramed DEF Known
<1>4. ~Woken(k)
  BY <1>1 DEF Woken, Disturbed, SliceNews, ExportNews, SchemaNews, CurrentExport, caches,
     Drop, Store, SelectorError
<1>5. CASE k # key
  <2>1. ClaimInSync(k, c)
    BY <1>2, <1>3, <1>4, <1>5 DEF ClaimsHold
  <2>2. apiSets'[k] = apiSets[k]
    BY <1>5 DEF Drop, Store, SelectorError, Known, TypeOK
  <2> QED BY <1>2, <1>3, <2>1, <2>2, ClaimFramed
<1>6. CASE k = key
  <2>1. ReadsHold(k)
    BY <1>4, <1>6 DEF Known, ReadsCurrent, Woken
  <2>2. ~Drop /\ ~\E t \in todo : SelectorError(t)
    BY <1>2, <1>6, <2>1 DEF Drop, SelectorError, ReadsHold, Woken, Disturbed
  <2>3. pc = "cleanup" /\ apiSets'[k] = newSet /\ newSet # NoSet
    BY <1>6, <2>2, SentinelAssumption DEF Store, Known, TypeOK
  <2>4. ClaimRead(c)
    BY <1>2, <1>3, <1>4, <1>6 DEF ClaimsHold
  <2>5. schemas[c.gr] \in Offers(c) \/ (schemas[c.gr] = None /\ Offers(c) = {})
    BY <2>3, <2>4 DEF ClaimRead
  <2>6. ASSUME NEW v \in Versions, <<c.gr, v>> \in PlainGVRs
        PROVE  LET d == newSet[<<c.gr, v>>]
               IN  /\ Built(d) => \E h \in Offers(c) : h.uid = d.uid /\ v \in h.served
                   /\ (\A h \in Offers(c) : v \in h.served) /\ Offers(c) # {} => Built(d)
    <3> DEFINE g == <<c.gr, v>>
    <3>1. /\ Due(g) => Built(newSet[g])
          /\ Built(newSet[g]) => Due(g) /\ newSet[g].uid = schemas[c.gr].uid
      BY <2>3, <2>6 DEF Known, Construction, SetBuilt
    <3>2. c.gr \in GRs
      BY <2>6, GVRParts DEF PlainGVRs
    <3>3. \A h \in Offers(c) : h # None /\ h.gr = c.gr
      BY <3>2, OwnNames DEF Offers
    <3>4. Due(g) <=> schemas[c.gr] # None /\ v \in schemas[c.gr].served /\ schemas[c.gr].gr = c.gr
      BY DEF Due, Listed
    <3> QED BY <2>5, <3>1, <3>3, <3>4
  <2>7. Offers(c)' = Offers(c)
    BY <1>1, WorkerLeaves
  <2> QED BY <2>3, <2>6, <2>7 DEF ClaimInSync, Built
<1> QED BY <1>5, <1>6

LEMMA StepClaims ==
  ASSUME Known, ClaimsHold, SlicesResolve, SlicesResolve',
         [Next /\ NothingMissed /\ IdentitiesStay]_vars
  PROVE  ClaimsHold'
<1>1. ASSUME UNCHANGED <<caches, pending, dirty, delayed, locals, apiSets>>, phase' = phase
      PROVE  ClaimsHold'
  <2>1. \A k \in SliceKeys : Woken(k)' = Woken(k)
    BY <1>1 DEF Woken, Disturbed, SliceNews, ExportNews, SchemaNews, CurrentExport, caches
  <2> QED BY <1>1, <2>1, WorkerLeaves, ClaimsLeftAlone DEF Known
<1>2. CASE UNCHANGED vars
  BY <1>1, <1>2 DEF vars
<1>3. CASE StopTearDown
  <2>1. /\ UNCHANGED <<caches, pending, dirty, delayed, locals, apiSets>>
        /\ phase = "running" /\ phase' = "tornDown"
    BY <1>3 DEF StopTearDown
  <2>2. \A k \in SliceKeys : Woken(k)' = Woken(k)
    BY <2>1 DEF Woken, Disturbed, SliceNews, ExportNews, SchemaNews, CurrentExport, caches
  <2> QED BY <2>1, <2>2, WorkerLeaves, ClaimsLeftAlone DEF Known
<1>4. CASE QueueShutDown
  BY <1>4 DEF QueueShutDown, ClaimsHold
<1>5. CASE StopPanics \/ \E g \in todo : TearDownNil(g)
  BY <1>5, RestartClaims DEF StopPanics, TearDownNil
<1> QED BY <1>2, <1>3, <1>4, <1>5, EnvironmentClaims, DeliveryClaims, GettingClaims,
           ResolvingClaims, BuildingClaims, FinishingClaims
        DEF Next, Worker

(* When nothing is under way anywhere, a domain serves what its export     *)
(* claims from the schemas the exports with the claimed identity have now: *)
(* for any number of claims, exports and slices of them, which may change, *)
(* come late or go in between, as long as an export keeps its identity.    *)
(* (Besides what SchemasAreServed needs.)                                  *)
THEOREM ClaimsAreServed ==
  Spec /\ []SlicesResolve /\ [][NothingMissed /\ IdentitiesStay]_vars
    => []ServedClaimsCurrent
<1>1. Known /\ ClaimsHold => ServedClaimsCurrent
  <2> SUFFICES ASSUME Known, ClaimsHold, Settled, NEW k \in SliceKeys, Wanted(k),
                      NEW c \in ClaimsOf(k), Attended(c)
               PROVE  ClaimInSync(k, c)
    BY DEF ServedClaimsCurrent, ClaimsOf
  <2>1. ~Woken(k) /\ ~ClaimNews(c) /\ k # key
    BY SentinelAssumption
       DEF Settled, Woken, Disturbed, SliceNews, ExportNews, SchemaNews, ClaimNews, Known, TypeOK
  <2>2. CASE AsksOthers(k, c)
    BY <2>1, <2>2 DEF ClaimsHold, Followed, AsksOthers, Settled
  <2>3. CASE ~AsksOthers(k, c)
    BY <2>3 DEF ClaimInSync
  <2> QED BY <2>2, <2>3
<1>2. Init => ClaimsHold
  BY InitClaims
<1>3. Known /\ ClaimsHold /\ SlicesResolve /\ SlicesResolve'
        /\ [Next /\ NothingMissed /\ IdentitiesStay]_vars => ClaimsHold'
  BY StepClaims
<1>4. [Next]_vars /\ [NothingMissed /\ IdentitiesStay]_vars
        => [Next /\ NothingMissed /\ IdentitiesStay]_vars
  OBVIOUS
<1>5. [NothingMissed /\ IdentitiesStay]_vars => [NothingMissed]_vars
  OBVIOUS
<1> QED BY <1>1, <1>2, <1>3, <1>4, <1>5, KnownAlways, PTL DEF Spec
=============================================================================
