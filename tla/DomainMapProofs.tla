-------------------------- MODULE DomainMapProofs --------------------------
(***************************************************************************)
(* The controller implements ServedDomains, for every value of its         *)
(* constants.  Three things must be known of the set reconcile is          *)
(* building: where its definitions are served already, that they are good, *)
(* and that the tear-down spares them.                                     *)
(***************************************************************************)
EXTENDS APIReconcilerProofs

Id(d) == IF d = NoDef THEN Nil ELSE d.id

(* A definition of the new set is in one place of it, and served, if at    *)
(* all, in that place of the key's domain.                                 *)
NewSetOwned ==
  \A g \in GVRs : Id(newSet[g]) # Nil =>
    /\ \A h \in GVRs : Id(newSet[h]) = Id(newSet[g]) => h = g
    /\ \A k \in SliceKeys, h \in GVRs :
         apiSets[k] # NoSet /\ Id(apiSets[k][h]) = Id(newSet[g]) => k = key /\ h = g

(* Definitions built from schemas are made, only those have a context.     *)
Sound(set) ==
  \A g \in GVRs : set[g] # NoDef =>
    IF Built(set[g]) THEN set[g].id # Nil ELSE set[g].id \notin live

SetsSound == Sound(newSet) /\ \A k \in SliceKeys : apiSets[k] # NoSet => Sound(apiSets[k])

NewSetLive == phase = "running" => \A g \in GVRs : Built(newSet[g]) => newSet[g].id \in live

NewSetCleared == pc \notin {"build", "fallback", "cleanup"} => newSet = EmptySet

CleanupSpares == pc = "cleanup" => \A g \in todo : Replaces(g)

(* The inductive invariant beside TypeOK.                                  *)
MapInv ==
  /\ OwnedOnce /\ ServedIsLive
  /\ NewSetOwned /\ SetsSound /\ NewSetLive /\ NewSetCleared /\ CleanupSpares
-----------------------------------------------------------------------------
LEMMA FreshIdIsNew ==
  ASSUME FreeIds # {}
  PROVE  /\ FreshId \in DefIds /\ FreshId \notin live /\ FreshId # Nil
         /\ \A g \in GVRs : Id(newSet[g]) # FreshId
         /\ \A k \in SliceKeys, g \in GVRs : apiSets[k] # NoSet => Id(apiSets[k][g]) # FreshId
<1>1. FreshId \in FreeIds
  BY DEF FreshId
<1>2. FreshId \in DefIds /\ FreshId # Nil /\ FreshId \notin live
  BY <1>1, SentinelAssumption DEF FreeIds
<1>3. FreshId \notin IdsOf(newSet) /\ FreshId \notin ServedIds
  BY <1>1 DEF FreeIds
<1>4. \A g \in GVRs : Id(newSet[g]) # FreshId
  BY <1>2, <1>3 DEF IdsOf, Id
<1>5. ASSUME NEW k \in SliceKeys, NEW g \in GVRs, apiSets[k] # NoSet
      PROVE  Id(apiSets[k][g]) # FreshId
  BY <1>2, <1>3, <1>5 DEF ServedIds, IdsOf, Id
<1> QED BY <1>2, <1>4, <1>5

LEMMA EmptySetIsEmpty == \A g \in GVRs : EmptySet[g] = NoDef /\ Id(EmptySet[g]) = Nil
BY DEF EmptySet, Id

(* The new set is empty, nothing is served that was not before, and no     *)
(* context is cancelled: the pass has ended or has just begun.             *)
LEMMA Cleared ==
  ASSUME TypeOK, MapInv, newSet' = EmptySet, pc' \notin {"build", "fallback", "cleanup"},
         live' = live, phase' = phase,
         \A k \in SliceKeys : apiSets'[k] = apiSets[k] \/ apiSets'[k] = NoSet,
         pc # "cleanup"
  PROVE  MapInv'
<1>1. OwnedOnce'
  BY DEF MapInv, OwnedOnce
<1>2. ServedIsLive'
  BY DEF MapInv, ServedIsLive, Built
<1>3. NewSetOwned' /\ NewSetLive' /\ NewSetCleared' /\ CleanupSpares'
  BY EmptySetIsEmpty DEF NewSetOwned, NewSetLive, NewSetCleared, CleanupSpares, Built
<1>4. SetsSound'
  BY EmptySetIsEmpty DEF MapInv, SetsSound, Sound, Built
<1> QED BY <1>1, <1>2, <1>3, <1>4 DEF MapInv

LEMMA RestartMap == Restart => MapInv'
<1> SUFFICES ASSUME Restart PROVE MapInv'
  OBVIOUS
<1>1. /\ newSet' = EmptySet /\ pc' = "idle" /\ live' = {}
      /\ \A k \in SliceKeys : apiSets'[k] = NoSet
  BY DEF Restart, ResetLocals
<1> QED BY <1>1, EmptySetIsEmpty
        DEF MapInv, OwnedOnce, ServedIsLive, NewSetOwned, SetsSound, Sound, NewSetLive,
            NewSetCleared, CleanupSpares, Built

LEMMA InitMap == Init => MapInv
BY EmptySetIsEmpty
   DEF Init, MapInv, OwnedOnce, ServedIsLive, NewSetOwned, SetsSound, Sound, NewSetLive,
       NewSetCleared, CleanupSpares, Built

(* Nothing the invariant speaks of changes, but how far the worker is.     *)
LEMMA Calm ==
  ASSUME MapInv, UNCHANGED <<key, newSet, apiSets, live>>,
         phase' = phase \/ phase' # "running",
         pc' \notin {"build", "fallback", "cleanup"} => pc \notin {"build", "fallback", "cleanup"},
         pc = "cleanup" => UNCHANGED <<pc, todo>>,
         pc' = "cleanup" /\ pc # "cleanup" => \A g \in todo' : Replaces(g)
  PROVE  MapInv'
<1>1. OwnedOnce'
  BY DEF MapInv, OwnedOnce
<1>2. ServedIsLive'
  BY DEF MapInv, ServedIsLive, Built
<1>3. NewSetOwned' /\ SetsSound'
  BY DEF MapInv, NewSetOwned, SetsSound, Sound, Built
<1>4. NewSetLive' /\ NewSetCleared'
  BY DEF MapInv, NewSetLive, NewSetCleared, Built
<1>5. CleanupSpares'
  BY DEF MapInv, CleanupSpares, Replaces, oldSet
<1> QED BY <1>1, <1>2, <1>3, <1>4, <1>5 DEF MapInv

(* A definition is put into the new set: one kept from the old set, one    *)
(* nobody has had, or none that could be torn down.                        *)
LEMMA Placed ==
  ASSUME TypeOK, MapInv, pc \in {"build", "fallback"}, UNCHANGED <<pc, key, apiSets, phase>>,
         NEW g \in GVRs, NEW d \in Def, newSet' = [newSet EXCEPT ![g] = d],
         live' = live \/ live' = live \cup {d.id},
         live' # live =>
           /\ \A h \in GVRs : Id(newSet[h]) # d.id
           /\ \A k \in SliceKeys, h \in GVRs : apiSets[k] # NoSet => Id(apiSets[k][h]) # d.id,
         d.id # Nil =>
           /\ \A h \in GVRs : h # g => Id(newSet[h]) # d.id
           /\ \A k \in SliceKeys, h \in GVRs :
                apiSets[k] # NoSet /\ Id(apiSets[k][h]) = d.id => k = key /\ h = g,
         IF Built(d) THEN d.id # Nil /\ (phase = "running" => d.id \in live')
                     ELSE d.id \notin live'
  PROVE  MapInv'
<1>1. /\ newSet'[g] = d /\ Id(d) = d.id /\ d # NoDef
      /\ \A h \in GVRs : h # g => newSet'[h] = newSet[h]
  BY SentinelAssumption DEF TypeOK, DefSet, Id
<1>2. OwnedOnce'
  BY DEF MapInv, OwnedOnce
<1>3. ServedIsLive'
  BY DEF MapInv, ServedIsLive, Built
<1>4. NewSetOwned'
  <2> SUFFICES ASSUME NEW h \in GVRs, Id(newSet'[h]) # Nil
               PROVE  /\ \A i \in GVRs : Id(newSet'[i]) = Id(newSet'[h]) => i = h
                      /\ \A k \in SliceKeys, i \in GVRs :
                           apiSets[k] # NoSet /\ Id(apiSets[k][i]) = Id(newSet'[h])
                             => k = key /\ i = h
    BY DEF NewSetOwned, Id
  <2>1. CASE h = g
    BY <1>1, <2>1
  <2>2. CASE h # g
    BY <1>1, <2>2 DEF MapInv, NewSetOwned
  <2> QED BY <2>1, <2>2
<1>5. SetsSound'
  <2>1. ASSUME NEW e, e # NoDef, ~Built(e), e.id \notin live, live' # live => Id(e) # d.id
        PROVE  e.id \notin live'
    BY <2>1 DEF Id
  <2>2. Sound(newSet)'
    BY <1>1, <2>1 DEF MapInv, SetsSound, Sound, Built
  <2>3. ASSUME NEW k \in SliceKeys, apiSets[k] # NoSet PROVE Sound(apiSets[k])'
    BY <2>1, <2>3 DEF MapInv, SetsSound, Sound, Built
  <2> QED BY <2>2, <2>3 DEF SetsSound
<1>6. NewSetLive'
  BY <1>1 DEF MapInv, NewSetLive, Built
<1>7. NewSetCleared' /\ CleanupSpares'
  BY DEF NewSetCleared, CleanupSpares
<1> QED BY <1>2, <1>3, <1>4, <1>5, <1>6, <1>7 DEF MapInv

LEMMA CalmSteps ==
  TypeOK /\ MapInv
  /\ (\/ Environment \/ Informers \/ Resync \/ (\E k \in SliceKeys : RateLimited(k))
      \/ GetSlice \/ GetExport \/ Resolve
      \/ StartBuild \/ (\E t \in todo : CreateFails(t)) \/ StartFallback \/ StartCleanup
      \/ QueueShutDown \/ UNCHANGED vars)
    => MapInv'
<1> SUFFICES ASSUME TypeOK, MapInv PROVE
      \/ Environment \/ Informers \/ Resync \/ (\E k \in SliceKeys : RateLimited(k))
      \/ GetSlice \/ GetExport \/ Resolve
      \/ StartBuild \/ (\E t \in todo : CreateFails(t)) \/ StartFallback \/ StartCleanup
      \/ QueueShutDown \/ UNCHANGED vars
      => MapInv'
  OBVIOUS
<1>1. UNCHANGED <<locals, apiSets, live>> /\ (phase' = phase \/ phase' # "running") => MapInv'
  BY Calm DEF locals
<1>2. ASSUME Environment \/ Informers PROVE MapInv'
  <2>1. Crash \/ (\E n \in pending : DeliverTombstone(n)) => MapInv'
    BY RestartMap DEF Crash, DeliverTombstone
  <2> QED BY <1>1, <1>2, <2>1 DEF Environment, SetSlice, SetExport, SetSchema, Informers, Deliver
<1>3. Resync \/ (\E k \in SliceKeys : RateLimited(k)) \/ QueueShutDown \/ UNCHANGED vars => MapInv'
  BY <1>1 DEF Resync, RateLimited, QueueShutDown, vars
<1>4. GetSlice \/ GetExport \/ Resolve => MapInv'
  BY Calm, ResolveFrame DEF GetSlice, GetExport, Unchanged
<1>5. StartBuild \/ (\E t \in todo : CreateFails(t)) \/ StartFallback => MapInv'
  BY Calm DEF StartBuild, CreateFails, StartFallback, Unchanged
<1>6. StartCleanup => MapInv'
  BY Calm DEF StartCleanup, Unchanged
<1> QED BY <1>2, <1>3, <1>4, <1>5, <1>6

LEMMA ClearingSteps ==
  TypeOK /\ MapInv
  /\ ((\E k \in SliceKeys : Get(k)) \/ Drop \/ (\E t \in todo : SelectorError(t)))
    => MapInv'
<1>1. ASSUME TypeOK, MapInv, NEW k \in SliceKeys, Get(k) PROVE MapInv'
  BY <1>1, Cleared DEF Get, Unchanged, MapInv, NewSetCleared
<1>2. ASSUME TypeOK, MapInv, Drop PROVE MapInv'
  BY <1>2, Cleared DEF Drop, ResetLocals, Unchanged, TypeOK
<1>3. ASSUME TypeOK, MapInv, NEW t \in todo, SelectorError(t) PROVE MapInv'
  BY <1>3, Cleared DEF SelectorError, ResetLocals, Unchanged
<1> QED BY <1>1, <1>2, <1>3

(* A definition that is kept is served, and good, where it will stay.      *)
LEMMA PreserveMap == ASSUME TypeOK, MapInv, NEW t \in todo, Preserve(t) PROVE MapInv'
<1> DEFINE g == GVROf(t)
           d == oldSet[GVROf(t)]
<1>1. g \in GVRs /\ key \in SliceKeys /\ export.identity # NoIdentity
  BY GVROfType DEF Preserve, TypeOK
<1>2. d # NoDef /\ d.owner = export.identity /\ Built(d)
  BY <1>1 DEF Preserve, MayPreserve, Built
<1>3. apiSets[key] # NoSet /\ d = apiSets[key][g] /\ d \in Def
  BY <1>1, <1>2, EmptySetIsEmpty DEF oldSet, TypeOK, DefSet
<1>4. d.id # Nil /\ Id(d) = d.id
  BY <1>1, <1>2, <1>3 DEF MapInv, SetsSound, Sound, Id
<1>5. phase = "running" => d.id \in live
  BY <1>1, <1>2, <1>3 DEF Preserve, MapInv, ServedIsLive
<1>6. \A k \in SliceKeys, h \in GVRs :
        apiSets[k] # NoSet /\ Id(apiSets[k][h]) = d.id => k = key /\ h = g
  BY <1>1, <1>3, <1>4 DEF MapInv, OwnedOnce, Id
<1>7. \A h \in GVRs : h # g => Id(newSet[h]) # d.id
  BY <1>1, <1>3, <1>4 DEF MapInv, NewSetOwned
<1>8. UNCHANGED <<pc, key, apiSets, phase, live>> /\ newSet' = [newSet EXCEPT ![g] = d]
      /\ pc \in {"build", "fallback"}
  BY DEF Preserve, Unchanged
<1> QED BY <1>1, <1>2, <1>3, <1>4, <1>5, <1>6, <1>7, <1>8, Placed

LEMMA CreateMap == ASSUME TypeOK, MapInv, NEW t \in todo, Create(t) PROVE MapInv'
<1> DEFINE g == GVROf(t)
<1>1. g \in GVRs
  BY GVROfType DEF Create
<1>2. PICK d \in Def : /\ newSet' = [newSet EXCEPT ![g] = d]
                       /\ d.id = FreshId /\ d.owner = export.identity
  BY CreatedDef
<1>3. Built(d)
  BY <1>2, SentinelAssumption DEF Create, TypeOK, Built
<1>4. /\ UNCHANGED <<pc, key, apiSets, phase>> /\ live' = live \cup {d.id} /\ pc = "build"
      /\ FreeIds # {}
  BY <1>2 DEF Create, Unchanged
<1> QED BY <1>1, <1>2, <1>3, <1>4, FreshIdIsNew, Placed

LEMMA FallbackMap ==
  ASSUME TypeOK, MapInv, NEW g \in todo, Fallback(g) \/ FallbackFails(g) PROVE MapInv'
<1> DEFINE d(i) == FallbackDef(i)
<1>1. g \in GVRs /\ pc = "fallback" /\ UNCHANGED <<pc, key, apiSets, phase, live>>
  BY DEF Fallback, FallbackFails, Unchanged, TypeOK
<1>2. \A i \in DefIds \cup {Nil} : d(i) \in Def /\ d(i).id = i /\ ~Built(d(i))
  BY DEF FallbackDef, Def, Built
<1>3. Nil \notin live
  BY SentinelAssumption DEF TypeOK
<1>4. CASE FallbackFails(g)
  <2>1. newSet' = [newSet EXCEPT ![g] = d(Nil)]
    BY <1>4 DEF FallbackFails
  <2> QED BY <1>1, <1>2, <1>3, <2>1, Placed
<1>5. CASE Fallback(g)
  <2>1. newSet' = [newSet EXCEPT ![g] = d(FreshId)] /\ FreeIds # {}
    BY <1>5 DEF Fallback
  <2> QED BY <1>1, <1>2, <2>1, FreshIdIsNew, Placed
<1> QED BY <1>4, <1>5

(* What is torn down is at one place of the key's own domain, and the new  *)
(* set has something else there.                                           *)
LEMMA TearDownMap == ASSUME TypeOK, MapInv, NEW g \in todo, TearDown(g) PROVE MapInv'
<1>1. /\ g \in GVRs /\ key \in SliceKeys /\ pc = "cleanup" /\ todo' \subseteq todo
      /\ UNCHANGED <<pc, key, newSet, apiSets, phase>>
      /\ live' = live \ {oldSet[g].id} /\ oldSet[g].id # Nil
  BY DEF TearDown, Unchanged, TypeOK
<1>2. oldSet[g] # NoDef /\ (newSet[g] = NoDef \/ newSet[g].id # oldSet[g].id)
  BY <1>1 DEF MapInv, CleanupSpares, Replaces
<1>3. apiSets[key] # NoSet /\ oldSet[g] = apiSets[key][g]
  BY <1>1, <1>2, EmptySetIsEmpty DEF oldSet
<1>4. OwnedOnce' /\ NewSetOwned' /\ NewSetCleared'
  BY <1>1 DEF MapInv, OwnedOnce, NewSetOwned, NewSetCleared, Id
<1>5. CleanupSpares'
  BY <1>1 DEF MapInv, CleanupSpares, Replaces, oldSet
<1>6. SetsSound'
  BY <1>1 DEF MapInv, SetsSound, Sound, Built
<1>7. ASSUME NEW k \in SliceKeys, k # key, NEW h \in GVRs, apiSets[k] # NoSet,
             apiSets[k][h] # NoDef
      PROVE  apiSets[k][h].id # oldSet[g].id
  BY <1>1, <1>2, <1>3, <1>7 DEF MapInv, OwnedOnce
<1>8. ServedIsLive'
  BY <1>1, <1>7 DEF MapInv, ServedIsLive, Built
<1>9. ASSUME NEW h \in GVRs, newSet[h] # NoDef PROVE newSet[h].id # oldSet[g].id
  <2>1. newSet[h].id = oldSet[g].id => h = g
    BY <1>1, <1>2, <1>3, <1>9 DEF MapInv, NewSetOwned, Id
  <2> QED BY <1>2, <1>9, <2>1
<1>10. NewSetLive'
  BY <1>1, <1>9 DEF MapInv, NewSetLive, Built
<1> QED BY <1>4, <1>5, <1>6, <1>8, <1>10 DEF MapInv

LEMMA StoreMap == ASSUME TypeOK, MapInv, Store PROVE MapInv'
<1>1. /\ key \in SliceKeys /\ pc' = "idle" /\ newSet' = EmptySet /\ UNCHANGED <<live, phase>>
      /\ apiSets'[key] = newSet /\ \A k \in SliceKeys : k # key => apiSets'[k] = apiSets[k]
  BY DEF Store, ResetLocals, Unchanged, TypeOK
<1>2. OwnedOnce'
  <2> SUFFICES ASSUME NEW j \in SliceKeys, NEW k \in SliceKeys, NEW g \in GVRs, NEW h \in GVRs,
                      apiSets'[j] # NoSet, apiSets'[k] # NoSet,
                      Id(apiSets'[j][g]) = Id(apiSets'[k][h]), Id(apiSets'[j][g]) # Nil
               PROVE  j = k /\ g = h
    BY DEF OwnedOnce, Id
  <2>1. CASE j = key
    BY <1>1, <2>1 DEF MapInv, NewSetOwned
  <2>2. CASE k = key
    BY <1>1, <2>2 DEF MapInv, NewSetOwned
  <2>3. CASE j # key /\ k # key
    BY <1>1, <2>3 DEF MapInv, OwnedOnce, Id
  <2> QED BY <2>1, <2>2, <2>3
<1>3. ServedIsLive'
  BY <1>1 DEF MapInv, ServedIsLive, NewSetLive, Built
<1>4. SetsSound'
  BY <1>1, EmptySetIsEmpty DEF MapInv, SetsSound, Sound, Built
<1>5. NewSetOwned' /\ NewSetLive' /\ NewSetCleared' /\ CleanupSpares'
  BY <1>1, EmptySetIsEmpty DEF NewSetOwned, NewSetLive, NewSetCleared, CleanupSpares, Built
<1> QED BY <1>2, <1>3, <1>4, <1>5 DEF MapInv

LEMMA StopTearDownMap == ASSUME TypeOK, MapInv, StopTearDown PROVE MapInv'
<1>1. UNCHANGED <<locals, apiSets>> /\ live' \subseteq live /\ phase' = "tornDown"
  BY DEF StopTearDown
<1>2. OwnedOnce' /\ NewSetOwned' /\ NewSetCleared' /\ CleanupSpares'
  BY <1>1 DEF MapInv, OwnedOnce, NewSetOwned, NewSetCleared, CleanupSpares, Replaces, oldSet,
              Id, locals
<1>3. ServedIsLive' /\ NewSetLive'
  BY <1>1 DEF ServedIsLive, NewSetLive
<1>4. SetsSound'
  BY <1>1 DEF MapInv, SetsSound, Sound, Built, locals
<1> QED BY <1>2, <1>3, <1>4 DEF MapInv

LEMMA StepMap == TypeOK /\ MapInv /\ [Next]_vars => MapInv'
<1>1. TypeOK /\ MapInv /\ (StopPanics \/ \E g \in todo : TearDownNil(g)) => MapInv'
  BY RestartMap DEF StopPanics, TearDownNil
<1>2. TypeOK /\ MapInv
      /\ ((\E t \in todo : Preserve(t) \/ Create(t) \/ Fallback(t) \/ FallbackFails(t)
                           \/ TearDown(t))
          \/ Store \/ StopTearDown)
        => MapInv'
  BY PreserveMap, CreateMap, FallbackMap, TearDownMap, StoreMap, StopTearDownMap
<1> QED BY <1>1, <1>2, CalmSteps, ClearingSteps DEF Next, Worker

LEMMA MapInvAlways == Spec => []MapInv
<1>1. TypeOK /\ MapInv /\ [Next]_vars => MapInv'
  BY StepMap
<1> QED BY <1>1, InitMap, TypeCorrect, PTL DEF Spec

(* A definition belongs to one place of one domain, for any number of      *)
(* clusters, slices, exports and schemas: what reconcile tears down for    *)
(* its key is served by nobody else.                                       *)
THEOREM NothingShared == Spec => []OwnedOnce
<1>1. MapInv => OwnedOnce
  BY DEF MapInv
<1> QED BY <1>1, MapInvAlways, PTL

(* What requests are given has not been cancelled, except in the domain    *)
(* whose set is being replaced and after Start has torn everything down.   *)
THEOREM NothingCancelled == Spec => []ServedIsLive
<1>1. MapInv => ServedIsLive
  BY DEF MapInv
<1> QED BY <1>1, MapInvAlways, PTL
-----------------------------------------------------------------------------
(* The refinement.  What the mapping makes of a domain's set.              *)
LEMMA ServedAsIs ==
  ASSUME TypeOK, MapInv, NEW k \in SliceKeys
  PROVE  /\ apiSets[k] = NoSet => ServedAs(k) = NoSet
         /\ apiSets[k] # NoSet =>
              /\ ServedAs(k) \in [GVRs -> DefIds \cup {NoDef}] /\ ServedAs(k) # NoSet
              /\ \A g \in GVRs : IF Built(apiSets[k][g])
                                  THEN ServedAs(k)[g] = apiSets[k][g].id /\ ServedAs(k)[g] # NoDef
                                  ELSE ServedAs(k)[g] = NoDef
<1>1. ASSUME apiSets[k] # NoSet, NEW g \in GVRs, Built(apiSets[k][g])
      PROVE  apiSets[k][g].id \in DefIds
  <2>1. apiSets[k][g] \in Def
    BY <1>1 DEF TypeOK, DefSet, Built
  <2>2. apiSets[k][g].id # Nil
    BY <1>1 DEF MapInv, SetsSound, Sound, Built
  <2> QED BY <2>1, <2>2 DEF Def
<1> QED BY <1>1, SentinelAssumption DEF ServedAs

LEMMA MappedServed ==
  ASSUME TypeOK, MapInv, NEW k \in SliceKeys, NEW d
  PROVE  d \in DomainMap!Served(k) <=>
           /\ apiSets[k] # NoSet
           /\ \E g \in GVRs : Built(apiSets[k][g]) /\ apiSets[k][g].id = d
BY ServedAsIs DEF DomainMap!Served

LEMMA MappedInUse ==
  ASSUME TypeOK, MapInv, NEW d
  PROVE  d \in DomainMap!InUse <=>
           \E k \in SliceKeys, g \in GVRs :
             apiSets[k] # NoSet /\ Built(apiSets[k][g]) /\ apiSets[k][g].id = d
BY MappedServed DEF DomainMap!InUse

LEMMA MappedInit == Init => DomainMap!Init
BY DEF Init, DomainMap!Init, DomainMap!Nothing, ServedAs

LEMMA MappedRestart == TypeOK /\ Restart => DomainMap!Next
BY DEF Restart, ResetLocals, DomainMap!Next, DomainMap!Restart, DomainMap!Nothing, ServedAs

(* Nothing that the mapping looks at changes.                              *)
LEMMA MappedStutter ==
  ASSUME UNCHANGED <<apiSets, live>>,
         phase' = phase \/ (phase # "running" /\ phase' # "running"),
         (pc' = "cleanup") = (pc = "cleanup"), pc = "cleanup" => key' = key
  PROVE  UNCHANGED DomainMap!vars
<1>1. \A k \in SliceKeys : ServedAs(k)' = ServedAs(k)
  BY DEF ServedAs, Built
<1> QED BY <1>1 DEF DomainMap!vars

LEMMA StutteringSteps ==
  (\/ \E k \in SliceKeys : SetSlice(k)
   \/ \E e \in ExportKeys : SetExport(e)
   \/ \E s \in SchemaKeys : SetSchema(s)
   \/ \E n \in pending : Deliver(n)
   \/ Resync \/ (\E k \in SliceKeys : RateLimited(k) \/ Get(k))
   \/ GetSlice \/ GetExport \/ Resolve \/ StartBuild
   \/ (\E t \in todo : Preserve(t) \/ CreateFails(t) \/ SelectorError(t)
                         \/ Fallback(t) \/ FallbackFails(t))
   \/ StartFallback \/ QueueShutDown \/ UNCHANGED vars)
    => UNCHANGED DomainMap!vars
<1>1. UNCHANGED <<apiSets, live, phase, pc, key>> => UNCHANGED DomainMap!vars
  BY MappedStutter
<1>2. (\E k \in SliceKeys : SetSlice(k)) \/ (\E e \in ExportKeys : SetExport(e))
      \/ (\E s \in SchemaKeys : SetSchema(s)) \/ (\E n \in pending : Deliver(n))
      \/ Resync \/ (\E k \in SliceKeys : RateLimited(k)) \/ UNCHANGED vars
        => UNCHANGED DomainMap!vars
  BY <1>1 DEF SetSlice, SetExport, SetSchema, Deliver, Resync, RateLimited, vars, locals
<1>3. (\E t \in todo : Preserve(t) \/ CreateFails(t) \/ Fallback(t) \/ FallbackFails(t))
        => UNCHANGED DomainMap!vars
  BY <1>1 DEF Preserve, CreateFails, Fallback, FallbackFails, Unchanged
<1>4. (\E k \in SliceKeys : Get(k)) \/ GetSlice \/ GetExport \/ Resolve \/ StartBuild
      \/ (\E t \in todo : SelectorError(t)) \/ StartFallback
        => UNCHANGED DomainMap!vars
  BY MappedStutter, ResolveFrame
     DEF Get, GetSlice, GetExport, StartBuild, SelectorError, StartFallback,
         ResetLocals, Unchanged
<1>5. QueueShutDown => UNCHANGED DomainMap!vars
  BY MappedStutter DEF QueueShutDown, locals
<1> QED BY <1>2, <1>3, <1>4, <1>5

LEMMA MappedCreate ==
  ASSUME TypeOK, MapInv, NEW t \in todo, Create(t) PROVE DomainMap!Next
<1>1. /\ UNCHANGED <<apiSets, phase, pc, key>> /\ live' = live \cup {FreshId} /\ FreeIds # {}
  BY DEF Create, Unchanged
<1>2. \A k \in SliceKeys : ServedAs(k)' = ServedAs(k)
  BY <1>1 DEF ServedAs, Built
<1>3. FreshId \in DefIds /\ FreshId \notin live
  BY <1>1, FreshIdIsNew
<1>4. FreshId \notin DomainMap!InUse
  BY <1>1, FreshIdIsNew, MappedInUse DEF Id, Built
<1>5. DomainMap!Make(FreshId)
  BY <1>1, <1>2, <1>3, <1>4 DEF DomainMap!Make
<1> QED BY <1>3, <1>5 DEF DomainMap!Next

LEMMA MappedStartCleanup ==
  ASSUME TypeOK, MapInv, StartCleanup PROVE DomainMap!Next
<1>1. /\ UNCHANGED <<apiSets, live, phase, key>> /\ key \in SliceKeys
      /\ pc # "cleanup" /\ pc' = "cleanup"
  BY DEF StartCleanup, Unchanged, TypeOK
<1>2. \A k \in SliceKeys : ServedAs(k)' = ServedAs(k)
  BY <1>1 DEF ServedAs, Built
<1>3. DomainMap!BeginReplacing(key)
  BY <1>1, <1>2 DEF DomainMap!BeginReplacing
<1> QED BY <1>1, <1>3 DEF DomainMap!Next

(* Only what is built has a context to cancel.                             *)
LEMMA MappedTearDown ==
  ASSUME TypeOK, MapInv, NEW g \in todo, TearDown(g)
  PROVE  DomainMap!Next \/ UNCHANGED DomainMap!vars
<1> DEFINE d == oldSet[g]
<1>1. /\ UNCHANGED <<apiSets, phase, pc, key>> /\ live' = live \ {d.id} /\ pc = "cleanup"
      /\ key \in SliceKeys /\ g \in GVRs /\ d.id # Nil
  BY DEF TearDown, Unchanged, TypeOK
<1>2. d # NoDef
  BY <1>1 DEF MapInv, CleanupSpares, Replaces
<1>3. apiSets[key] # NoSet /\ d = apiSets[key][g] /\ d \in Def
  BY <1>1, <1>2, EmptySetIsEmpty DEF oldSet, TypeOK, DefSet
<1>4. \A k \in SliceKeys : ServedAs(k)' = ServedAs(k)
  BY <1>1 DEF ServedAs, Built
<1>5. CASE Built(d)
  <2>1. d.id \in DomainMap!Served(key)
    BY <1>1, <1>3, <1>5, MappedServed
  <2>2. d.id \in DefIds /\ key # NoKey
    BY <1>1, <1>3, SentinelAssumption DEF Def
  <2>3. DomainMap!Revoke(d.id)
    BY <1>1, <1>4, <2>1, <2>2 DEF DomainMap!Revoke
  <2> QED BY <2>2, <2>3 DEF DomainMap!Next
<1>6. CASE ~Built(d)
  <2>1. d.id \notin live
    BY <1>1, <1>2, <1>3, <1>6 DEF MapInv, SetsSound, Sound
  <2>2. live' = live
    BY <1>1, <2>1
  <2> QED BY <1>1, <2>2, MappedStutter
<1> QED BY <1>5, <1>6

LEMMA MappedStore ==
  ASSUME TypeOK, MapInv, Store, NEW k \in SliceKeys, k = key PROVE DomainMap!Next
<1> DEFINE new == ServedAs(k)'
<1>1. /\ pc = "cleanup" /\ pc' = "idle" /\ UNCHANGED <<live, phase>>
      /\ apiSets'[k] = newSet /\ \A j \in SliceKeys : j # k => apiSets'[j] = apiSets[j]
      /\ newSet # NoSet
  BY SentinelAssumption DEF Store, ResetLocals, Unchanged, TypeOK
<1>2. \A j \in SliceKeys : j # k => ServedAs(j)' = ServedAs(j)
  BY <1>1 DEF ServedAs, Built
<1>3. /\ new \in [GVRs -> DefIds \cup {NoDef}]
      /\ \A g \in GVRs : new[g] # NoDef =>
           Built(newSet[g]) /\ new[g] = newSet[g].id /\ new[g] # Nil
  <2>1. new = [g \in GVRs |-> IF Built(newSet[g]) THEN newSet[g].id ELSE NoDef]
    BY <1>1 DEF ServedAs, Built
  <2>2. \A g \in GVRs : Built(newSet[g]) => newSet[g].id \in DefIds
    BY DEF TypeOK, DefSet, Def, MapInv, SetsSound, Sound, Built
  <2> QED BY <2>1, <2>2, SentinelAssumption
<1>4. ASSUME NEW g \in GVRs, new[g] # NoDef
      PROVE  /\ new[g] \notin DomainMap!InUse
                \/ (ServedAs(k) # NoSet /\ new[g] = ServedAs(k)[g])
             /\ new[g] \in live \/ phase # "running"
             /\ \A h \in GVRs : new[g] = new[h] => g = h
  <2>1. Built(newSet[g]) /\ new[g] = newSet[g].id /\ Id(newSet[g]) = new[g] /\ new[g] # Nil
    BY <1>3, <1>4 DEF Id, Built
  <2>2. ASSUME new[g] \in DomainMap!InUse
        PROVE  ServedAs(k) # NoSet /\ new[g] = ServedAs(k)[g]
    <3>1. PICK j \in SliceKeys, h \in GVRs :
            apiSets[j] # NoSet /\ Built(apiSets[j][h]) /\ apiSets[j][h].id = new[g]
      BY <2>2, MappedInUse
    <3>2. j = k /\ h = g
      BY <2>1, <3>1 DEF MapInv, NewSetOwned, Id, Built
    <3> QED BY <3>1, <3>2, ServedAsIs
  <2>3. new[g] \in live \/ phase # "running"
    BY <2>1 DEF MapInv, NewSetLive
  <2>4. \A h \in GVRs : new[g] = new[h] => g = h
    BY <1>3, <1>4, <2>1 DEF MapInv, NewSetOwned, Id, Built
  <2> QED BY <2>2, <2>3, <2>4
<1>5. k # NoKey
  BY SentinelAssumption
<1>6. DomainMap!Replace(k)
  BY <1>1, <1>2, <1>3, <1>4, <1>5 DEF DomainMap!Replace, DomainMap!DefinitionSet
<1> QED BY <1>6 DEF DomainMap!Next

LEMMA MappedDrop == ASSUME TypeOK, Drop PROVE DomainMap!Next
<1>1. /\ key \in SliceKeys /\ pc = "drop" /\ pc' = "idle" /\ UNCHANGED <<live, phase>>
      /\ apiSets'[key] = NoSet /\ \A k \in SliceKeys : k # key => apiSets'[k] = apiSets[k]
  BY DEF Drop, ResetLocals, Unchanged, TypeOK
<1>2. \A k \in SliceKeys : ServedAs(k)' = IF k = key THEN NoSet ELSE ServedAs(k)
  BY <1>1 DEF ServedAs, Built
<1>3. DomainMap!Withdraw(key)
  BY <1>1, <1>2 DEF DomainMap!Withdraw
<1> QED BY <1>1, <1>3 DEF DomainMap!Next

(* Start cancels everything served; the definitions not built from schemas *)
(* have nothing to cancel.                                                 *)
LEMMA MappedStop == ASSUME TypeOK, MapInv, StopTearDown PROVE DomainMap!Next
<1>1. /\ UNCHANGED <<apiSets, pc, key>> /\ live' = live \ ServedIds
      /\ phase = "running" /\ phase' = "tornDown"
  BY DEF StopTearDown, locals
<1>2. \A k \in SliceKeys : ServedAs(k)' = ServedAs(k)
  BY <1>1 DEF ServedAs, Built
<1>3. ASSUME NEW d \in live PROVE d \in ServedIds <=> d \in DomainMap!InUse
  <2>1. ASSUME NEW k \in SliceKeys, apiSets[k] # NoSet, NEW g \in GVRs, apiSets[k][g] # NoDef,
               apiSets[k][g].id = d
        PROVE  Built(apiSets[k][g])
    BY <1>3, <2>1 DEF MapInv, SetsSound, Sound
  <2>2. d \in ServedIds <=> \E k \in SliceKeys, g \in GVRs :
          apiSets[k] # NoSet /\ apiSets[k][g] # NoDef /\ apiSets[k][g].id = d
    BY DEF ServedIds, IdsOf
  <2> QED BY <2>1, <2>2, MappedInUse DEF Built
<1>4. live' = live \ DomainMap!InUse
  BY <1>1, <1>3
<1>5. DomainMap!Stop
  BY <1>1, <1>2, <1>4 DEF DomainMap!Stop
<1> QED BY <1>5 DEF DomainMap!Next

LEMMA MappedStep ==
  TypeOK /\ MapInv /\ [Next]_vars => [DomainMap!Next]_(DomainMap!vars)
<1> SUFFICES ASSUME TypeOK, MapInv, [Next]_vars
             PROVE  DomainMap!Next \/ UNCHANGED DomainMap!vars
  OBVIOUS
<1>1. Crash \/ (\E n \in pending : DeliverTombstone(n)) \/ StopPanics
      \/ (\E g \in todo : TearDownNil(g)) => DomainMap!Next
  BY MappedRestart DEF Crash, DeliverTombstone, StopPanics, TearDownNil
<1>2. (\E t \in todo : Create(t)) \/ StartCleanup \/ Store \/ Drop \/ StopTearDown
        => DomainMap!Next
  <2>1. Store => key \in SliceKeys
    BY DEF Store, TypeOK
  <2> QED BY <2>1, MappedCreate, MappedStartCleanup, MappedStore, MappedDrop, MappedStop
<1>3. (\E g \in todo : TearDown(g)) => DomainMap!Next \/ UNCHANGED DomainMap!vars
  BY MappedTearDown
<1> QED BY <1>1, <1>2, <1>3, StutteringSteps DEF Next, Environment, Informers, Worker

(* The controller implements the abstract map of domains, step by step:    *)
(* whoever uses the map may rely on ServedDomains and on nothing else.     *)
THEOREM Implementation == Spec => ImplementsDomainMap
<1>1. TypeOK /\ MapInv /\ [Next]_vars => [DomainMap!Next]_(DomainMap!vars)
  BY MappedStep
<1> QED BY <1>1, MappedInit, TypeCorrect, MapInvAlways, PTL
        DEF Spec, ImplementsDomainMap, DomainMap!Spec
-----------------------------------------------------------------------------
(* What stays is kept.  reconcile makes a definition only where the old    *)
(* set has none of the same schema and identity.                           *)
NewSetKept ==
  \A g \in GVRs :
    /\ Built(oldSet[g]) /\ Built(newSet[g])
    /\ oldSet[g].uid = newSet[g].uid /\ oldSet[g].owner = newSet[g].owner
    => newSet[g] = oldSet[g]

LEMMA NothingNew == newSet' = EmptySet => NewSetKept'
BY EmptySetIsEmpty DEF NewSetKept, Built

LEMMA StepKept == TypeOK /\ MapInv /\ NewSetKept /\ [Next]_vars => NewSetKept'
<1> SUFFICES ASSUME TypeOK, MapInv, NewSetKept PROVE [Next]_vars => NewSetKept'
  OBVIOUS
<1>1. UNCHANGED <<key, newSet, apiSets>> => NewSetKept'
  BY DEF NewSetKept, oldSet, Built
<1>2. Crash \/ (\E n \in pending : DeliverTombstone(n)) \/ StopPanics
      \/ (\E g \in todo : TearDownNil(g)) => NewSetKept'
  BY NothingNew DEF Crash, DeliverTombstone, StopPanics, TearDownNil, Restart, ResetLocals
<1>3. Drop \/ Store \/ (\E t \in todo : SelectorError(t)) \/ (\E k \in SliceKeys : Get(k))
        => NewSetKept'
  BY NothingNew DEF Drop, Store, SelectorError, ResetLocals, Get, MapInv, NewSetCleared
<1>4. Environment \/ Informers \/ Resync \/ (\E k \in SliceKeys : RateLimited(k))
      \/ StopTearDown \/ QueueShutDown \/ UNCHANGED vars => NewSetKept'
  BY <1>1, <1>2 DEF Environment, SetSlice, SetExport, SetSchema, Informers, Deliver, Resync,
     RateLimited, StopTearDown, QueueShutDown, vars, locals
<1>5. GetSlice \/ GetExport \/ Resolve \/ StartBuild \/ StartFallback
      \/ StartCleanup \/ (\E t \in todo : CreateFails(t) \/ TearDown(t)) => NewSetKept'
  BY <1>1, ResolveFrame DEF GetSlice, GetExport, StartBuild, StartFallback,
     StartCleanup, CreateFails, TearDown
<1>6. ASSUME NEW g \in GVRs, NEW d, newSet' = [newSet EXCEPT ![g] = d],
             UNCHANGED <<key, apiSets>>,
             Built(oldSet[g]) /\ Built(d) /\ oldSet[g].uid = d.uid /\ oldSet[g].owner = d.owner
               => d = oldSet[g]
      PROVE  NewSetKept'
  <2>1. newSet'[g] = d /\ \A h \in GVRs : h # g => newSet'[h] = newSet[h]
    BY <1>6 DEF TypeOK, DefSet
  <2>2. oldSet' = oldSet
    BY <1>6 DEF oldSet
  <2> QED BY <1>6, <2>1, <2>2 DEF NewSetKept, Built
<1>7. ASSUME NEW t \in todo, Preserve(t) PROVE NewSetKept'
  BY <1>6, <1>7, GVROfType DEF Preserve
<1>8. ASSUME NEW t \in todo, Create(t) PROVE NewSetKept'
  <2>1. GVROf(t) \in GVRs
    BY <1>8, GVROfType DEF Create
  <2>2. PICK d : /\ newSet' = [newSet EXCEPT ![GVROf(t)] = d]
                 /\ d.uid = schemas[t[1]].uid /\ d.owner = export.identity
    BY <1>8, CreatedDef
  <2>3. ~MayPreserve(t) /\ UNCHANGED <<key, apiSets>>
    BY <1>8 DEF Create
  <2> QED BY <1>6, <2>1, <2>2, <2>3 DEF MayPreserve, Built
<1>9. ASSUME NEW g \in todo, Fallback(g) \/ FallbackFails(g) PROVE NewSetKept'
  <2>1. \A i : ~Built(FallbackDef(i))
    BY DEF FallbackDef, Built
  <2>2. g \in GVRs
    BY DEF TypeOK
  <2> QED BY <1>6, <1>9, <2>1, <2>2 DEF Fallback, FallbackFails
<1> QED BY <1>2, <1>3, <1>4, <1>5, <1>7, <1>8, <1>9 DEF Next, Worker

(* A definition whose schema and identity stay the same outlives every     *)
(* pass of the worker, whatever else changes: the watches on it go on.     *)
THEOREM WatchesGoOn == Spec => StableDefinitions
<1>1. Init => NewSetKept
  BY EmptySetIsEmpty DEF Init, NewSetKept, Built
<1>2. TypeOK /\ MapInv /\ NewSetKept /\ [Next]_vars => NewSetKept'
  BY StepKept
<1>3. Spec => []NewSetKept
  BY <1>1, <1>2, TypeCorrect, MapInvAlways, PTL DEF Spec
<1> DEFINE Kept == \A k \in SliceKeys : apiSets[k] # NoSet /\ apiSets'[k] # NoSet =>
       \A g \in GVRs :
         LET old == apiSets[k][g]
             new == apiSets'[k][g]
         IN  Built(old) /\ Built(new) /\ old.uid = new.uid /\ old.owner = new.owner
               => old = new
<1>4. TypeOK /\ NewSetKept /\ [Next]_vars => [Kept]_vars
  <2> SUFFICES ASSUME TypeOK, NewSetKept, [Next]_vars, NEW k \in SliceKeys,
                      apiSets[k] # NoSet, apiSets'[k] # NoSet, apiSets'[k] # apiSets[k]
               PROVE  k = key /\ oldSet = apiSets[k] /\ apiSets'[k] = newSet
    BY DEF NewSetKept
  <2>1. ~Restart /\ ~Drop
    BY DEF Restart, Drop, TypeOK
  <2>2. Store
    BY <2>1, ResolveFrame
       DEF Next, Environment, SetSlice, SetExport, SetSchema, Crash, Informers, Deliver,
       DeliverTombstone, Resync, RateLimited, Get, Worker, GetSlice, GetExport, StartBuild, Preserve, Create, CreateFails, SelectorError, StartFallback,
       Fallback, FallbackFails, StartCleanup, TearDown, TearDownNil, StopTearDown, StopPanics,
       QueueShutDown, vars
  <2> QED BY <2>2 DEF Store, TypeOK, oldSet
<1> QED BY <1>3, <1>4, TypeCorrect, PTL DEF Spec, StableDefinitions
=============================================================================
