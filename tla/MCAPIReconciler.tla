-------------------------- MODULE MCAPIReconciler --------------------------
(***************************************************************************)
(* Small instances of APIReconciler: the catalogs of objects each cluster  *)
(* may hold, by scenario.  "c" is the consumer-facing cluster the slices   *)
(* live in, "p" a provider of claimed resources.                           *)
(***************************************************************************)
EXTENDS APIReconciler, TLC

Only(keys, held) == [k \in keys |-> IF k \in DOMAIN held THEN held[k] ELSE {None}]
Slices(held)  == Only(SliceKeys, held)
Exports(held) == Only(ExportKeys, held)
SchemasAt(held) == Only(SchemaKeys, held)

NoInternal == [g \in {} |-> None]
NoOrder == {}

OwnGRs == {"widgets", "apibindings", "slices"}
TwoOwnGRs == OwnGRs \cup {"gadgets"}

Widget(u) == [uid |-> u, gr |-> "widgets", served |-> {"v1"}]
Gadget(u) == [uid |-> u, gr |-> "gadgets", served |-> {"v1"}]
SliceOf(path, sel) == [path |-> path, name |-> "e", selector |-> sel]
ExportOf(i, resources, cs) == [identity |-> i, resources |-> resources, claims |-> cs]

CS == <<"c", "s">>
CT == <<"c", "t">>
CE == <<"c", "e">>
CH == <<"c", "h">>

(* Lifecycle: a slice, its export gaining, changing and losing its         *)
(* identity, and the schemas of its two resources, which reconcile reads   *)
(* one after the other, deleted and created again.                         *)
OwnExport ==
  Exports(CE :> {ExportOf(i, <<"h", "k">>, <<>>) : i \in {"i1", "i2", NoIdentity}} \cup {None})
OwnSchemaObjects ==
  SchemasAt(CH :> {Widget("u1"), Widget("u2"), None} @@ <<"c", "k">> :> {Gadget("u1"), None})

(* with a selector the conversion rejects                                  *)
GoodOrBadSlice == Slices(CS :> {SliceOf("c", "prod"), SliceOf("c", "bad"), None})

(* Faults: two slices of one export that stay as they are.                 *)
TwoSlices == Slices(CS :> {SliceOf("c", "prod"), None} @@ CT :> {SliceOf("c", "prod")})
FixedExport == Exports(CE :> {ExportOf("i1", <<"h">>, <<>>)})
FixedSchema == SchemasAt(CH :> {Widget("u1")})

(* Claims: the export of cluster c claims the gadgets of cluster p, whose  *)
(* own export has a slice too.                                             *)
ClaimGRs == {"gadgets", "apibindings", "slices"}
BindingsSchema == [uid |-> NoUID, gr |-> "apibindings", served |-> {"v1"}]
InternalBindings == "apibindings" :> BindingsSchema
ClaimGadgets  == [gr |-> "gadgets", identity |-> "i2"]
ClaimBindings == [gr |-> "apibindings", identity |-> NoIdentity]

ClaimerAndOwnerSlices ==
  Slices(CS :> {SliceOf("c", "prod")} @@ <<"p", "s">> :> {SliceOf("p", "prod"), None})
ClaimerSlice == Slices(CS :> {SliceOf("c", "prod")})
ClaimingExports ==
  Exports(CE :> {ExportOf("i1", <<>>, cs) : cs \in {<<ClaimGadgets, ClaimBindings>>, <<>>}}
          @@ <<"p", "e">> :> {ExportOf("i2", <<"h">>, <<>>)})
FixedClaimingExports ==
  Exports(CE :> {ExportOf("i1", <<>>, <<ClaimGadgets, ClaimBindings>>)}
          @@ <<"p", "e">> :> {ExportOf("i2", <<"h">>, <<>>)})
GadgetSchema == SchemasAt(<<"p", "h">> :> {Gadget("u1"), Gadget("u2"), None})

(* Divergences.                                                            *)
TwoSelectors == Slices(CS :> {SliceOf("c", "prod"), SliceOf("c", "dev"), None})
OtherClusterSlice == Slices(CS :> {SliceOf("p", "prod")})
ExportsInBoth ==
  Exports(CE :> {ExportOf("i1", <<"h">>, <<>>)} @@ <<"p", "e">> :> {ExportOf("i2", <<>>, <<>>)})
TwoOwners ==
  Exports(CE :> {ExportOf("i1", <<>>, <<ClaimGadgets>>)}
          @@ <<"p", "e">> :> {ExportOf("i2", <<"h">>, <<>>)}
          @@ <<"p", "f">> :> {ExportOf("i2", <<"k">>, <<>>)})
TwoGadgetSchemas == SchemasAt(<<"p", "h">> :> {Gadget("u1")} @@ <<"p", "k">> :> {Gadget("u2")})
ClustersAscend == {<<"c", "p">>}
NamesAscend == {<<"e", "f">>}
=============================================================================
