-------------------------- MODULE MCEndpointSlice --------------------------
(***************************************************************************)
(* Small instances of EndpointSliceController.  Slices live in cluster     *)
(* "c"; "p" is a second cluster; "root:x" is a workspace path.             *)
(***************************************************************************)
EXTENDS EndpointSliceController, TLC

Only(keys, map) == [k \in keys |-> IF k \in DOMAIN map THEN map[k] ELSE {None}]

Ref(p) == [path |-> p, name |-> "e"]
At(p) == [path |-> p]
CS == <<"c", "s">>
CE == <<"c", "e">>
PE == <<"p", "e">>

(* A slice that refers to its own cluster, or to a workspace path.         *)
OneSlice == Only(SliceKeys, CS :> {Ref(NoPath), Ref("root:x"), None})

(* The exports come and go; both may be found under one path, as when a    *)
(* workspace was deleted and created again.                                *)
BothExports == Only(ExportKeys, CE :> {At("root:x"), None} @@ PE :> {At("root:x"), None})

(* An export may get its path after it was created.                        *)
PathAddedLater == Only(ExportKeys, PE :> {At(NoPath), At("root:x"), None})

(* The workers are interchangeable.                                        *)
WorkerSymmetry == Permutations(Workers)
=============================================================================
