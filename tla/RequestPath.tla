----------------------------- MODULE RequestPath -----------------------------
(***************************************************************************)
(* A request on its way through the virtual workspace: its URL is digested *)
(* (builder/build.go), three authorizers decide in a chain (authorizer/),  *)
(* a storage is picked (builder/forwarding.go), and a write is admitted    *)
(* and validated (admission/selector.go).  Each of them reads slices,      *)
(* exports and bindings from caches of different clusters, one lister call *)
(* at a time, while informers change the caches under it.                  *)
(***************************************************************************)
EXTENDS Naturals, Sequences

CONSTANTS
  Wildcard,       \* the path "*"
  Names,          \* path segments that are names of logical clusters
  Urls,           \* what may follow the root path, split at "/"
  Asked,          \* what may be asked: verb, resource, status, labels
  APIBindings,    \* the resource apibindings.apis.kcp.io
  WithStatus,     \* resources with a status subresource
  NoResource,     \* the resource of a non-resource request
  InitialCaches,  \* what the caches may hold at first
  SliceValues,    \* key of an object -> what the cache may hold there
  ExportValues,
  BindingValues,
  NoObject,       \* no object in the cache, or none read
  MaxChanges      \* bound on changes of the caches

(* Each cache holds, or lacks, what it may.                                *)
Held(cache, values) ==
  DOMAIN cache = DOMAIN values /\ \A k \in DOMAIN values : cache[k] \in values[k] \cup {NoObject}

ASSUME RequestAssumption ==
  /\ Wildcard \notin Names /\ NoResource # APIBindings /\ MaxChanges \in Nat
  /\ \A c \in InitialCaches : /\ Held(c.slices, SliceValues) /\ Held(c.exports, ExportValues)
                              /\ Held(c.bindings, BindingValues)

VARIABLES
  slices, exports, bindings,  \* the caches
  changes,                    \* how often they have changed
  at,                         \* what the request does next
  last,                       \* what it did last
  request,                    \* what is asked, for which cluster and domain
  labels,                     \* labels of the object it carries
  slice, export,              \* objects a handler has read
  policies,                   \* exports whose policy is still to be asked
  granted,                    \* what access reviews have allowed
  client,                     \* as whom the storage forwards it
  past                        \* the caches as they were since it arrived

caches == <<slices, exports, bindings, changes>>
vars   == <<caches, at, last, request, labels, slice, export, policies, granted, client, past>>

Caches == [slices |-> slices, exports |-> exports, bindings |-> bindings]

NoClient  == [user |-> "nobody", warrants |-> {}]
NoLabels  == [l \in {} |-> ""]
NoRequest == [verb |-> "none", resource |-> NoResource, status |-> FALSE,
              target |-> Wildcard, domain |-> <<>>]

Init ==
  /\ \E c \in InitialCaches : slices = c.slices /\ exports = c.exports /\ bindings = c.bindings
  /\ changes = 0
  /\ at = "idle" /\ last = "idle" /\ request = NoRequest /\ labels = NoLabels
  /\ slice = NoObject /\ export = NoObject /\ policies = {}
  /\ granted = {} /\ client = NoClient /\ past = {}

-----------------------------------------------------------------------------
(* digestUrl: <slice's cluster>/<slice>/clusters/<target>/...              *)

Accepted(u) ==
  /\ Len(u) >= 4
  /\ u[1] # "" /\ u[2] # "" /\ u[3] = "clusters"
  /\ u[4] \in Names \cup {Wildcard}

(* The root path resolver puts cluster and domain key into the context.    *)
Arrive ==
  /\ at = "idle"
  /\ \E u \in Urls, a \in Asked :
       /\ Accepted(u)
       /\ request' = [verb |-> a.verb, resource |-> a.resource, status |-> a.status,
                      target |-> u[4], domain |-> <<u[1], u[2]>>]
       /\ labels' = a.labels
  /\ at' = "authorize" /\ last' = "idle"
  /\ past' = {Caches}
  /\ UNCHANGED <<caches, slice, export, policies, granted, client>>

-----------------------------------------------------------------------------
(* Steps.                                                                  *)

InOneCluster == request.target # Wildcard /\ request.resource # NoResource

Goto(step) == last' = at /\ at' = step
Stays == UNCHANGED <<caches, request, past>> /\ (at # "forward" => client' = client)
Refuse == Goto("refused") /\ UNCHANGED <<labels, slice, export, policies, granted>>

(* A lister call for the slice of the domain, or the export it refers to.  *)
ReadSlice(step, next) ==
  /\ at = step /\ Stays
  /\ \/ slices[request.domain] = NoObject /\ Refuse
     \/ /\ slices[request.domain] # NoObject
        /\ Goto(next)
        /\ slice' = slices[request.domain]
        /\ UNCHANGED <<labels, export, policies, granted>>

ExportKey == <<slice.path, slice.name>>
Cached(k) == k \in DOMAIN exports /\ exports[k] # NoObject

ReadExport(step, next) ==
  /\ at = step /\ Stays
  /\ \/ ~Cached(ExportKey) /\ Refuse
     \/ /\ Cached(ExportKey)
        /\ Goto(next)
        /\ export' = exports[ExportKey]
        /\ UNCHANGED <<labels, slice, policies, granted>>

(* getAPIBindingByExport: the first one listed, in no particular order.    *)
BindingsByExport ==
  {bindings[k] : k \in {k \in DOMAIN bindings :
     /\ bindings[k] # NoObject
     /\ k[1] = request.target
     /\ bindings[k].name = slice.name /\ bindings[k].exportCluster = slice.path}}

(* The claim a binding makes use of for the requested resource.            *)
Accepts(b) == request.resource \in DOMAIN b.claims /\ b.claims[request.resource].accepted
Binds(b)   == request.resource \in b.bound

-----------------------------------------------------------------------------
(* boundAPIAuthorizer.                                                     *)

(* Mutant: claims that the consumer has not accepted count, too.           *)
UsableUnaccepted(b) ==
  /\ request.resource \in DOMAIN b.claims /\ request.resource \in DOMAIN export.claims
  /\ b.claims[request.resource].verbs \cap {request.verb, "*"} # {}

(* An accepted claim that grants the verb, on both sides.                  *)
Usable(b) ==
  /\ Accepts(b)
  /\ request.resource \in DOMAIN export.claims
  /\ LET own == b.claims[request.resource]
         asked == export.claims[request.resource]
     IN /\ own.identity = asked.identity
        /\ own.verbs \cap asked.verbs \cap {request.verb, "*"} # {}

ReadOnlyVerbs == {"get", "list", "watch"}

MayUse(b) ==
  \/ Binds(b)
  \/ Usable(b)
  \/ request.resource = APIBindings /\ request.verb \in ReadOnlyVerbs

SkipBinding ==
  /\ at = "authorize" /\ ~InOneCluster /\ Stays
  /\ Goto("content") /\ UNCHANGED <<labels, slice, export, policies, granted>>

AuthorizeSlice  == InOneCluster /\ ReadSlice("authorize", "boundExport")
AuthorizeExport == ReadExport("boundExport", "boundBinding")

AuthorizeBinding ==
  /\ at = "boundBinding" /\ Stays
  /\ \/ BindingsByExport = {} /\ Refuse
     \/ \E b \in BindingsByExport :
          \/ ~MayUse(b) /\ Refuse
          \/ MayUse(b) /\ Goto("content") /\ UNCHANGED <<labels, slice, export, policies, granted>>

-----------------------------------------------------------------------------
(* filteredAPIExportsContentAuthorizer, and what an access review is:      *)
(* an answer of the API server about a user in a cluster.                  *)

Review(cluster, user, resource, next) ==
  \/ /\ Goto(next)
     /\ granted' = granted \cup {[cluster |-> cluster, user |-> user, resource |-> resource]}
  \/ Goto("refused") /\ UNCHANGED granted

AuthorizeContent ==
  /\ at = "content" /\ Stays
  /\ Review(request.domain[1], "user", "content", "maximalSlice")
  /\ UNCHANGED <<labels, slice, export, policies>>

-----------------------------------------------------------------------------
(* maximalPermissionAuthorizer.                                            *)

MaximalSlice  == ReadSlice("maximalSlice", "maximalExport")
MaximalExport == ReadExport("maximalExport", "claimed")

(* getClaimedIdentity: "" for a resource that is not claimed, and for a    *)
(* built-in one.  Neither has a policy.                                    *)
ClaimedIdentity ==
  IF request.resource \in DOMAIN export.claims THEN export.claims[request.resource].identity ELSE ""

NoPolicy ==
  /\ at = "claimed" /\ Stays
  /\ ClaimedIdentity = ""
  /\ Goto("storage") /\ UNCHANGED <<labels, slice, export, policies, granted>>

(* Mutant: one of the exports stands for all of them.                      *)
AnyWithPolicy(ks) == {CHOOSE k \in ks : TRUE} \cap {k \in ks : exports[k].policy}

WithPolicy(ks) == {k \in ks : exports[k].policy}

(* getAPIExportsByIdentity.                                                *)
Providers(identity) ==
  {k \in DOMAIN exports : exports[k] # NoObject /\ exports[k].identity = identity}

FindPolicies ==
  /\ at = "claimed" /\ Stays
  /\ ClaimedIdentity # ""
  /\ LET ks == Providers(ClaimedIdentity)
     IN \/ ks = {} /\ Refuse
        \/ /\ ks # {}
           /\ policies' = WithPolicy(ks)
           /\ Goto("policies") /\ UNCHANGED <<labels, slice, export, granted>>

(* prefixAttributes: the policies of an export name users with a prefix.   *)
AskPolicy ==
  /\ at = "policies" /\ Stays
  /\ \E k \in policies :
       /\ Review(k[1], "prefixed", request.resource, "policies")
       /\ policies' = policies \ {k}
  /\ UNCHANGED <<labels, slice, export>>

(* Mutant: the first policy that grants access ends the loop.              *)
FirstPolicyGranted ==
  /\ at = "policies" /\ granted # {} /\ Stays
  /\ Goto("storage") /\ UNCHANGED <<labels, slice, export, policies, granted>>

PoliciesGranted ==
  /\ at = "policies" /\ policies = {} /\ Stays
  /\ Goto("storage") /\ UNCHANGED <<labels, slice, export, policies, granted>>

-----------------------------------------------------------------------------
(* The storage of the resource: provideDelegatingRestStorage, or for       *)
(* apibindings that no claim has brought in the read-only one of           *)
(* provideAPIExportFilteredRestStorage.  (Which of the two the domain      *)
(* serves may lag behind the claims, see APIReconciler.)                   *)

MainVerbs == ReadOnlyVerbs \cup {"create", "update", "patch", "delete", "deletecollection"}
StatusVerbs == {"get", "update", "patch"}

Storages ==
  {IF ~request.status THEN MainVerbs
   ELSE IF request.resource \in WithStatus THEN StatusVerbs ELSE {}}
  \cup IF request.resource = APIBindings THEN {ReadOnlyVerbs} ELSE {}

Deletes == {"delete", "deletecollection"}

FindStorage ==
  /\ at = "storage" /\ Stays
  /\ \E verbs \in Storages :
       \/ request.verb \notin verbs /\ request.resource # NoResource /\ Refuse
       \/ /\ request.verb \in verbs \/ request.resource = NoResource
          /\ Goto(IF request.resource = NoResource THEN "served"
                  ELSE IF ~InOneCluster \/ request.verb \in ReadOnlyVerbs THEN "forward"
                  ELSE IF request.verb \in Deletes THEN "validate" ELSE "admit")
          /\ UNCHANGED <<labels, slice, export, policies, granted>>

-----------------------------------------------------------------------------
(* Selectors and labels.                                                   *)

Matches(selector, ls) ==
  /\ \A l \in DOMAIN selector.labels : l \in DOMAIN ls /\ ls[l] = selector.labels[l]
  /\ selector.exists \subseteq DOMAIN ls

Agree(f, g) == \A l \in DOMAIN f \cap DOMAIN g : f[l] = g[l]
Merge(f, g) == [l \in DOMAIN f \cup DOMAIN g |-> IF l \in DOMAIN f THEN f[l] ELSE g[l]]

(* selectorAdmission.Admit.                                                *)

AdmitSlice == ReadSlice("admit", "admitBinding")

(* Mutant: only the labels of the slice are applied.                       *)
NoLabelsOfBinding(b) == NoLabels

LabelsOfBinding(b) ==
  IF Binds(b) \/ b.claims[request.resource].matchAll THEN NoLabels
  ELSE b.claims[request.resource].selector.labels

AdmitBinding ==
  /\ at = "admitBinding" /\ Stays
  /\ \/ BindingsByExport = {} /\ Refuse
     \/ \E b \in BindingsByExport :
          \/ /\ ~Binds(b) /\ ~Accepts(b)
             /\ Goto("validate") /\ UNCHANGED <<labels, slice, export, policies, granted>>
          \/ /\ Binds(b) \/ Accepts(b)
             /\ LET toApply == Merge(slice.selector.labels, LabelsOfBinding(b))
                IN \/ /\ ~ (/\ Agree(slice.selector.labels, LabelsOfBinding(b))
                            /\ Agree(labels, toApply))
                      /\ Refuse
                   \/ /\ Agree(slice.selector.labels, LabelsOfBinding(b))
                      /\ Agree(labels, toApply)
                      /\ labels' = Merge(labels, toApply)
                      /\ Goto("validate") /\ UNCHANGED <<slice, export, policies, granted>>

-----------------------------------------------------------------------------
(* selectorAdmission.Validate.                                             *)

(* Mutant: Validate trusts what Admit has made of the object.              *)
FitsAny(selector) == selector.valid

Fits(selector) == selector.valid /\ Matches(selector, labels)

ValidateSlice == ReadSlice("validate", "validateSelector")

ValidateSelector ==
  /\ at = "validateSelector" /\ Stays
  /\ \/ ~Fits(slice.selector) /\ Refuse
     \/ /\ Fits(slice.selector)
        /\ Goto("validateBinding") /\ UNCHANGED <<labels, slice, export, policies, granted>>

(* Mutant: selectors of claims are not looked at.                          *)
PermitsAll(b) == TRUE

Permits(b) ==
  \/ Binds(b)
  \/ Accepts(b) => \/ b.claims[request.resource].matchAll
                   \/ Fits(b.claims[request.resource].selector)

ValidateBinding ==
  /\ at = "validateBinding" /\ Stays
  /\ \/ BindingsByExport = {} /\ Refuse
     \/ \E b \in BindingsByExport :
          \/ ~Permits(b) /\ Refuse
          \/ Permits(b) /\ Goto("forward") /\ UNCHANGED <<labels, slice, export, policies, granted>>

-----------------------------------------------------------------------------
(* impersonatedDynamicClientGetter: the storage forwards the request in    *)
(* the name of its user, with a warrant for the one cluster; a request for *)
(* all clusters cannot be impersonated.  The server behind may refuse it.  *)

Client ==
  IF request.target = Wildcard THEN [user |-> "privileged", warrants |-> {}]
  ELSE [user |-> "user", warrants |-> {request.target}]

Forward ==
  /\ at = "forward" /\ Stays
  /\ client' = Client
  /\ \/ Goto("served") /\ UNCHANGED <<labels, slice, export, policies, granted>>
     \/ Refuse

(* The answer, and the next request.                                       *)
Answer ==
  /\ at \in {"served", "refused"}
  /\ at' = "idle" /\ last' = "idle" /\ request' = NoRequest /\ labels' = NoLabels
  /\ slice' = NoObject /\ export' = NoObject /\ policies' = {} /\ granted' = {}
  /\ client' = NoClient /\ past' = {}
  /\ UNCHANGED caches

(* Informers.                                                              *)
Remember == past' = IF at = "idle" THEN {} ELSE past \cup {Caches'}
Rest == UNCHANGED <<at, last, request, labels, slice, export, policies, granted, client>>

SetSlice ==
  /\ changes < MaxChanges /\ changes' = changes + 1
  /\ \E k \in DOMAIN SliceValues : \E v \in SliceValues[k] \ {slices[k]} :
       slices' = [slices EXCEPT ![k] = v]
  /\ UNCHANGED <<exports, bindings>> /\ Remember /\ Rest

SetExport ==
  /\ changes < MaxChanges /\ changes' = changes + 1
  /\ \E k \in DOMAIN ExportValues : \E v \in ExportValues[k] \ {exports[k]} :
       exports' = [exports EXCEPT ![k] = v]
  /\ UNCHANGED <<slices, bindings>> /\ Remember /\ Rest

SetBinding ==
  /\ changes < MaxChanges /\ changes' = changes + 1
  /\ \E k \in DOMAIN BindingValues : \E v \in BindingValues[k] \ {bindings[k]} :
       bindings' = [bindings EXCEPT ![k] = v]
  /\ UNCHANGED <<slices, exports>> /\ Remember /\ Rest

Next ==
  \/ Arrive
  \/ SkipBinding \/ AuthorizeSlice \/ AuthorizeExport \/ AuthorizeBinding
  \/ AuthorizeContent
  \/ MaximalSlice \/ MaximalExport \/ NoPolicy \/ FindPolicies \/ AskPolicy \/ PoliciesGranted
  \/ FindStorage
  \/ AdmitSlice \/ AdmitBinding
  \/ ValidateSlice \/ ValidateSelector \/ ValidateBinding
  \/ Forward \/ Answer
  \/ SetSlice \/ SetExport \/ SetBinding

Spec == Init /\ [][Next]_vars

-----------------------------------------------------------------------------
(* Correctness.  A request works on objects read at different moments, so  *)
(* what can be asked for is that each of them was in a cache at some time  *)
(* since the request arrived.                                              *)

Present(c) == {k \in DOMAIN c : c[k] # NoObject}

Places ==
  {"idle", "authorize", "boundExport", "boundBinding", "content", "maximalSlice", "maximalExport",
   "claimed", "policies", "storage", "admit", "admitBinding", "validate", "validateSelector",
   "validateBinding", "forward", "served", "refused"}

(* Every variable holds a value of its type; what a handler has read was   *)
(* in a cache while the request was under way.                             *)
TypeOK ==
  /\ Held(slices, SliceValues) /\ Held(exports, ExportValues) /\ Held(bindings, BindingValues)
  /\ changes \in 0..MaxChanges
  /\ at \in Places
  /\ (at = "idle") = (past = {}) /\ (at # "idle" => Caches \in past)
  /\ request.target \in Names \cup {Wildcard}
  /\ slice # NoObject => \E c \in past : slice = c.slices[request.domain]
  /\ export # NoObject => \E c \in past : \E k \in DOMAIN c.exports : export = c.exports[k]
  /\ (client = NoClient \/ client = Client) /\ (client # NoClient => at \in {"served", "refused"})
  /\ policies \subseteq DOMAIN exports /\ (policies # {} => at \in {"policies", "refused"})

(* Slices of the domain, exports of a slice and bindings to its export in  *)
(* the target cluster that a request may have come across.                 *)
SlicesSeen == {c.slices[request.domain] : c \in past} \ {NoObject}

ExportsSeen(s) ==
  {c.exports[<<s.path, s.name>>] : c \in {c \in past : <<s.path, s.name>> \in Present(c.exports)}}

BindingsIn(c) == {c.bindings[k] : k \in {k \in Present(c.bindings) : k[1] = request.target}}

BindingsSeen(s) ==
  {b \in UNION {BindingsIn(c) : c \in past} : b.name = s.name /\ b.exportCluster = s.path}

Grants(claim) == request.verb \in claim.verbs \/ "*" \in claim.verbs

Invited ==
  \E s \in SlicesSeen : \E b \in BindingsSeen(s) :
    \/ request.resource \in b.bound
    \/ request.resource = APIBindings /\ request.verb \in {"get", "list", "watch"}
    \/ /\ request.resource \in DOMAIN b.claims
       /\ b.claims[request.resource].accepted /\ Grants(b.claims[request.resource])
       /\ \E e \in ExportsSeen(s) :
            /\ request.resource \in DOMAIN e.claims /\ Grants(e.claims[request.resource])
            /\ e.claims[request.resource].identity = b.claims[request.resource].identity

(* Authorizing: "the request is for a bound resource", or a "resource      *)
(* claim [...] has been accepted and has correct verbs" (boundAPIAuthorizer), *)
(* or it reads the bindings themselves.  A request for one cluster that is *)
(* served has been invited there by a binding to the export of its domain, *)
(* and made use of no claim that one of the two sides did not grant.       *)
UseIsGranted == at = "served" /\ InOneCluster => Invited

ContentReviewed ==
  [cluster |-> request.domain[1], user |-> "user", resource |-> "content"] \in granted

(* The policy of export k has been asked, or is in the set still.          *)
Heard(k, still) ==
  \/ [cluster |-> k[1], user |-> "prefixed", resource |-> request.resource] \in granted
  \/ k \in still

ProvidersHeard(identity, still) ==
  \E c \in past :
    LET providers == {k \in Present(c.exports) : c.exports[k].identity = identity}
    IN providers # {} /\ \A k \in providers : c.exports[k].policy => Heard(k, still)

ClaimReviewed ==
  \E s \in SlicesSeen : \E e \in ExportsSeen(s) :
    \/ request.resource \notin DOMAIN e.claims
    \/ e.claims[request.resource].identity = ""
    \/ ProvidersHeard(e.claims[request.resource].identity, {})

(* "All maximum permission policies must grant access because at this      *)
(* point no deterministic APIExport can be picked" (maximalPermission-     *)
(* Authorizer).  A request that is served was reviewed for the slice's     *)
(* content; and unless at some time of the request its export claimed the  *)
(* resource from nobody, by each policy of the exports that, at some time  *)
(* of it, provided the identity claimed.  This is all that the code can    *)
(* promise: where a claim is taken away after the binding authorizer let   *)
(* the request in on it, the export that is read next shows none, and no   *)
(* policy is asked.  Requests for all clusters at once are reviewed like   *)
(* any other, although the comment on NewMaximalPermissionAuthorizer       *)
(* exempts them.                                                           *)
PoliciesHeard == at = "served" => ContentReviewed /\ ClaimReviewed

(* The claims a binding accepts let an object with labels ls be seen.      *)
Selects(selector, ls) ==
  /\ selector.valid
  /\ \A l \in DOMAIN selector.labels : l \in DOMAIN ls /\ ls[l] = selector.labels[l]
  /\ \A l \in selector.exists : l \in DOMAIN ls

Shows(b, ls) ==
  \/ request.resource \in b.bound
  \/ request.resource \notin DOMAIN b.claims
  \/ LET claim == b.claims[request.resource]
     IN ~claim.accepted \/ claim.matchAll \/ Selects(claim.selector, ls)

Written == InOneCluster /\ request.verb \notin {"get", "list", "watch"}

Visible ==
  /\ \E s \in SlicesSeen : Selects(s.selector, labels)
  /\ \E s \in SlicesSeen : \E b \in BindingsSeen(s) : Shows(b, labels)

(* "Objects are filtered at request time based on the configured selector" *)
(* (README): whatever is created, updated or deleted in one cluster        *)
(* carries labels that the slice's selector selects, and so does the       *)
(* selector of the claim, if the binding has one to the resource, and has  *)
(* it accepted, when Validate looks; also if slice or binding change       *)
(* between Admit and Validate, which read them again.                      *)
WrittenIsVisible == at = "served" /\ Written => Visible

(* "Add labels from the label selector on objects" (NewSelectorAdmission): *)
(* unless something changes meanwhile, or the target cluster has several   *)
(* bindings to the export, any of which Admit and Validate may come upon,  *)
(* an object that Admit has labelled is refused by Validate only for what  *)
(* labels cannot be made up for: an expression, or a selector that is no   *)
(* selector.                                                               *)
OnlyLabels(selector) == selector.valid /\ selector.exists = {}

PlainlySelected ==
  \A s \in SlicesSeen :
    /\ OnlyLabels(s.selector)
    /\ \A b \in BindingsSeen(s) :
         /\ BindingsSeen(s) = {b}
         /\ \A r \in DOMAIN b.claims : OnlyLabels(b.claims[r].selector)

AdmittedIsValid ==
  ~ /\ at = "refused" /\ last \in {"validateSelector", "validateBinding"}
    /\ request.verb \notin {"delete", "deletecollection"}
    /\ past = {Caches} /\ PlainlySelected
=============================================================================
