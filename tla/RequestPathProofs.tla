-------------------------- MODULE RequestPathProofs --------------------------
(***************************************************************************)
(* Proofs about RequestPath, for every content and every change of the     *)
(* caches.  What a request has shown stays shown, since it is about what   *)
(* was in the caches at some time: each handler leaves its own evidence,   *)
(* and the steps that follow cannot take it away.                          *)
(***************************************************************************)
EXTENDS RequestPath, TLAPS

(* Where the request is not, or not yet, past the three authorizers.       *)
BeforeContent  == {"idle", "refused", "authorize", "boundExport", "boundBinding"}
BeforePolicies == BeforeContent \cup {"content"}
BeforeStorage  ==
  BeforePolicies \cup {"maximalSlice", "maximalExport", "claimed", "policies"}

(* A handler works on a slice and an export of the domain that were cached *)
(* while the request was under way.                                        *)
ReadsSeen ==
  /\ at # "idle" => Caches \in past
  /\ at \in {"boundExport", "boundBinding", "maximalExport", "claimed", "policies",
             "admitBinding", "validateSelector", "validateBinding"} => slice \in SlicesSeen
  /\ at \in {"boundBinding", "claimed", "policies"} => export \in ExportsSeen(slice)

(* What the request has shown by the time it has got so far.               *)
InvitedSoFar == InOneCluster /\ at \notin BeforeContent => Invited

ReviewedSoFar ==
  /\ at \notin BeforePolicies => ContentReviewed
  /\ at = "policies" =>
       /\ request.resource \in DOMAIN export.claims
       /\ ProvidersHeard(export.claims[request.resource].identity, policies)
  /\ at \notin BeforeStorage => ClaimReviewed

VisibleSoFar ==
  /\ at = "validateBinding" => Selects(slice.selector, labels)
  /\ at \in {"forward", "served"} /\ Written => Visible

(* The inductive invariant.                                                *)
Inv == ReadsSeen /\ InvitedSoFar /\ ReviewedSoFar /\ VisibleSoFar

-----------------------------------------------------------------------------
(* What has been in a cache stays known.                                   *)
LEMMA SeenGrows ==
  ASSUME UNCHANGED request, past \subseteq past'
  PROVE  /\ SlicesSeen \subseteq SlicesSeen'
         /\ \A s : ExportsSeen(s) \subseteq ExportsSeen(s)'
         /\ \A s : BindingsSeen(s) \subseteq BindingsSeen(s)'
BY DEF SlicesSeen, ExportsSeen, BindingsSeen, BindingsIn, Present

LEMMA EvidenceStays ==
  ASSUME UNCHANGED request, past \subseteq past', granted \subseteq granted'
  PROVE  /\ (InOneCluster' <=> InOneCluster) /\ (Written' <=> Written)
         /\ Invited => Invited'
         /\ ContentReviewed => ContentReviewed'
         /\ ClaimReviewed => ClaimReviewed'
         /\ UNCHANGED labels => (Visible => Visible')
         /\ \A i, K : ProvidersHeard(i, K) => ProvidersHeard(i, K)'
<1>1. (InOneCluster' <=> InOneCluster) /\ (Written' <=> Written)
  BY DEF InOneCluster, Written
<1>2. Invited => Invited'
  BY SeenGrows DEF Invited, Grants
<1>3. ContentReviewed => ContentReviewed'
  BY DEF ContentReviewed
<1>4. \A i, K : ProvidersHeard(i, K) => ProvidersHeard(i, K)'
  BY DEF ProvidersHeard, Heard, Present
<1>5. ClaimReviewed => ClaimReviewed'
  BY <1>4, SeenGrows DEF ClaimReviewed
<1>6. UNCHANGED labels => (Visible => Visible')
  BY SeenGrows DEF Visible, Shows, Selects
<1> QED BY <1>1, <1>2, <1>3, <1>4, <1>5, <1>6

LEMMA InitInv == Init => Inv
BY DEF Init, Inv, ReadsSeen, InvitedSoFar, ReviewedSoFar, VisibleSoFar,
       BeforeContent, BeforePolicies, BeforeStorage

(* The informers change the caches under the request.                      *)
LEMMA InformersInv == Inv /\ (SetSlice \/ SetExport \/ SetBinding) => Inv'
<1> SUFFICES ASSUME Inv, SetSlice \/ SetExport \/ SetBinding PROVE Inv'
  OBVIOUS
<1>1. Rest /\ Remember
  BY DEF SetSlice, SetExport, SetBinding
<1>2. CASE at = "idle"
  BY <1>1, <1>2 DEF Rest, Inv, ReadsSeen, InvitedSoFar, ReviewedSoFar, VisibleSoFar,
       BeforeContent, BeforePolicies, BeforeStorage
<1>3. CASE at # "idle"
  <2>1. past \subseteq past' /\ Caches' \in past' /\ UNCHANGED <<request, granted, labels>>
    BY <1>1, <1>3 DEF Rest, Remember
  <2>2. ReadsSeen'
    BY <1>1, <1>3, <2>1, SeenGrows DEF Rest, Inv, ReadsSeen
  <2>3. InvitedSoFar'
    BY <1>1, <2>1, EvidenceStays DEF Rest, Inv, InvitedSoFar
  <2>4. ReviewedSoFar'
    BY <1>1, <2>1, EvidenceStays DEF Rest, Inv, ReviewedSoFar
  <2>5. VisibleSoFar'
    BY <1>1, <2>1, EvidenceStays DEF Rest, Inv, VisibleSoFar, Selects
  <2> QED BY <2>2, <2>3, <2>4, <2>5 DEF Inv
<1> QED BY <1>2, <1>3

(* The request arrives, or has been answered, or is refused.               *)
LEMMA EndsInv ==
  ASSUME at' \in {"idle", "authorize", "refused"}, at' # "idle" => Caches' \in past'
  PROVE  Inv'
BY DEF Inv, ReadsSeen, InvitedSoFar, ReviewedSoFar, VisibleSoFar,
       BeforeContent, BeforePolicies, BeforeStorage

LEMMA ArriveAnswerInv == Arrive \/ Answer => Inv'
BY EndsInv DEF Arrive, Answer, Caches, caches

LEMMA RefuseInv == Inv /\ Stays /\ Refuse /\ at # "idle" => Inv'
BY EndsInv DEF Stays, Refuse, Goto, Caches, caches, Inv, ReadsSeen

(* An object read now is one that has been cached.                         *)
LEMMA ReadNow ==
  ASSUME Inv, at # "idle"
  PROVE  /\ slices[request.domain] # NoObject => slices[request.domain] \in SlicesSeen
         /\ Cached(ExportKey) => exports[ExportKey] \in ExportsSeen(slice)
         /\ BindingsByExport \subseteq BindingsSeen(slice)
<1>1. Caches \in past
  BY DEF Inv, ReadsSeen
<1>2. slices[request.domain] # NoObject => slices[request.domain] \in SlicesSeen
  BY <1>1 DEF SlicesSeen, Caches
<1>3. Cached(ExportKey) => exports[ExportKey] \in ExportsSeen(slice)
  BY <1>1 DEF ExportsSeen, Present, Cached, ExportKey, Caches
<1>4. BindingsByExport \subseteq BindingsSeen(slice)
  BY <1>1 DEF BindingsSeen, BindingsIn, BindingsByExport, Present, Caches
<1> QED BY <1>2, <1>3, <1>4

(* A step of the request owes what its next place asks for.                *)
LEMMA StepOwes ==
  ASSUME Inv, Stays, at # "idle", at' # "idle", granted \subseteq granted',
         at' \in {"boundExport", "boundBinding", "maximalExport", "claimed", "policies",
                 "admitBinding", "validateSelector", "validateBinding"} => slice' \in SlicesSeen,
         at' \in {"boundBinding", "claimed", "policies"} => export' \in ExportsSeen(slice'),
         InOneCluster /\ at' \notin BeforeContent => at \notin BeforeContent \/ Invited,
         at' \notin BeforePolicies => at \notin BeforePolicies \/ ContentReviewed',
         at' = "policies" =>
           /\ request.resource \in DOMAIN export'.claims
           /\ ProvidersHeard(export.claims[request.resource].identity, policies)',
         at' \notin BeforeStorage => at \notin BeforeStorage \/ ClaimReviewed,
         at' = "validateBinding" => Selects(slice'.selector, labels'),
         at' \in {"forward", "served"} /\ Written => Visible /\ UNCHANGED labels
  PROVE  Inv'
<1>1. UNCHANGED <<request, past>> /\ Caches' = Caches
  BY DEF Stays, caches, Caches
<1>2. SlicesSeen' = SlicesSeen /\ \A s : ExportsSeen(s)' = ExportsSeen(s)
  BY <1>1 DEF SlicesSeen, ExportsSeen, Present
<1>3. ReadsSeen'
  BY <1>1, <1>2 DEF Inv, ReadsSeen
<1>4. InvitedSoFar'
  BY <1>1, EvidenceStays DEF Inv, InvitedSoFar
<1>5. ReviewedSoFar'
  BY <1>1, EvidenceStays DEF Inv, ReviewedSoFar
<1>6. VisibleSoFar'
  <2>1. Selects(slice.selector, labels)' <=> Selects(slice'.selector, labels')
    BY DEF Selects
  <2> QED BY <1>1, <2>1, EvidenceStays DEF VisibleSoFar
<1> QED BY <1>3, <1>4, <1>5, <1>6 DEF Inv

LEMMA AuthorizeInv ==
  Inv /\ (SkipBinding \/ AuthorizeSlice \/ AuthorizeExport \/ AuthorizeBinding) => Inv'
<1> SUFFICES ASSUME Inv, SkipBinding \/ AuthorizeSlice \/ AuthorizeExport \/ AuthorizeBinding
             PROVE  Inv'
  OBVIOUS
<1> USE DEF BeforeContent, BeforePolicies, BeforeStorage
<1>1. CASE SkipBinding
  BY <1>1, StepOwes DEF SkipBinding, Goto
<1>2. CASE AuthorizeSlice
  BY <1>2, StepOwes, RefuseInv, ReadNow DEF AuthorizeSlice, ReadSlice, Goto
<1>3. CASE AuthorizeExport
  BY <1>3, StepOwes, RefuseInv, ReadNow DEF AuthorizeExport, ReadExport, Goto, Inv, ReadsSeen
<1>4. CASE AuthorizeBinding
  <2>1. slice \in SlicesSeen /\ export \in ExportsSeen(slice)
    BY <1>4 DEF AuthorizeBinding, Inv, ReadsSeen
  <2>2. BindingsByExport \subseteq BindingsSeen(slice)
    BY <1>4, ReadNow DEF AuthorizeBinding
  <2>3. ASSUME NEW b \in BindingsByExport, MayUse(b) PROVE Invited
    <3>1. CASE Binds(b)
      BY <2>1, <2>2, <2>3, <3>1 DEF Binds, Invited
    <3>2. CASE Usable(b)
      BY <2>1, <2>2, <2>3, <3>2 DEF Usable, Accepts, Invited, Grants
    <3>3. CASE request.resource = APIBindings /\ request.verb \in ReadOnlyVerbs
      BY <2>1, <2>2, <2>3, <3>3 DEF ReadOnlyVerbs, Invited
    <3> QED BY <2>3, <3>1, <3>2, <3>3 DEF MayUse
  <2> QED BY <1>4, <2>3, StepOwes, RefuseInv DEF AuthorizeBinding, Goto
<1> QED BY <1>1, <1>2, <1>3, <1>4

(* The slice's content, and the policies of whoever provides a claim.      *)
LEMMA ReviewInv ==
  Inv /\ (AuthorizeContent \/ MaximalSlice \/ MaximalExport \/ NoPolicy \/ FindPolicies
          \/ AskPolicy \/ PoliciesGranted) => Inv'
<1> SUFFICES ASSUME Inv, AuthorizeContent \/ MaximalSlice \/ MaximalExport \/ NoPolicy
                         \/ FindPolicies \/ AskPolicy \/ PoliciesGranted
             PROVE  Inv'
  OBVIOUS
<1> USE DEF BeforeContent, BeforePolicies, BeforeStorage
<1>1. CASE AuthorizeContent
  <2>1. at = "content" /\ Stays /\ UNCHANGED request
    BY <1>1 DEF AuthorizeContent, Stays
  <2>2. CASE at' = "refused"
    BY <2>1, <2>2, EndsInv DEF Stays, caches, Caches, Inv, ReadsSeen
  <2>3. CASE at' # "refused"
    <3>1. at' = "maximalSlice" /\ granted \subseteq granted' /\ ContentReviewed'
      BY <1>1, <2>1, <2>3 DEF AuthorizeContent, Review, Goto, ContentReviewed
    <3> QED BY <2>1, <3>1, StepOwes
  <2> QED BY <2>2, <2>3
<1>2. CASE MaximalSlice
  BY <1>2, StepOwes, RefuseInv, ReadNow DEF MaximalSlice, ReadSlice, Goto
<1>3. CASE MaximalExport
  BY <1>3, StepOwes, RefuseInv, ReadNow DEF MaximalExport, ReadExport, Goto, Inv, ReadsSeen
<1>4. CASE NoPolicy
  <2>1. ClaimReviewed
    BY <1>4 DEF NoPolicy, ClaimedIdentity, ClaimReviewed, Inv, ReadsSeen
  <2> QED BY <1>4, <2>1, StepOwes DEF NoPolicy, Goto
<1>5. CASE FindPolicies
  <2>1. request.resource \in DOMAIN export.claims
        /\ ClaimedIdentity = export.claims[request.resource].identity
    BY <1>5 DEF FindPolicies, ClaimedIdentity
  <2>2. CASE Refuse
    BY <1>5, <2>2, RefuseInv DEF FindPolicies
  <2>3. CASE ~Refuse
    <3>1. /\ at = "claimed" /\ at' = "policies" /\ Stays
          /\ UNCHANGED <<labels, slice, export, granted, exports, request, past>>
          /\ Providers(ClaimedIdentity) # {}
          /\ policies' = WithPolicy(Providers(ClaimedIdentity))
      BY <1>5, <2>3 DEF FindPolicies, Goto, Stays, caches
    <3>2. Caches \in past /\ slice \in SlicesSeen /\ export \in ExportsSeen(slice)
      BY <3>1 DEF Inv, ReadsSeen
    <3>3. ProvidersHeard(ClaimedIdentity, WithPolicy(Providers(ClaimedIdentity)))
      BY <3>1, <3>2 DEF ProvidersHeard, Heard, Providers, WithPolicy, Present, Caches
    <3>4. ProvidersHeard(export.claims[request.resource].identity, policies)'
      BY <2>1, <3>1, <3>3 DEF ProvidersHeard, Heard, Present
    <3> QED BY <2>1, <3>1, <3>2, <3>4, StepOwes
  <2> QED BY <2>2, <2>3
<1>6. CASE AskPolicy
  <2>1. at = "policies" /\ Stays /\ UNCHANGED <<request, labels, slice, export, past>>
    BY <1>6 DEF AskPolicy, Stays
  <2>2. CASE at' = "refused"
    BY <2>1, <2>2, EndsInv DEF Stays, caches, Caches, Inv, ReadsSeen
  <2>3. CASE at' # "refused"
    <3>1. PICK k \in policies :
            /\ at' = "policies" /\ policies' = policies \ {k}
            /\ granted' = granted \cup {[cluster |-> k[1], user |-> "prefixed",
                                         resource |-> request.resource]}
      BY <1>6, <2>3 DEF AskPolicy, Review, Goto
    <3>2. /\ request.resource \in DOMAIN export.claims
          /\ ProvidersHeard(export.claims[request.resource].identity, policies)
          /\ slice \in SlicesSeen /\ export \in ExportsSeen(slice)
      BY <2>1 DEF Inv, ReviewedSoFar, ReadsSeen
    <3>3. \A j : Heard(j, policies) => Heard(j, policies)'
      BY <2>1, <3>1 DEF Heard
    <3>4. ProvidersHeard(export.claims[request.resource].identity, policies)'
      BY <2>1, <3>2, <3>3 DEF ProvidersHeard, Present
    <3> QED BY <2>1, <3>1, <3>2, <3>4, StepOwes
  <2> QED BY <2>2, <2>3
<1>7. CASE PoliciesGranted
  <2>1. ClaimReviewed
    BY <1>7 DEF PoliciesGranted, ClaimReviewed, Inv, ReadsSeen, ReviewedSoFar
  <2> QED BY <1>7, <2>1, StepOwes DEF PoliciesGranted, Goto
<1> QED BY <1>1, <1>2, <1>3, <1>4, <1>5, <1>6, <1>7

(* A storage is found; what is written is labelled, validated, forwarded.  *)
LEMMA WriteInv ==
  Inv /\ (FindStorage \/ AdmitSlice \/ AdmitBinding \/ ValidateSlice \/ ValidateSelector
          \/ ValidateBinding \/ Forward) => Inv'
<1> SUFFICES ASSUME Inv, FindStorage \/ AdmitSlice \/ AdmitBinding \/ ValidateSlice
                         \/ ValidateSelector \/ ValidateBinding \/ Forward
             PROVE  Inv'
  OBVIOUS
<1> USE DEF BeforeContent, BeforePolicies, BeforeStorage
<1>1. CASE FindStorage
  <2>1. CASE Refuse
    BY <1>1, <2>1, RefuseInv DEF FindStorage
  <2>2. CASE ~Refuse
    <3>1. /\ at = "storage" /\ Stays /\ UNCHANGED <<labels, slice, export, policies, granted>>
          /\ at' \in {"served", "forward", "validate", "admit"}
          /\ at' \in {"served", "forward"} => ~Written
      BY <1>1, <2>2 DEF FindStorage, Goto, Written, InOneCluster, ReadOnlyVerbs
    <3> QED BY <3>1, StepOwes
  <2> QED BY <2>1, <2>2
<1>2. CASE AdmitSlice
  BY <1>2, StepOwes, RefuseInv, ReadNow DEF AdmitSlice, ReadSlice, Goto
<1>3. CASE AdmitBinding
  <2>1. at = "admitBinding" /\ Stays /\ (Refuse \/ (at' = "validate" /\ UNCHANGED granted))
    BY <1>3 DEF AdmitBinding, Goto
  <2> QED BY <2>1, StepOwes, RefuseInv
<1>4. CASE ValidateSlice
  BY <1>4, StepOwes, RefuseInv, ReadNow DEF ValidateSlice, ReadSlice, Goto
<1>5. CASE ValidateSelector
  <2>1. Fits(slice.selector) => Selects(slice.selector, labels)
    BY DEF Fits, Matches, Selects
  <2> QED BY <1>5, <2>1, StepOwes, RefuseInv DEF ValidateSelector, Goto, Inv, ReadsSeen
<1>6. CASE ValidateBinding
  <2>1. slice \in SlicesSeen /\ Selects(slice.selector, labels)
    BY <1>6 DEF ValidateBinding, Inv, ReadsSeen, VisibleSoFar
  <2>2. BindingsByExport \subseteq BindingsSeen(slice)
    BY <1>6, ReadNow DEF ValidateBinding
  <2>3. ASSUME NEW b \in BindingsByExport, Permits(b) PROVE Visible
    <3>1. Shows(b, labels)
      BY <2>3 DEF Permits, Binds, Accepts, Fits, Matches, Shows, Selects
    <3> QED BY <2>1, <2>2, <3>1 DEF Visible
  <2> QED BY <1>6, <2>3, StepOwes, RefuseInv DEF ValidateBinding, Goto
<1>7. CASE Forward
  BY <1>7, StepOwes, RefuseInv DEF Forward, Goto, Inv, VisibleSoFar
<1> QED BY <1>1, <1>2, <1>3, <1>4, <1>5, <1>6, <1>7

LEMMA StepInv == Inv /\ [Next]_vars => Inv'
<1>1. ASSUME Inv, UNCHANGED vars PROVE Inv'
  <2>1. UNCHANGED <<at, request, past, granted, labels, slice, export, policies>>
        /\ Caches' = Caches
    BY <1>1 DEF vars, caches, Caches
  <2>2. ReadsSeen'
    BY <1>1, <2>1, SeenGrows DEF Inv, ReadsSeen
  <2>3. InvitedSoFar' /\ ReviewedSoFar'
    BY <1>1, <2>1, EvidenceStays DEF Inv, InvitedSoFar, ReviewedSoFar
  <2>4. VisibleSoFar'
    BY <1>1, <2>1, EvidenceStays DEF Inv, VisibleSoFar, Selects
  <2> QED BY <2>2, <2>3, <2>4 DEF Inv
<1> QED BY <1>1, InformersInv, ArriveAnswerInv, AuthorizeInv, ReviewInv, WriteInv DEF Next

LEMMA InvAlways == Spec => []Inv
BY InitInv, StepInv, PTL DEF Spec

(* A request that is served in one cluster has been invited there, for     *)
(* any slices, exports, bindings and changes of them while it is decided.  *)
THEOREM ServedIsGranted == Spec => []UseIsGranted
<1>1. Inv => UseIsGranted
  BY DEF Inv, InvitedSoFar, UseIsGranted, BeforeContent
<1> QED BY <1>1, InvAlways, PTL

(* A request that is served was reviewed for the content of its slice;     *)
(* and, unless its export claimed the resource from nobody at some time of *)
(* it, by every policy of the exports that provided what was claimed.      *)
THEOREM ServedIsReviewed == Spec => []PoliciesHeard
<1>1. Inv => PoliciesHeard
  BY DEF Inv, ReviewedSoFar, PoliciesHeard, BeforeContent, BeforePolicies, BeforeStorage
<1> QED BY <1>1, InvAlways, PTL

(* Whatever is written through a domain fits a selector its slice had      *)
(* meanwhile, and what a binding to the export, as it was meanwhile, shows. *)
THEOREM WritesAreSeen == Spec => []WrittenIsVisible
<1>1. Inv => WrittenIsVisible
  BY DEF Inv, VisibleSoFar, WrittenIsVisible
<1> QED BY <1>1, InvAlways, PTL
-----------------------------------------------------------------------------
(* Types.                                                                  *)

LEMMA InitType == Init => TypeOK
BY RequestAssumption
   DEF Init, TypeOK, NoRequest, NoClient, Places

LEMMA InformersType == TypeOK /\ (SetSlice \/ SetExport \/ SetBinding) => TypeOK'
<1> SUFFICES ASSUME TypeOK, SetSlice \/ SetExport \/ SetBinding PROVE TypeOK'
  OBVIOUS
<1>1. Rest /\ Remember
  BY DEF SetSlice, SetExport, SetBinding
<1>2. Held(slices, SliceValues)' /\ Held(exports, ExportValues)' /\ Held(bindings, BindingValues)'
  BY DEF SetSlice, SetExport, SetBinding, TypeOK, Held
<1>3. changes' \in 0..MaxChanges
  BY RequestAssumption DEF SetSlice, SetExport, SetBinding, TypeOK
<1>4. (at' = "idle") = (past' = {}) /\ (at' # "idle" => Caches' \in past') /\ past \subseteq past'
  BY <1>1 DEF Rest, Remember, TypeOK
<1>5. DOMAIN exports' = DOMAIN exports
  BY <1>2 DEF TypeOK, Held
<1>6. Client' = Client
  BY <1>1 DEF Rest, Client
<1> QED BY <1>1, <1>2, <1>3, <1>4, <1>5, <1>6 DEF Rest, TypeOK

LEMMA ArriveAnswerType == TypeOK /\ (Arrive \/ Answer) => TypeOK'
<1>1. ASSUME TypeOK, Arrive PROVE TypeOK'
  <2>1. /\ UNCHANGED caches /\ at = "idle" /\ at' = "authorize" /\ past' = {Caches}
        /\ UNCHANGED <<slice, export, policies, client>>
    BY <1>1 DEF Arrive
  <2>4. request'.target \in Names \cup {Wildcard}
    <3>1. PICK u \in Urls, a \in Asked :
            Accepted(u) /\ request' = [verb |-> a.verb, resource |-> a.resource, status |-> a.status,
                                      target |-> u[4], domain |-> <<u[1], u[2]>>]
      BY <1>1 DEF Arrive
    <3>2. request'.target = u[4]
      BY <3>1
    <3> QED BY <3>1, <3>2 DEF Accepted
  <2>2. past = {} /\ slice = NoObject /\ export = NoObject /\ client = NoClient /\ policies = {}
    BY <1>1, <2>1 DEF TypeOK
  <2>3. Caches' \in past' /\ past' # {}
    BY <2>1 DEF caches, Caches
  <2> QED BY <1>1, <2>1, <2>2, <2>3, <2>4 DEF TypeOK, caches, Held, Places
<1>2. ASSUME TypeOK, Answer PROVE TypeOK'
  BY <1>2 DEF Answer, TypeOK, caches, Held, NoRequest, Places
<1> QED BY <1>1, <1>2

(* The steps of a request read what is cached.                             *)
LEMMA StepType ==
  ASSUME TypeOK, Stays, at # "idle", at' \in Places \ {"idle"},
         at \notin {"served", "refused"}, at = "forward" => client' = Client,
         at = "forward" => at' \in {"served", "refused"},
         slice' = slice \/ slice' = slices[request.domain],
         export' = export \/ \E k \in DOMAIN exports : export' = exports[k],
         policies' \subseteq policies \/ policies' \subseteq DOMAIN exports,
         policies' # {} => at' \in {"policies", "refused"}
  PROVE  TypeOK'
<1>1. UNCHANGED <<slices, exports, bindings, changes, request, past>>
      /\ Caches' = Caches /\ Client' = Client /\ Caches \in past
  BY DEF Stays, caches, Caches, Client, TypeOK
<1>2. slice' # NoObject => \E c \in past : slice' = c.slices[request.domain]
  BY <1>1 DEF TypeOK, Caches
<1>3. export' # NoObject => \E c \in past : \E k \in DOMAIN c.exports : export' = c.exports[k]
  BY <1>1 DEF TypeOK, Caches
<1>4. /\ client' = NoClient \/ client' = Client'
      /\ client' # NoClient => at' \in {"served", "refused"}
  BY <1>1 DEF TypeOK, Stays
<1> QED BY <1>1, <1>2, <1>3, <1>4 DEF TypeOK, Held

LEMMA RequestType ==
  TypeOK /\ (\/ SkipBinding \/ AuthorizeSlice \/ AuthorizeExport \/ AuthorizeBinding
             \/ AuthorizeContent \/ MaximalSlice \/ MaximalExport \/ NoPolicy \/ FindPolicies
             \/ AskPolicy \/ PoliciesGranted \/ FindStorage \/ AdmitSlice \/ AdmitBinding
             \/ ValidateSlice \/ ValidateSelector \/ ValidateBinding \/ Forward)
    => TypeOK'
<1> USE DEF Goto, Refuse, Places
<1>0. TypeOK => /\ policies # {} => at \in {"policies", "refused"}
                /\ policies \subseteq DOMAIN exports
  BY DEF TypeOK
<1>1. TypeOK /\ (AuthorizeSlice \/ MaximalSlice \/ AdmitSlice \/ ValidateSlice) => TypeOK'
  BY <1>0, StepType DEF AuthorizeSlice, MaximalSlice, AdmitSlice, ValidateSlice, ReadSlice
<1>2. TypeOK /\ (AuthorizeExport \/ MaximalExport) => TypeOK'
  BY <1>0, StepType DEF AuthorizeExport, MaximalExport, ReadExport, Cached
<1>3. TypeOK /\ (SkipBinding \/ AuthorizeBinding \/ AuthorizeContent) => TypeOK'
  BY <1>0, StepType DEF SkipBinding, AuthorizeBinding, AuthorizeContent, Review
<1>4. TypeOK /\ (NoPolicy \/ FindPolicies \/ AskPolicy \/ PoliciesGranted) => TypeOK'
  BY <1>0, StepType
     DEF NoPolicy, FindPolicies, AskPolicy, PoliciesGranted, Review, WithPolicy, Providers
<1>5. TypeOK /\ FindStorage => TypeOK'
  BY <1>0, StepType DEF FindStorage
<1>6. TypeOK /\ (AdmitBinding \/ ValidateSelector \/ ValidateBinding \/ Forward) => TypeOK'
  BY <1>0, StepType DEF AdmitBinding, ValidateSelector, ValidateBinding, Forward
<1> QED BY <1>1, <1>2, <1>3, <1>4, <1>5, <1>6

(* What a handler works on was cached while the request was under way, and *)
(* a client is made only to forward it.                                    *)
THEOREM TypeCorrect == Spec => []TypeOK
<1>1. TypeOK /\ UNCHANGED vars => TypeOK'
  BY DEF TypeOK, vars, caches, Caches, Client, Held
<1>2. TypeOK /\ Next => TypeOK'
  BY InformersType, ArriveAnswerType, RequestType DEF Next
<1> QED BY <1>1, <1>2, InitType, PTL DEF Spec
-----------------------------------------------------------------------------
(* Admit and Validate agree.                                               *)

Validating == {"validate", "validateSelector", "validateBinding"}

(* Nothing has changed, and a create or update is at stake.                *)
Steady == past = {Caches} /\ PlainlySelected /\ request.verb \notin Deletes

(* Whatever Validate will hold the object against, it fits.                *)
Labelled ==
  \A s \in SlicesSeen :
    Fits(s.selector) /\ \A b \in BindingsSeen(s) : Permits(b)

AdmitInv ==
  /\ at \in Validating \cup {"admit", "admitBinding"} => Written
  /\ at \in Validating /\ Steady => Labelled
  /\ AdmittedIsValid

(* While nothing changes, what has been seen is what there is.             *)
LEMMA SteadyReads ==
  ASSUME past = {Caches}
  PROVE  /\ SlicesSeen = {slices[request.domain]} \ {NoObject}
         /\ BindingsSeen(slice) = BindingsByExport
         /\ \A s \in SlicesSeen, r \in SlicesSeen : s = r
<1>1. SlicesSeen = {slices[request.domain]} \ {NoObject}
  BY DEF SlicesSeen, Caches
<1>2. BindingsSeen(slice) = BindingsByExport
  BY DEF BindingsSeen, BindingsIn, BindingsByExport, Present, Caches
<1> QED BY <1>1, <1>2

(* Both selectors' labels are applied where they agree.                    *)
LEMMA MergedFits ==
  ASSUME NEW f, NEW g, NEW h, Agree(f, g), Agree(h, Merge(f, g))
  PROVE  \A l \in DOMAIN f \cup DOMAIN g :
           /\ l \in DOMAIN Merge(h, Merge(f, g))
           /\ l \in DOMAIN f => Merge(h, Merge(f, g))[l] = f[l]
           /\ l \in DOMAIN g => Merge(h, Merge(f, g))[l] = g[l]
<1>1. DOMAIN Merge(f, g) = DOMAIN f \cup DOMAIN g
      /\ \A l \in DOMAIN f \cup DOMAIN g :
           Merge(f, g)[l] = IF l \in DOMAIN f THEN f[l] ELSE g[l]
  BY DEF Merge
<1>2. \A l \in DOMAIN f \cup DOMAIN g :
        /\ l \in DOMAIN f => Merge(f, g)[l] = f[l]
        /\ l \in DOMAIN g => Merge(f, g)[l] = g[l]
  BY <1>1 DEF Agree
<1>3. \A l \in DOMAIN Merge(f, g) :
        /\ l \in DOMAIN Merge(h, Merge(f, g))
        /\ Merge(h, Merge(f, g))[l] = Merge(f, g)[l]
  <2> DEFINE m == Merge(f, g)
  <2>1. DOMAIN Merge(h, m) = DOMAIN h \cup DOMAIN m
        /\ \A l \in DOMAIN m : Merge(h, m)[l] = IF l \in DOMAIN h THEN h[l] ELSE m[l]
    BY DEF Merge
  <2> QED BY <2>1 DEF Agree
<1> QED BY <1>1, <1>2, <1>3

(* What Admit lets pass, a write that is entitled to a binding, fits.      *)
LEMMA AdmitLabels ==
  ASSUME Inv, AdmitInv, AdmitBinding, at' = "validate", Steady
  PROVE  Labelled'
<1>1. /\ UNCHANGED <<caches, request, past, slice>> /\ slice \in SlicesSeen
      /\ Written /\ InOneCluster /\ Invited
  BY DEF AdmitBinding, Stays, Refuse, Goto, AdmitInv, Written, Inv, ReadsSeen, InvitedSoFar,
     BeforeContent
<1>2. past = {Caches} /\ SlicesSeen = {slice} /\ BindingsSeen(slice) = BindingsByExport
  BY <1>1, SteadyReads DEF Steady
<1>3. PICK b \in BindingsByExport :
        \/ /\ ~Binds(b) /\ ~Accepts(b)
        \/ /\ Binds(b) \/ Accepts(b)
           /\ Agree(slice.selector.labels, LabelsOfBinding(b))
           /\ Agree(labels, Merge(slice.selector.labels, LabelsOfBinding(b)))
           /\ labels' = Merge(labels, Merge(slice.selector.labels, LabelsOfBinding(b)))
  BY DEF AdmitBinding, Refuse, Goto
<1>4. /\ BindingsSeen(slice) = {b} /\ OnlyLabels(slice.selector)
      /\ \A r \in DOMAIN b.claims : OnlyLabels(b.claims[r].selector)
  BY <1>1, <1>2, <1>3 DEF Steady, PlainlySelected
<1>5. Binds(b) \/ Accepts(b)
  BY <1>1, <1>2, <1>4 DEF Invited, Binds, Accepts, Written
<1>6. \A l \in DOMAIN slice.selector.labels \cup DOMAIN LabelsOfBinding(b) :
        /\ l \in DOMAIN labels'
        /\ l \in DOMAIN slice.selector.labels => labels'[l] = slice.selector.labels[l]
        /\ l \in DOMAIN LabelsOfBinding(b) => labels'[l] = LabelsOfBinding(b)[l]
  BY <1>3, <1>5, MergedFits
<1>7. Fits(slice.selector)'
  BY <1>1, <1>4, <1>6 DEF Fits, Matches, OnlyLabels
<1>8. Permits(b)'
  <2>1. ASSUME ~Binds(b), Accepts(b), ~b.claims[request.resource].matchAll
        PROVE  Fits(b.claims[request.resource].selector)'
    <3>1. LabelsOfBinding(b) = b.claims[request.resource].selector.labels
      BY <2>1 DEF LabelsOfBinding
    <3> QED BY <1>1, <1>4, <1>6, <2>1, <3>1 DEF Accepts, Fits, Matches, OnlyLabels
  <2> QED BY <1>1, <1>5, <2>1 DEF Permits, Binds, Accepts
<1>9. SlicesSeen' = {slice} /\ BindingsSeen(slice)' = {b}
  BY <1>1, <1>2, <1>4 DEF SlicesSeen, BindingsSeen, BindingsIn
<1> QED BY <1>1, <1>7, <1>8, <1>9 DEF Labelled, Fits, Matches, Permits, Binds, Accepts

(* Labels that fit go on fitting.                                          *)
LEMMA LabelledStays ==
  ASSUME UNCHANGED <<caches, request, past>>
  PROVE  /\ Steady' <=> Steady
         /\ UNCHANGED labels /\ Labelled => Labelled'
         /\ Written' <=> Written
<1>1. SlicesSeen' = SlicesSeen /\ \A s : BindingsSeen(s)' = BindingsSeen(s)
  BY DEF SlicesSeen, BindingsSeen, BindingsIn
<1>2. Steady' <=> Steady
  BY <1>1 DEF Steady, PlainlySelected, OnlyLabels, Caches, caches
<1>3. UNCHANGED labels /\ Labelled => Labelled'
  BY <1>1 DEF Labelled, Fits, Matches, Permits, Binds, Accepts
<1> QED BY <1>2, <1>3 DEF Written, InOneCluster

(* The informers end what was steady.                                      *)
LEMMA Unsettled ==
  ASSUME TypeOK, SetSlice \/ SetExport \/ SetBinding, at # "idle"
  PROVE  ~Steady'
<1>1. Caches' # Caches
  BY DEF SetSlice, SetExport, SetBinding, TypeOK, Held, Caches
<1>2. past' = past \cup {Caches'} /\ Caches \in past
  BY DEF SetSlice, SetExport, SetBinding, Remember, TypeOK
<1> QED BY <1>1, <1>2 DEF Steady

LEMMA AdmitStep == TypeOK /\ Inv /\ AdmitInv /\ [Next]_vars => AdmitInv'
<1> SUFFICES ASSUME TypeOK, Inv, AdmitInv, [Next]_vars PROVE AdmitInv'
  OBVIOUS
<1> USE DEF Validating
<1>1. CASE UNCHANGED vars
  BY <1>1, LabelledStays DEF vars, AdmitInv, AdmittedIsValid, Steady, Deletes
<1>2. CASE SetSlice \/ SetExport \/ SetBinding
  <2>1. Rest
    BY <1>2 DEF SetSlice, SetExport, SetBinding
  <2>2. CASE at = "idle"
    BY <2>1, <2>2 DEF Rest, AdmitInv, AdmittedIsValid
  <2>3. CASE at # "idle"
    BY <1>2, <2>1, <2>3, Unsettled
       DEF Rest, AdmitInv, AdmittedIsValid, Steady, Deletes, Written, InOneCluster
  <2> QED BY <2>2, <2>3
<1>3. CASE Arrive \/ Answer
  BY <1>3 DEF Arrive, Answer, AdmitInv, AdmittedIsValid
(* Elsewhere on the way nothing is owed.                                   *)
<1>4. ASSUME at' \notin Validating \cup {"admit", "admitBinding"},
             at' = "refused" => last' \notin {"validateSelector", "validateBinding"}
      PROVE  AdmitInv'
  BY <1>4 DEF AdmitInv, AdmittedIsValid
<1>5. CASE \/ SkipBinding \/ AuthorizeSlice \/ AuthorizeExport \/ AuthorizeBinding
           \/ AuthorizeContent \/ MaximalSlice \/ MaximalExport \/ NoPolicy \/ FindPolicies
           \/ AskPolicy \/ PoliciesGranted \/ Forward
  BY <1>4, <1>5
     DEF SkipBinding, AuthorizeSlice, AuthorizeExport, AuthorizeBinding, AuthorizeContent,
         MaximalSlice, MaximalExport, NoPolicy, FindPolicies, AskPolicy, PoliciesGranted, Forward,
         ReadSlice, ReadExport, Review, Refuse, Goto
<1>6. ASSUME FindStorage \/ AdmitSlice \/ AdmitBinding \/ ValidateSlice
             \/ ValidateSelector \/ ValidateBinding
      PROVE  UNCHANGED <<caches, request, past>> /\ (Written' <=> Written) /\ (Steady' <=> Steady)
  BY <1>6, LabelledStays
     DEF FindStorage, AdmitSlice, AdmitBinding, ValidateSlice, ValidateSelector, ValidateBinding,
         ReadSlice, Stays
<1>7. CASE FindStorage
  <2>1. CASE at' \in {"admit", "validate"}
    <3>1. Written /\ (at' = "validate" => request.verb \in Deletes)
      BY <1>7, <2>1 DEF FindStorage, Refuse, Goto, Written, InOneCluster, ReadOnlyVerbs
    <3> QED BY <1>6, <1>7, <2>1, <3>1 DEF AdmitInv, AdmittedIsValid, Steady
  <2>2. CASE at' \notin {"admit", "validate"}
    BY <1>4, <1>7, <2>2 DEF FindStorage, Refuse, Goto
  <2> QED BY <2>1, <2>2
<1>8. CASE AdmitSlice
  BY <1>6, <1>8 DEF AdmitSlice, ReadSlice, Refuse, Goto, AdmitInv, AdmittedIsValid
<1>9. CASE AdmitBinding
  <2>1. at = "admitBinding" /\ last' = at /\ at' \in {"refused", "validate"}
    BY <1>9 DEF AdmitBinding, Refuse, Goto
  <2> QED BY <1>6, <1>9, <2>1, AdmitLabels DEF AdmitInv, AdmittedIsValid
<1>10. CASE ValidateSlice
  BY <1>6, <1>10, LabelledStays
     DEF ValidateSlice, ReadSlice, Refuse, Goto, AdmitInv, AdmittedIsValid
<1>11. CASE ValidateSelector \/ ValidateBinding
  <2>1. /\ at \in {"validateSelector", "validateBinding"} /\ last' = at /\ UNCHANGED labels
        /\ at' \in {"refused", "validateBinding", "forward"} /\ slice \in SlicesSeen /\ Written
    BY <1>11 DEF ValidateSelector, ValidateBinding, Refuse, Goto, Inv, ReadsSeen, AdmitInv
  <2>2. ASSUME Steady PROVE at' # "refused"
    <3>1. Labelled /\ SlicesSeen = {slice} /\ BindingsSeen(slice) = BindingsByExport
      BY <2>1, <2>2, SteadyReads DEF AdmitInv, Steady
    <3>2. Fits(slice.selector) /\ \A b \in BindingsByExport : Permits(b)
      BY <3>1 DEF Labelled
    <3>3. BindingsByExport # {}
      BY <2>1, <3>1 DEF Inv, InvitedSoFar, Invited, Written, BeforeContent
    <3> QED BY <1>11, <3>2, <3>3 DEF ValidateSelector, ValidateBinding, Goto, Refuse
  <2>3. at' = "validateBinding" /\ Steady => Labelled'
    BY <1>6, <1>11, <2>1, LabelledStays DEF AdmitInv
  <2> QED BY <1>6, <1>11, <2>1, <2>2, <2>3 DEF AdmitInv, AdmittedIsValid, Steady, Deletes
<1> QED BY <1>1, <1>2, <1>3, <1>5, <1>7, <1>8, <1>9, <1>10, <1>11 DEF Next

(* If nothing changes meanwhile, Validate refuses no object that Admit has *)
(* labelled, but for what labels cannot be made up for: for any selectors, *)
(* objects and claims, where the binding to the export is the only one.    *)
THEOREM AdmittedPasses == Spec => []AdmittedIsValid
<1>1. Init => AdmitInv
  BY DEF Init, AdmitInv, AdmittedIsValid, Validating
<1>2. AdmitInv => AdmittedIsValid
  BY DEF AdmitInv
<1> QED BY <1>1, <1>2, AdmitStep, InvAlways, TypeCorrect, PTL DEF Spec
=============================================================================
