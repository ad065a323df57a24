---------------------------- MODULE ServedDomains ----------------------------
(***************************************************************************)
(* What the virtual workspace may rely on when it asks, on each request,   *)
(* for the API definitions of a domain: a definition has one place in one  *)
(* domain, keeps its place for as long as it is served, and is good until  *)
(* it is revoked, which only happens to definitions of the one domain that *)
(* is being replaced, or to all of them when the controller is to stop.    *)
(* How the sets come about is left open; APIReconciler implements this.    *)
(***************************************************************************)
CONSTANTS Domains, Places, Definitions,
  NoDefinition,  \* nothing in a place of a domain
  NotServed,     \* in place of the definitions of a domain
  NoDomain       \* no domain is being replaced

DefinitionSet == [Places -> Definitions \cup {NoDefinition}]

(* What is asked of the constants.                                         *)
Distinct ==
  NoDefinition \notin Definitions /\ NotServed \notin DefinitionSet /\ NoDomain \notin Domains

VARIABLES
  served,     \* the definitions of each domain
  valid,      \* definitions made and not revoked
  replacing,  \* the domain whose definitions are being replaced
  stopping    \* has the controller been told to stop?

vars == <<served, valid, replacing, stopping>>

Nothing == [k \in Domains |-> NotServed]

Served(k) ==
  IF served[k] = NotServed THEN {} ELSE {served[k][p] : p \in Places} \ {NoDefinition}

InUse == UNION {Served(k) : k \in Domains}

Init == served = Nothing /\ valid = {} /\ replacing = NoDomain /\ stopping = FALSE

(* A definition is made before anybody is given it.                        *)
Make(d) ==
  /\ d \notin valid /\ d \notin InUse
  /\ valid' = valid \cup {d}
  /\ UNCHANGED <<served, replacing, stopping>>

BeginReplacing(k) ==
  /\ replacing = NoDomain /\ replacing' = k
  /\ UNCHANGED <<served, valid, stopping>>

Revoke(d) ==
  /\ replacing # NoDomain /\ d \in Served(replacing)
  /\ valid' = valid \ {d}
  /\ UNCHANGED <<served, replacing, stopping>>

(* The new definitions of k take their places at once.  Each is where it   *)
(* was before, or new, and has not been revoked.                           *)
Replace(k) ==
  LET new == served'[k]
  IN  /\ replacing = k /\ replacing' = NoDomain
      /\ new \in DefinitionSet
      /\ served' = [served EXCEPT ![k] = new]
      /\ \A p \in Places : new[p] # NoDefinition =>
           /\ new[p] \notin InUse \/ (served[k] # NotServed /\ new[p] = served[k][p])
           /\ new[p] \in valid \/ stopping
           /\ \A q \in Places : new[p] = new[q] => p = q
      /\ UNCHANGED <<valid, stopping>>

Withdraw(k) ==
  /\ replacing = NoDomain
  /\ served' = [served EXCEPT ![k] = NotServed]
  /\ UNCHANGED <<valid, replacing, stopping>>

Stop ==
  /\ ~stopping /\ stopping' = TRUE
  /\ valid' = valid \ InUse
  /\ UNCHANGED <<served, replacing>>

Restart ==
  /\ served' = Nothing /\ valid' = {} /\ replacing' = NoDomain /\ stopping' = FALSE

Next ==
  \/ \E d \in Definitions : Make(d) \/ Revoke(d)
  \/ \E k \in Domains : BeginReplacing(k) \/ Replace(k) \/ Withdraw(k)
  \/ Stop \/ Restart

Spec == Init /\ [][Next]_vars

-----------------------------------------------------------------------------
(* A definition is served in one place only: revoking the definitions of   *)
(* one domain never takes anything from another.                           *)
Exclusive ==
  \A j, k \in Domains : served[j] # NotServed /\ served[k] # NotServed =>
    \A p, q \in Places :
      served[j][p] # NoDefinition /\ served[j][p] = served[k][q] => j = k /\ p = q

(* Whoever asks is given definitions that are good, except in the domain   *)
(* that is just being replaced, or when the controller stops.              *)
NeverCut ==
  ~stopping => \A k \in Domains : k # replacing => Served(k) \subseteq valid
=============================================================================
