------------------------ MODULE ServedDomainsProofs ------------------------
(***************************************************************************)
(* What ServedDomains promises to those who ask for definitions, for every *)
(* value of its constants.                                                 *)
(***************************************************************************)
EXTENDS ServedDomains, TLAPS

TypeOK ==
  /\ served \in [Domains -> DefinitionSet \cup {NotServed}]
  /\ valid \subseteq Definitions
  /\ replacing \in Domains \cup {NoDomain}
  /\ stopping \in BOOLEAN

(* The three hold together: a definition is good where it is served        *)
(* because it is revoked in one place only.                                *)
Inv == TypeOK /\ Exclusive /\ NeverCut

LEMMA InitInv == Init => Inv
BY DEF Init, Nothing, Inv, TypeOK, Exclusive, NeverCut, Served

(* What the other steps leave to say of a domain: a definition served in   *)
(* it is at one of its places.                                             *)
LEMMA ServedAtPlace ==
  ASSUME NEW k \in Domains, NEW d \in Served(k)
  PROVE  \E p \in Places : served[k] # NotServed /\ served[k][p] = d /\ d # NoDefinition
BY DEF Served

LEMMA InUseAtPlace ==
  ASSUME NEW k \in Domains, served[k] # NotServed, NEW p \in Places,
         served[k][p] # NoDefinition
  PROVE  served[k][p] \in Served(k) /\ served[k][p] \in InUse
BY DEF Served, InUse

LEMMA RevokeInv == ASSUME Inv, NEW d \in Definitions, Revoke(d) PROVE Inv'
<1>1. TypeOK' /\ Exclusive'
  BY DEF Revoke, Inv, TypeOK, Exclusive
<1>2. ASSUME ~stopping, NEW k \in Domains, k # replacing, NEW c \in Served(k)
      PROVE  c \in valid /\ c # d
  <2>1. c \in valid
    BY <1>2 DEF Inv, NeverCut
  <2>2. replacing \in Domains /\ d \in Served(replacing)
    BY DEF Revoke, Inv, TypeOK
  <2>3. c # d
    BY <1>2, <2>2, ServedAtPlace DEF Inv, Exclusive
  <2> QED BY <2>1, <2>3
<1>3. NeverCut'
  BY <1>2 DEF Revoke, NeverCut, Served
<1> QED BY <1>1, <1>3 DEF Inv

LEMMA ReplaceInv == ASSUME Distinct, Inv, NEW k \in Domains, Replace(k) PROVE Inv'
<1> DEFINE new == served'[k]
<1>1. /\ replacing = k /\ replacing' = NoDomain /\ UNCHANGED <<valid, stopping>>
      /\ served' = [served EXCEPT ![k] = new] /\ new \in DefinitionSet /\ new # NotServed
  BY DEF Replace, Distinct
<1>2. \A p \in Places : new[p] # NoDefinition =>
        /\ new[p] \notin InUse \/ (served[k] # NotServed /\ new[p] = served[k][p])
        /\ new[p] \in valid \/ stopping
        /\ \A q \in Places : new[p] = new[q] => p = q
  BY DEF Replace
<1>3. \A j \in Domains : j # k => served'[j] = served[j]
  BY <1>1 DEF Inv, TypeOK
<1>4. TypeOK'
  BY <1>1 DEF Inv, TypeOK
<1>5. ASSUME NEW j \in Domains, j # k, served[j] # NotServed, NEW p \in Places,
             NEW q \in Places, served[j][p] # NoDefinition
      PROVE  served[j][p] # new[q]
  <2>1. served[j][p] \in InUse
    BY <1>5, InUseAtPlace
  <2> QED BY <1>2, <1>5, <2>1 DEF Inv, Exclusive
<1>6. Exclusive'
  BY <1>2, <1>3, <1>5 DEF Inv, Exclusive
<1>7. NeverCut'
  <2> SUFFICES ASSUME ~stopping, NEW j \in Domains PROVE Served(j)' \subseteq valid
    BY <1>1 DEF NeverCut
  <2>1. CASE j = k
    BY <1>1, <1>2, <2>1 DEF Served
  <2>2. CASE j # k
    BY <1>1, <1>3, <2>2 DEF Served, Inv, NeverCut
  <2> QED BY <2>1, <2>2
<1> QED BY <1>4, <1>6, <1>7 DEF Inv

LEMMA StepInv == Distinct /\ Inv /\ [Next]_vars => Inv'
<1> SUFFICES ASSUME Distinct, Inv, [Next]_vars PROVE Inv'
  OBVIOUS
<1>1. CASE UNCHANGED vars
  BY <1>1 DEF vars, Inv, TypeOK, Exclusive, NeverCut, Served
<1>2. ASSUME NEW d \in Definitions, Make(d) PROVE Inv'
  BY <1>2 DEF Make, Inv, TypeOK, Exclusive, NeverCut, Served
<1>3. ASSUME NEW d \in Definitions, Revoke(d) PROVE Inv'
  BY <1>3, RevokeInv
<1>4. ASSUME NEW k \in Domains, BeginReplacing(k) PROVE Inv'
  BY <1>4 DEF BeginReplacing, Distinct, Inv, TypeOK, Exclusive, NeverCut, Served
<1>5. ASSUME NEW k \in Domains, Replace(k) PROVE Inv'
  BY <1>5, ReplaceInv
<1>6. ASSUME NEW k \in Domains, Withdraw(k) PROVE Inv'
  BY <1>6 DEF Withdraw, Inv, TypeOK, Exclusive, NeverCut, Served
<1>7. CASE Stop
  BY <1>7 DEF Stop, Inv, TypeOK, Exclusive, NeverCut, Served
<1>8. CASE Restart
  BY <1>8 DEF Restart, Nothing, Inv, TypeOK, Exclusive, NeverCut, Served
<1> QED BY <1>1, <1>2, <1>3, <1>4, <1>5, <1>6, <1>7, <1>8 DEF Next

LEMMA InvAlways == ASSUME Distinct PROVE Spec => []Inv
<1>1. Inv /\ [Next]_vars => Inv'
  BY StepInv
<1> QED BY <1>1, InitInv, PTL DEF Spec

(* A definition is at one place of one domain, whatever domains, places    *)
(* and definitions there are.                                              *)
THEOREM AlwaysExclusive == ASSUME Distinct PROVE Spec => []Exclusive
<1>1. Inv => Exclusive
  BY DEF Inv
<1> QED BY <1>1, InvAlways, PTL

(* Requests are given good definitions, but in the domain whose            *)
(* definitions are being replaced, or when the controller stops.           *)
THEOREM AlwaysGood == ASSUME Distinct PROVE Spec => []NeverCut
<1>1. Inv => NeverCut
  BY DEF Inv
<1> QED BY <1>1, InvAlways, PTL
=============================================================================
