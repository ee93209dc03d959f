-------------------------- MODULE ListingIndexProofs --------------------------
(***************************************************************************)
(* What the abstract index promises, for any set of houses.                *)
(***************************************************************************)
EXTENDS ListingIndex, SequenceTheorems, TLAPS

-----------------------------------------------------------------------------
\* What a house ends up as once its pending changes are applied.
Final(h) == IF pending[h] = <<>> THEN h \in indexed ELSE pending[h][Len(pending[h])]

\* The strengthening of InSync: the pending changes lead to the listing.
LeadsToListing == \A h \in Houses : Final(h) <=> h \in listed

(***************************************************************************)
(* The last element of a sequence of changes.                              *)
(***************************************************************************)
LEMMA LastOfAppend ==
  ASSUME NEW S, NEW s \in Seq(S), NEW x \in S
  PROVE  Append(s, x) # <<>> /\ Append(s, x)[Len(Append(s, x))] = x
OBVIOUS

LEMMA LastOfTail ==
  ASSUME NEW S, NEW s \in Seq(S), s # <<>>
  PROVE  \/ Tail(s) = <<>> /\ s[Len(s)] = Head(s)
         \/ Tail(s) # <<>> /\ Tail(s)[Len(Tail(s))] = s[Len(s)]
<1>1. /\ Len(s) \in Nat \ {0} /\ Len(Tail(s)) = Len(s) - 1
      /\ Tail(s) \in Seq(S)
      /\ \A i \in 1 .. Len(Tail(s)) : Tail(s)[i] = s[i + 1]
  BY EmptySeq, HeadTailProperties
<1>2. CASE Len(s) = 1
  <2>0. Len(Tail(s)) = 0
    BY <1>1, <1>2
  <2>1. Tail(s) = <<>>
    BY <1>1, <2>0, EmptySeq, Zenon
  <2>2. Head(s) = s[1]
    OBVIOUS
  <2> QED  BY <1>2, <2>1, <2>2
<1>3. CASE Len(s) # 1
  <2>1. Tail(s) # <<>>
    BY <1>1, <1>3, EmptySeq
  <2>2. Tail(s)[Len(Tail(s))] = s[Len(s)]
    BY <1>1, <1>3
  <2> QED  BY <2>1, <2>2
<1> QED  BY <1>2, <1>3

LEMMA NextType == TypeOK /\ [Next]_listingVars => TypeOK'
<1> SUFFICES ASSUME TypeOK, [Next]_listingVars PROVE TypeOK'
  OBVIOUS
<1>1. ASSUME NEW h \in Houses, Apply(h) PROVE TypeOK'
  <2>1. pending[h] \in Seq(BOOLEAN) /\ pending[h] # <<>>
    BY <1>1 DEF TypeOK, Apply
  <2>3. Tail(pending[h]) \in Seq(BOOLEAN)
    BY <2>1, HeadTailProperties
  <2>2. indexed' \subseteq Houses
    BY <1>1 DEF TypeOK, Apply
  <2> QED  BY <1>1, <2>2, <2>3 DEF TypeOK, Apply
<1>2. ASSUME NEW h \in Houses, NEW on \in BOOLEAN, Change(h, on) PROVE TypeOK'
  <2>1. Append(pending[h], on) \in Seq(BOOLEAN)
    BY DEF TypeOK
  <2>2. listed' \subseteq Houses
    BY <1>2 DEF TypeOK, Change
  <2> QED  BY <1>2, <2>1, <2>2 DEF TypeOK, Change
<1>3. CASE UNCHANGED listingVars
  BY <1>3 DEF TypeOK, listingVars
<1> QED  BY <1>1, <1>2, <1>3 DEF Next

LEMMA NextLeads == TypeOK /\ LeadsToListing /\ [Next]_listingVars => LeadsToListing'
<1> SUFFICES ASSUME TypeOK, LeadsToListing, [Next]_listingVars, NEW g \in Houses
             PROVE  (Final(g) <=> g \in listed)'
  BY DEF LeadsToListing
<1>g. pending \in [Houses -> Seq(BOOLEAN)] /\ (Final(g) <=> g \in listed)
  BY DEF TypeOK, LeadsToListing
<1>other. ASSUME pending'[g] = pending[g], g \in indexed' <=> g \in indexed,
                 g \in listed' <=> g \in listed
          PROVE  (Final(g) <=> g \in listed)'
  BY <1>other, <1>g DEF Final
<1>1. ASSUME NEW h \in Houses, Apply(h) PROVE (Final(g) <=> g \in listed)'
  <2>1. CASE h # g
    BY <1>1, <2>1, <1>g, <1>other DEF Apply
  <2>2. CASE h = g
    <3> DEFINE s == pending[g]
    <3>1. s \in Seq(BOOLEAN) /\ s # <<>>
      BY <1>1, <2>2, <1>g DEF Apply
    <3>2. pending'[g] = Tail(s) /\ (g \in indexed' <=> Head(s)) /\ listed' = listed
      BY <1>1, <2>2, <1>g, <3>1 DEF Apply
    <3>3. s[Len(s)] <=> g \in listed
      BY <1>g, <3>1 DEF Final
    <3>4. \/ Tail(s) = <<>> /\ s[Len(s)] = Head(s)
          \/ Tail(s) # <<>> /\ Tail(s)[Len(Tail(s))] = s[Len(s)]
      <4> HIDE DEF s
      <4> QED  BY <3>1, LastOfTail
    <3> HIDE DEF s
    <3> QED  BY <3>2, <3>3, <3>4 DEF Final
  <2> QED  BY <2>1, <2>2
<1>2. ASSUME NEW h \in Houses, NEW on \in BOOLEAN, Change(h, on)
      PROVE  (Final(g) <=> g \in listed)'
  <2>1. CASE h # g
    BY <1>2, <2>1, <1>g, <1>other DEF Change
  <2>2. CASE h = g
    <3>1. pending'[g] = Append(pending[g], on) /\ (g \in listed' <=> on)
      BY <1>2, <2>2, <1>g DEF Change
    <3>2. pending[g] \in Seq(BOOLEAN)
      BY <1>g
    <3>3. pending'[g] # <<>> /\ pending'[g][Len(pending'[g])] = on
      BY <3>1, <3>2, LastOfAppend
    <3> QED  BY <3>1, <3>3 DEF Final
  <2> QED  BY <2>1, <2>2
<1>3. CASE UNCHANGED listingVars
  BY <1>3, <1>other DEF listingVars
<1> QED  BY <1>1, <1>2, <1>3 DEF Next

(***************************************************************************)
(* Once every change of a house is applied, it can be found exactly when   *)
(* it is listed: what an implementation of this specification owes its     *)
(* users (the comment of updateStatus, HouseService.java 312).             *)
(***************************************************************************)
THEOREM AppliedIsListed == Safety => []InSync
<1>1. Init => TypeOK /\ LeadsToListing
  BY DEF Init, TypeOK, LeadsToListing, Final
<1>2. TypeOK /\ LeadsToListing /\ [Next]_listingVars => (TypeOK /\ LeadsToListing)'
  BY NextType, NextLeads
<1>3. LeadsToListing => InSync
  BY DEF LeadsToListing, Final, InSync
<1> QED  BY <1>1, <1>2, <1>3, PTL DEF Safety

=============================================================================
