----------------------------- MODULE ListingIndex -----------------------------
(***************************************************************************)
(* What the house service and the search service promise together when     *)
(* nothing fails: the index follows the listing.  Every change of the      *)
(* listing is applied to the index, once, in the order of the changes to   *)
(* that house, and nothing else touches the index.                         *)
(***************************************************************************)
EXTENDS Sequences

CONSTANT Houses

VARIABLES
  listed,      \* the houses on offer
  indexed,     \* the houses a search can find
  pending      \* pending[h]: the changes of h not yet applied, oldest first

listingVars == <<listed, indexed, pending>>

TypeOK ==
  /\ listed \subseteq Houses
  /\ indexed \subseteq Houses
  /\ pending \in [Houses -> Seq(BOOLEAN)]

Init ==
  /\ listed = {}
  /\ indexed = {}
  /\ pending = [h \in Houses |-> <<>>]

\* The house is put on offer or taken off it.
Change(h, on) ==
  /\ listed' = IF on THEN listed \cup {h} ELSE listed \ {h}
  /\ pending' = [pending EXCEPT ![h] = Append(@, on)]
  /\ UNCHANGED indexed

Apply(h) ==
  /\ pending[h] # <<>>
  /\ indexed' = IF Head(pending[h]) THEN indexed \cup {h} ELSE indexed \ {h}
  /\ pending' = [pending EXCEPT ![h] = Tail(@)]
  /\ UNCHANGED listed

Next == \E h \in Houses : Apply(h) \/ \E on \in BOOLEAN : Change(h, on)

Safety == Init /\ [][Next]_listingVars

Spec == Safety /\ \A h \in Houses : WF_listingVars(Apply(h))

\* Once every change is applied the index is the listing.
InSync == \A h \in Houses : pending[h] = <<>> => (h \in indexed <=> h \in listed)

=============================================================================
