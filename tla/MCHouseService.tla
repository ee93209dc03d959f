---------------------------- MODULE MCHouseService ----------------------------
(***************************************************************************)
(* Instances of HouseService for TLC.                                      *)
(***************************************************************************)
EXTENDS HouseService, TLC

CONSTANTS h1, h2, t1, t2

\* Both threads create houses and change statuses; only h1 is also edited.
EditsOfOne == (Threads \X {"save", "status"} \X Houses) \cup (Threads \X {"edit"} \X {h1})

\* Both threads change statuses.
NoEdits == Threads \X {"status"} \X Houses

\* One thread edits while the other operates.
EditorAndOperator == {<<t1, "edit", h1>>, <<t2, "status", h1>>}

Symmetry == Permutations(Threads)

=============================================================================
