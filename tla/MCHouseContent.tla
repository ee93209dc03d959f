---------------------------- MODULE MCHouseContent ----------------------------
(***************************************************************************)
(* Instances of HouseContent for TLC.                                      *)
(***************************************************************************)
EXTENDS HouseContent, TLC

CONSTANTS p1, p2, a

\* Two rows name the same file.
SharedPath == (p1 :> a @@ p2 :> a)

=============================================================================
