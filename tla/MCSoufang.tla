------------------------------- MODULE MCSoufang -------------------------------
(***************************************************************************)
(* Instances of Soufang for TLC.                                           *)
(***************************************************************************)
EXTENDS Soufang

CONSTANTS h1, h2, t1, t2

\* One administrator per house, who creates, edits and operates it.
AnyKind == {"save", "edit", "status"}
OneEach == ({t1} \X AnyKind \X {h1}) \cup ({t2} \X AnyKind \X {h2})

\* A single administrator, who only operates.
OperatorOnly == {t1} \X {"status"} \X Houses

\* Two administrators who create and operate the same houses.
TwoOperators == {t1, t2} \X {"save", "status"} \X Houses

\* Two administrators who operate a house, one of whom also edits it.
EditAndOperate == {<<t1, "status", h1>>, <<t2, "status", h1>>, <<t1, "edit", h1>>}

=============================================================================
