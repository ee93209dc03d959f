--------------------------- MODULE HouseVocabulary ---------------------------
(***************************************************************************)
(* The enumerations and message formats shared by the house service and    *)
(* the search service of the renting site: HouseStatus, HouseOperation and *)
(* HouseIndexMessage.                                                      *)
(***************************************************************************)
EXTENDS Naturals, Sequences

CONSTANT Houses         \* identities of the rows of table house

ASSUME HousesAssumption == Houses # {}

\* HouseStatus.java
NOT_AUDITED == "not_audited"
PASSES      == "passes"
RENTED      == "rented"
DELETED     == "deleted"
Statuses    == {NOT_AUDITED, PASSES, RENTED, DELETED}

\* The states updateStatus refuses to leave.
Terminal    == {RENTED, DELETED}

\* HouseOperation.java, and the status operateHouse asks for.
HouseOperations == {"PASS", "PULL_OUT", "DELETE", "RENT"}

\* A variant with a bug: the code of the operation stored as the status.
TargetOf_Untranslated(operation) == operation

TargetOf(operation) ==
  CASE operation = "PASS"     -> PASSES
    [] operation = "PULL_OUT" -> NOT_AUDITED
    [] operation = "DELETE"   -> DELETED
    [] operation = "RENT"     -> RENTED

\* HouseIndexMessage.java
INDEX     == "index"
REMOVE    == "remove"
MAX_RETRY == 3

HouseIndexMessage ==
  [houseId : Houses, operation : {INDEX, REMOVE}, retry : 0 .. MAX_RETRY]

Message(h, operation, retry) ==
  [houseId |-> h, operation |-> operation, retry |-> retry]

\* A variant with a bug: renting a house out leaves it to be found.
OperationFor_RentedToo(status) == IF status \in {PASSES, RENTED} THEN INDEX ELSE REMOVE

\* Listing a house indexes it; every other status removes it.
OperationFor(status) == IF status = PASSES THEN INDEX ELSE REMOVE

\* The tables holding a house, in the order save() commits them.
Tables == {"house", "detail", "picture", "tag"}

=============================================================================
