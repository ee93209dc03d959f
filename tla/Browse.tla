-------------------------------- MODULE Browse --------------------------------
(***************************************************************************)
(* A visitor's page of houses, made by HouseService from a search or from  *)
(* the database, while the listener and the house service go on.           *)
(*                                                                         *)
(* A keyword or map query takes house ids from the index and then reads    *)
(* house, detail and tag rows one table after the other; a query without   *)
(* keywords reads the house rows first.  Filters, order and paging only    *)
(* choose which houses and in what order, so a page is any sequence of     *)
(* hits here.  No page is asked for twice: one visitor at a time is enough *)
(* since visitors change nothing.                                          *)
(***************************************************************************)
EXTENDS SearchService

CONSTANTS
  PageSize,        \* hits on a page
  Missing          \* no row was found

ASSUME PageSizeAssumption == PageSize \in Nat
ASSUME MissingAssumption == Missing \notin Nat

VARIABLE page      \* the page being made

browseVars == <<searchVars, page>>

PagePhases == {"idle", "houses", "details", "tags", "shown", "failed"}

\* What a page takes from a hit: the house, and how old its document is.
Hit == [houseId : Houses, drev : Nat]

Content == [Houses -> Nat \cup {Missing}]

\* house and detail are idToHouseMap: the revision of the row found for each
\* house of the page.
Page ==
  [phase : PagePhases, source : {"index", "database"}, hits : Seq(Hit),
   house : Content, detail : Content]

Nothing == [h \in Houses |-> Missing]

NoPage ==
  [phase |-> "idle", source |-> "index", hits |-> <<>>,
   house |-> Nothing, detail |-> Nothing]

BrowseTypeOK == TypeOK /\ page \in Page

BrowseInit == Init /\ page = NoPage

-----------------------------------------------------------------------------
HousesOf(hits) == {hits[i].houseId : i \in 1 .. Len(hits)}

\* What findAll and findAllByHouseIdIn find for the houses of the page.
RowsFound(table) ==
  [h \in Houses |->
     IF h \in HousesOf(page.hits) /\ table \in rows[h] THEN rev[h] ELSE Missing]

\* The pages a query may choose: up to PageSize different members of a set.
Choices(set) ==
  UNION {{chosen \in [1 .. n -> set] :
            \A i, j \in 1 .. n : chosen[i] = chosen[j] => i = j} : n \in 1 .. PageSize}

\* SearchService.query and mapQuery: some of the documents a search sees.
SearchPage ==
  /\ page.phase = "idle"
  /\ \E docs \in Choices(View) :
       page' = [NoPage EXCEPT
         !.phase = "houses",
         !.hits = [i \in DOMAIN docs |-> [houseId |-> docs[i].houseId,
                                          drev |-> docs[i].drev]]]

\* A variant with a bug: a house is on the page before its row is there.
DatabasePage_Early ==
  /\ page.phase = "idle"
  /\ \E found \in Choices(Houses) :
       page' = [NoPage EXCEPT
         !.phase = "details",
         !.source = "database",
         !.hits = [i \in DOMAIN found |-> [houseId |-> found[i], drev |-> 0]],
         !.house = [h \in Houses |-> IF "house" \in rows[h] THEN rev[h] ELSE Missing]]

\* simpleQuery: the house rows are the hits.
DatabasePage ==
  /\ page.phase = "idle"
  /\ \E found \in Choices({h \in Houses : "house" \in rows[h]}) :
       page' = [NoPage EXCEPT
         !.phase = "details",
         !.source = "database",
         !.hits = [i \in DOMAIN found |-> [houseId |-> found[i], drev |-> 0]],
         !.house = [h \in Houses |->
                      IF \E i \in DOMAIN found : found[i] = h THEN rev[h] ELSE Missing]]

\* A variant with a bug: the rows come from a cache that may be one content
\* behind.
ReadHouses_Cached ==
  /\ page.phase = "houses"
  /\ \E behind \in {0, 1} :
       page' = [page EXCEPT
         !.phase = "details",
         !.house = [h \in Houses |->
           IF RowsFound("house")[h] \in {Missing, 0} THEN RowsFound("house")[h]
                                                    ELSE rev[h] - behind]]

\* wrapperHouseResult.
ReadHouses ==
  /\ page.phase = "houses"
  /\ page' = [page EXCEPT !.phase = "details", !.house = RowsFound("house")]

\* A row of a house that was not found: the map has nothing to set it on.
Stray(table) ==
  \E h \in HousesOf(page.hits) : table \in rows[h] /\ page.house[h] = Missing

\* wrapperHouseList, first the details ...
ReadDetails ==
  /\ page.phase = "details"
  /\ page' = IF Stray("detail")
               THEN [page EXCEPT !.phase = "failed"]
               ELSE [page EXCEPT !.phase = "tags", !.detail = RowsFound("detail")]

\* ... then the tags.
ReadTags ==
  /\ page.phase = "tags"
  /\ page' = [page EXCEPT !.phase = IF Stray("tag") THEN "failed" ELSE "shown"]

Leave ==
  /\ page.phase \in {"shown", "failed"}
  /\ page' = NoPage

Visit ==
  /\ SearchPage \/ DatabasePage \/ ReadHouses \/ ReadDetails \/ ReadTags \/ Leave
  /\ UNCHANGED searchVars

Site == (ListenerNext \/ Env) /\ UNCHANGED page

Die == Crash /\ page' = NoPage

BrowseNext == Visit \/ Site \/ Die

BrowseSpec == BrowseInit /\ [][BrowseNext]_browseVars

-----------------------------------------------------------------------------
(***************************************************************************)
(* Properties.                                                             *)
(***************************************************************************)

(***************************************************************************)
(* Every hit of a keyword or map query is shown, with a house and a detail *)
(* row no older than the document that was found, the detail no older than *)
(* the house: the index answers from its last refresh and two tables are   *)
(* read later, one after the other (HouseService.java 416-431 and 477-490  *)
(* put null in the page otherwise).                                        *)
(***************************************************************************)
PageComplete ==
  page.phase = "shown" /\ page.source = "index" =>
    \A i \in 1 .. Len(page.hits) :
      LET hit == page.hits[i]
          h == hit.houseId
      IN /\ page.house[h] # Missing /\ page.detail[h] # Missing
         /\ hit.drev <= page.house[h] /\ page.house[h] <= page.detail[h]

(***************************************************************************)
(* Making a page never meets a detail or a tag of a house it did not find  *)
(* (wrapperHouseList, HouseService.java 477-490, would throw): ids that    *)
(* the index still holds, or that were read a while ago, have their rows.  *)
(***************************************************************************)
NoPageFails == page.phase # "failed"

=============================================================================
