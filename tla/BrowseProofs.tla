----------------------------- MODULE BrowseProofs -----------------------------
(***************************************************************************)
(* What a visitor is shown, for any number of houses, documents and hits.  *)
(* The listener's theorems carry over, since every step of Browse is one   *)
(* of SearchService or leaves it alone; what is added is an account of     *)
(* what the page being made has read so far.                               *)
(***************************************************************************)
EXTENDS Browse, SearchServiceProofs

(***************************************************************************)
(* The types.                                                              *)
(***************************************************************************)
LEMMA BrowseStep == BrowseNext => [Next]_searchVars
BY DEF BrowseNext, Visit, Site, Die, Next

LEMMA NothingType == Nothing \in Content /\ NoPage \in Page
BY DEF Nothing, Content, NoPage, Page, PagePhases

LEMMA RowsFoundType ==
  ASSUME TypeOK, NEW table
  PROVE  RowsFound(table) \in Content
BY DEF TypeOK, RowsFound, Content

\* A page just chosen: hits made from chosen things of known type.
LEMMA ChosenSeq ==
  ASSUME NEW set, NEW chosen \in Choices(set)
  PROVE  \E n \in Nat : chosen \in [1 .. n -> set]
BY PageSizeAssumption DEF Choices

LEMMA SearchPageHits ==
  ASSUME TypeOK, SearchPage
  PROVE  \E hits \in Seq(Hit) :
           /\ page' = [NoPage EXCEPT !.phase = "houses", !.hits = hits]
           /\ \A i \in 1 .. Len(hits) : \E d \in View :
                hits[i].houseId = d.houseId /\ hits[i].drev = d.drev
<1>1. PICK docs \in Choices(View) :
        page' = [NoPage EXCEPT
          !.phase = "houses",
          !.hits = [i \in DOMAIN docs |-> [houseId |-> docs[i].houseId,
                                           drev |-> docs[i].drev]]]
  BY DEF SearchPage
<1>2. PICK n \in Nat : docs \in [1 .. n -> View]
  BY ChosenSeq
<1> DEFINE hits == [i \in 1 .. n |-> [houseId |-> docs[i].houseId, drev |-> docs[i].drev]]
<1>3. hits \in [1 .. n -> Hit]
  <2>1. View \subseteq Document
    BY DEF TypeOK, View
  <2> QED  BY <1>2, <2>1 DEF Document, Hit
<1>4. hits \in Seq(Hit) /\ Len(hits) = n
  BY <1>3
<1>5. page' = [NoPage EXCEPT !.phase = "houses", !.hits = hits]
  BY <1>1, <1>2
<1>6. \A i \in 1 .. n : docs[i] \in View
                       /\ hits[i].houseId = docs[i].houseId /\ hits[i].drev = docs[i].drev
  BY <1>2
<1> QED
  <2> HIDE DEF hits
  <2> QED  BY <1>4, <1>5, <1>6

LEMMA DatabasePageHits ==
  ASSUME TypeOK, DatabasePage
  PROVE  \E hits \in Seq(Hit), content \in Content :
           /\ page' = [NoPage EXCEPT !.phase = "details", !.source = "database",
                                     !.hits = hits, !.house = content]
           /\ \A i \in 1 .. Len(hits) :
                content[hits[i].houseId] = rev[hits[i].houseId]
<1>1. PICK found \in Choices({h \in Houses : "house" \in rows[h]}) :
        page' = [NoPage EXCEPT
          !.phase = "details",
          !.source = "database",
          !.hits = [i \in DOMAIN found |-> [houseId |-> found[i], drev |-> 0]],
          !.house = [h \in Houses |->
                       IF \E i \in DOMAIN found : found[i] = h THEN rev[h] ELSE Missing]]
  BY DEF DatabasePage
<1>2. PICK n \in Nat : found \in [1 .. n -> Houses]
  BY ChosenSeq
<1> DEFINE hits == [i \in 1 .. n |-> [houseId |-> found[i], drev |-> 0]]
           content == [h \in Houses |->
                         IF \E i \in 1 .. n : found[i] = h THEN rev[h] ELSE Missing]
<1>3. hits \in [1 .. n -> Hit]
  BY <1>2 DEF Hit
<1>4. hits \in Seq(Hit) /\ Len(hits) = n
  BY <1>3
<1>5. content \in Content
  BY DEF TypeOK, Content
<1>6. page' = [NoPage EXCEPT !.phase = "details", !.source = "database",
                             !.hits = hits, !.house = content]
  BY <1>1, <1>2
<1>7. \A i \in 1 .. n : content[hits[i].houseId] = rev[hits[i].houseId]
  BY <1>2
<1> QED
  <2> HIDE DEF hits, content
  <2> QED  BY <1>4, <1>5, <1>6, <1>7

LEMMA PageTypeNext ==
  ASSUME TypeOK, page \in Page, [BrowseNext]_browseVars
  PROVE  page' \in Page
<1>1. CASE SearchPage
  <2>1. PICK hits \in Seq(Hit) : page' = [NoPage EXCEPT !.phase = "houses", !.hits = hits]
    BY <1>1, SearchPageHits
  <2> QED  BY <2>1, NothingType DEF Page, PagePhases
<1>2. CASE DatabasePage
  <2>1. PICK hits \in Seq(Hit), content \in Content :
          page' = [NoPage EXCEPT !.phase = "details", !.source = "database",
                                 !.hits = hits, !.house = content]
    BY <1>2, DatabasePageHits
  <2> QED  BY <2>1, NothingType DEF Page, PagePhases
<1>g. ASSUME NEW phase \in PagePhases, NEW content \in Content
      PROVE  /\ [page EXCEPT !.phase = phase] \in Page
             /\ [page EXCEPT !.phase = phase, !.house = content] \in Page
             /\ [page EXCEPT !.phase = phase, !.detail = content] \in Page
  BY DEF Page
<1>p. {"details", "tags", "shown", "failed"} \subseteq PagePhases
  BY DEF PagePhases
<1>r. RowsFound("house") \in Content /\ RowsFound("detail") \in Content
  BY RowsFoundType
<1>3. CASE ReadHouses
  <2>1. page' = [page EXCEPT !.phase = "details", !.house = RowsFound("house")]
    BY <1>3 DEF ReadHouses
  <2> QED  BY <2>1, <1>g, <1>p, <1>r
<1>4. CASE ReadDetails
  <2>1. \/ page' = [page EXCEPT !.phase = "failed"]
        \/ page' = [page EXCEPT !.phase = "tags", !.detail = RowsFound("detail")]
    BY <1>4 DEF ReadDetails
  <2> QED  BY <2>1, <1>g, <1>p, <1>r
<1>5. CASE ReadTags
  <2>1. \/ page' = [page EXCEPT !.phase = "failed"]
        \/ page' = [page EXCEPT !.phase = "shown"]
    BY <1>5 DEF ReadTags
  <2> QED  BY <2>1, <1>g, <1>p, <1>r
<1>6. CASE Leave \/ Die
  BY <1>6, NothingType DEF Leave, Die
<1>7. CASE UNCHANGED page
  BY <1>7
<1> QED
  BY <1>1, <1>2, <1>3, <1>4, <1>5, <1>6, <1>7 DEF BrowseNext, Visit, Site, browseVars

LEMMA BrowseInitType == BrowseInit => BrowseTypeOK
BY InitType, NothingType DEF BrowseInit, BrowseTypeOK

LEMMA BrowseNextType == BrowseTypeOK /\ [BrowseNext]_browseVars => BrowseTypeOK'
<1> SUFFICES ASSUME BrowseTypeOK, [BrowseNext]_browseVars PROVE BrowseTypeOK'
  OBVIOUS
<1>1. [Next]_searchVars
  BY BrowseStep DEF browseVars, searchVars
<1>2. TypeOK'
  BY <1>1, NextType DEF BrowseTypeOK
<1> QED  BY <1>2, PageTypeNext DEF BrowseTypeOK

(***************************************************************************)
(* The page being made is a page, in every phase (HouseService.java        *)
(* 322-355, 416-490).                                                      *)
(***************************************************************************)
THEOREM BrowseTypeCorrect == BrowseSpec => []BrowseTypeOK
BY BrowseInitType, BrowseNextType, PTL DEF BrowseSpec

-----------------------------------------------------------------------------
(***************************************************************************)
(* What the page being made has read so far.  A hit of a search has both   *)
(* rows, no older than its document, for good; what was read of a row is   *)
(* not newer than the row; the detail was read after the house.            *)
(***************************************************************************)
HouseRead == {"details", "tags", "shown"}

DetailRead == {"tags", "shown"}

FromIndex == page.source = "index"

HitHolds(hit) ==
  LET h == hit.houseId
  IN /\ FromIndex => {"house", "detail"} \subseteq rows[h] /\ hit.drev <= rev[h]
     /\ page.phase \in HouseRead =>
          /\ page.house[h] # Missing
          /\ page.house[h] <= rev[h]
          /\ FromIndex => hit.drev <= page.house[h]
     /\ page.phase \in DetailRead /\ FromIndex =>
          page.detail[h] # Missing /\ page.house[h] <= page.detail[h]

PageHolds ==
  /\ page.phase # "failed"
  /\ page.phase = "houses" => FromIndex
  /\ \A i \in 1 .. Len(page.hits) : HitHolds(page.hits[i])

LEMMA PageHoldsInit == BrowseInit => PageHolds
BY DEF BrowseInit, PageHolds, NoPage

\* What the types say of one hit.
LEMMA HitTypes ==
  ASSUME TypeOK, page \in Page, NEW i \in 1 .. Len(page.hits)
  PROVE  /\ page.hits[i] \in Hit
         /\ page.hits[i].houseId \in Houses
         /\ page.hits[i].drev \in Nat
         /\ rev[page.hits[i].houseId] \in Nat
         /\ page.house[page.hits[i].houseId] \in Nat \cup {Missing}
         /\ page.detail[page.hits[i].houseId] \in Nat \cup {Missing}
<1>1. page.hits \in Seq(Hit) /\ page.house \in Content /\ page.detail \in Content
  BY DEF Page
<1>2. page.hits[i] \in Hit
  BY <1>1
<1> QED  BY <1>1, <1>2 DEF Hit, Content, TypeOK

\* The page stays as it is and the database moves on.
LEMMA PageHoldsAround ==
  ASSUME TypeOK, TypeOK', RowsMoveOn, page \in Page, PageHolds, UNCHANGED page
  PROVE  PageHolds'
<1>1. ASSUME NEW i \in 1 .. Len(page.hits) PROVE HitHolds(page.hits[i])'
  <2> DEFINE hit == page.hits[i]
             h == hit.houseId
  <2>1. /\ h \in Houses /\ hit.drev \in Nat
        /\ page.house[h] \in Nat \cup {Missing}
    BY HitTypes
  <2>2. rows[h] \subseteq rows'[h] /\ rev[h] <= rev'[h] /\ rev[h] \in Nat /\ rev'[h] \in Nat
    BY <2>1 DEF RowsMoveOn, TypeOK
  <2>3. HitHolds(hit)
    BY DEF PageHolds
  <2>4. \A n \in Nat : n <= rev[h] => n <= rev'[h]
    BY <2>2
  <2> HIDE DEF hit, h
  <2> QED  BY <2>1, <2>2, <2>3, <2>4 DEF HitHolds, FromIndex, hit, h
<1> QED  BY <1>1 DEF PageHolds, FromIndex

LEMMA PageHoldsNext ==
  ASSUME TypeOK, BuiltFromRows, page \in Page, PageHolds, [BrowseNext]_browseVars
  PROVE  PageHolds'
<1>1. CASE SearchPage /\ UNCHANGED searchVars
  <2>1. PICK hits \in Seq(Hit) :
          /\ page' = [NoPage EXCEPT !.phase = "houses", !.hits = hits]
          /\ \A i \in 1 .. Len(hits) : \E d \in View :
               hits[i].houseId = d.houseId /\ hits[i].drev = d.drev
    BY <1>1, SearchPageHits
  <2>2. page'.phase = "houses" /\ page'.source = "index" /\ page'.hits = hits
    BY <2>1 DEF NoPage
  <2>3. ASSUME NEW i \in 1 .. Len(hits) PROVE HitHolds(hits[i])'
    <3>1. PICK d \in View : hits[i].houseId = d.houseId /\ hits[i].drev = d.drev
      BY <2>1
    <3>2. Built(d)
      BY DEF BuiltFromRows, View
    <3>3. /\ {"house", "detail"} \subseteq rows[hits[i].houseId]
          /\ hits[i].drev <= rev[hits[i].houseId]
      BY <3>1, <3>2 DEF Built
    <3>4. UNCHANGED <<rows, rev>>
      BY <1>1 DEF searchVars
    <3> QED  BY <2>2, <3>3, <3>4 DEF HitHolds, HouseRead, DetailRead, FromIndex
  <2> QED  BY <2>2, <2>3 DEF PageHolds, FromIndex
<1>2. CASE DatabasePage /\ UNCHANGED searchVars
  <2>1. PICK hits \in Seq(Hit), content \in Content :
          /\ page' = [NoPage EXCEPT !.phase = "details", !.source = "database",
                                    !.hits = hits, !.house = content]
          /\ \A i \in 1 .. Len(hits) : content[hits[i].houseId] = rev[hits[i].houseId]
    BY <1>2, DatabasePageHits
  <2>2. /\ page'.phase = "details" /\ page'.source = "database"
        /\ page'.hits = hits /\ page'.house = content
    BY <2>1 DEF NoPage
  <2>3. ASSUME NEW i \in 1 .. Len(hits) PROVE HitHolds(hits[i])'
    <3>1. hits[i].houseId \in Houses
      <4>1. hits[i] \in Hit
        OBVIOUS
      <4> QED  BY <4>1 DEF Hit
    <3>2. content[hits[i].houseId] = rev[hits[i].houseId] /\ rev[hits[i].houseId] \in Nat
      BY <2>1, <3>1 DEF TypeOK
    <3>3. UNCHANGED rev
      BY <1>2 DEF searchVars
    <3> QED
      BY <2>2, <3>2, <3>3, MissingAssumption DEF HitHolds, HouseRead, DetailRead, FromIndex
  <2> QED  BY <2>2, <2>3 DEF PageHolds, FromIndex
<1>3. CASE ReadHouses /\ UNCHANGED searchVars
  <2>1. /\ page.phase = "houses" /\ FromIndex
        /\ page' = [page EXCEPT !.phase = "details", !.house = RowsFound("house")]
    BY <1>3 DEF ReadHouses, PageHolds
  <2>2. /\ page'.phase = "details" /\ page'.source = page.source
        /\ page'.hits = page.hits /\ page'.house = RowsFound("house")
    BY <2>1 DEF Page
  <2>3. ASSUME NEW i \in 1 .. Len(page.hits) PROVE HitHolds(page.hits[i])'
    <3> DEFINE h == page.hits[i].houseId
    <3>1. h \in Houses /\ rev[h] \in Nat /\ h \in HousesOf(page.hits)
      BY HitTypes DEF HousesOf
    <3>2. {"house", "detail"} \subseteq rows[h] /\ page.hits[i].drev <= rev[h]
      BY <2>1 DEF PageHolds, HitHolds
    <3>3. RowsFound("house")[h] = rev[h]
      BY <3>1, <3>2 DEF RowsFound
    <3>4. UNCHANGED <<rows, rev>>
      BY <1>3 DEF searchVars
    <3> QED
      BY <2>1, <2>2, <3>1, <3>2, <3>3, <3>4, MissingAssumption
         DEF HitHolds, HouseRead, DetailRead, FromIndex
  <2> QED  BY <2>2, <2>3 DEF PageHolds, FromIndex
<1>4. CASE ReadDetails /\ UNCHANGED searchVars
  <2>1. page.phase = "details"
    BY <1>4 DEF ReadDetails
  <2>2. ~ Stray("detail")
    <3>1. ASSUME NEW h \in HousesOf(page.hits) PROVE page.house[h] # Missing
      BY <2>1 DEF HousesOf, PageHolds, HitHolds, HouseRead
    <3> QED  BY <3>1 DEF Stray
  <2>3. page' = [page EXCEPT !.phase = "tags", !.detail = RowsFound("detail")]
    BY <1>4, <2>2 DEF ReadDetails
  <2>4. /\ page'.phase = "tags" /\ page'.source = page.source /\ page'.hits = page.hits
        /\ page'.house = page.house /\ page'.detail = RowsFound("detail")
    BY <2>3 DEF Page
  <2>5. ASSUME NEW i \in 1 .. Len(page.hits) PROVE HitHolds(page.hits[i])'
    <3> DEFINE h == page.hits[i].houseId
    <3>1. h \in Houses /\ rev[h] \in Nat /\ h \in HousesOf(page.hits)
      BY HitTypes DEF HousesOf
    <3>2. HitHolds(page.hits[i])
      BY DEF PageHolds
    <3>3. FromIndex => RowsFound("detail")[h] = rev[h]
      BY <3>1, <3>2 DEF RowsFound, HitHolds
    <3>4. UNCHANGED <<rows, rev>>
      BY <1>4 DEF searchVars
    <3> QED
      BY <2>1, <2>4, <3>1, <3>2, <3>3, <3>4, MissingAssumption
         DEF HitHolds, HouseRead, DetailRead, FromIndex
  <2> QED  BY <2>4, <2>5 DEF PageHolds, FromIndex
<1>5. CASE ReadTags /\ UNCHANGED searchVars
  <2>1. page.phase = "tags"
    BY <1>5 DEF ReadTags
  <2>2. ~ Stray("tag")
    <3>1. ASSUME NEW h \in HousesOf(page.hits) PROVE page.house[h] # Missing
      BY <2>1 DEF HousesOf, PageHolds, HitHolds, HouseRead
    <3> QED  BY <3>1 DEF Stray
  <2>3. page' = [page EXCEPT !.phase = "shown"]
    BY <1>5, <2>2 DEF ReadTags
  <2>4. /\ page'.phase = "shown" /\ page'.source = page.source /\ page'.hits = page.hits
        /\ page'.house = page.house /\ page'.detail = page.detail
    BY <2>3 DEF Page
  <2>5. ASSUME NEW i \in 1 .. Len(page.hits) PROVE HitHolds(page.hits[i])'
    <3>1. HitHolds(page.hits[i])
      BY DEF PageHolds
    <3>2. UNCHANGED <<rows, rev>>
      BY <1>5 DEF searchVars
    <3> QED
      BY <2>1, <2>4, <3>1, <3>2 DEF HitHolds, HouseRead, DetailRead, FromIndex
  <2> QED  BY <2>4, <2>5 DEF PageHolds, FromIndex
<1>6. CASE page' = NoPage
  BY <1>6 DEF PageHolds, NoPage
<1>7. CASE UNCHANGED page
  <2>1. [Next]_searchVars
    BY BrowseStep DEF browseVars, searchVars
  <2> QED  BY <1>7, <2>1, NextType, NextMovesOn, PageHoldsAround
<1> QED
  BY <1>1, <1>2, <1>3, <1>4, <1>5, <1>6, <1>7
     DEF BrowseNext, Visit, Site, Die, Leave, browseVars

LEMMA PageHoldsAlways == BrowseSpec => [](BrowseTypeOK /\ PageHolds)
<1> DEFINE Inv == BrowseTypeOK /\ BuiltFromRows /\ PageHolds
<1>1. BrowseInit => Inv
  <2>1. Init => BuiltFromRows
    BY DEF Init, ListenerInit, BuiltFromRows, At, Writing, NoMessage
  <2> QED  BY <2>1, BrowseInitType, PageHoldsInit DEF BrowseInit
<1>2. Inv /\ [BrowseNext]_browseVars => Inv'
  <2> SUFFICES ASSUME Inv, [BrowseNext]_browseVars PROVE Inv'
    OBVIOUS
  <2>1. [Next]_searchVars
    BY BrowseStep DEF browseVars, searchVars
  <2>2. BuiltFromRows'
    BY <2>1, BuiltNext DEF BrowseTypeOK
  <2>3. PageHolds'
    BY PageHoldsNext DEF BrowseTypeOK
  <2> QED  BY <2>2, <2>3, BrowseNextType
<1>3. Inv => BrowseTypeOK /\ PageHolds
  OBVIOUS
<1> HIDE DEF Inv
<1> QED  BY <1>1, <1>2, <1>3, PTL DEF BrowseSpec

(***************************************************************************)
(* Every hit of a keyword or map query is shown with both rows, neither    *)
(* older than the document found (HouseService.java 416-431, 477-490).     *)
(***************************************************************************)
THEOREM HitsAreShown == BrowseSpec => []PageComplete
<1>1. BrowseTypeOK /\ PageHolds => PageComplete
  BY DEF PageHolds, HitHolds, PageComplete, HouseRead, DetailRead, FromIndex
<1> QED  BY <1>1, PageHoldsAlways, PTL

(***************************************************************************)
(* No page fails on a row of a house that was not found (HouseService.java *)
(* 477-490).                                                               *)
(***************************************************************************)
THEOREM PagesSucceed == BrowseSpec => []NoPageFails
<1>1. BrowseTypeOK /\ PageHolds => NoPageFails
  BY DEF PageHolds, NoPageFails
<1> QED  BY <1>1, PageHoldsAlways, PTL

=============================================================================
