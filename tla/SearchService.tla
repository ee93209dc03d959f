---------------------------- MODULE SearchService ----------------------------
(***************************************************************************)
(* SearchService.java: the single listener of topic house_build, which     *)
(* mirrors listed houses into the Elasticsearch index xunwu and the Baidu  *)
(* LBS table.                                                              *)
(*                                                                         *)
(* A message is handled by a sequence of reads and remote calls; each one  *)
(* is a step here, so the database, the topic and the index may move       *)
(* between any two.  The listener shares rows, rev and topic with the      *)
(* house service, which appears as the environment steps EnvRows and       *)
(* EnvSend: the little the listener relies on.                             *)
(*                                                                         *)
(* External parts, as src/ uses them: Kafka keeps the messages from the    *)
(* last committed offset (topic) and how many of them were delivered       *)
(* (position); offsets are committed between deliveries, so a restart      *)
(* delivers the uncommitted ones again.  Elasticsearch answers a search    *)
(* from its last refresh (seen) while writes go to the documents           *)
(* themselves (live); delete-by-query deletes what it saw if it is still   *)
(* so.  The index gives each created document an id of its own.            *)
(***************************************************************************)
EXTENDS HouseVocabulary, Mishaps, FiniteSets

CONSTANTS
  DocIds,          \* document identities
  RefreshLag,      \* TRUE: searches may miss writes since the last refresh
  Revisions        \* the contents the environment may commit

ASSUME DocIdsAssumption == DocIds \subseteq Nat
ASSUME RefreshLagAssumption == RefreshLag \in BOOLEAN
ASSUME RevisionsAssumption == Revisions \subseteq Nat

VARIABLES
  rows, rev,       \* the database: see HouseService
  topic,           \* messages since the committed offset
  position,        \* how many of them have been delivered
  handler,         \* the message being handled and how far
  live,            \* the documents of the index
  seen,            \* the documents a search sees
  poi              \* poi[h]: entries of house h in the LBS table

indexVars    == <<live, seen>>
listenerVars == <<position, handler, live, seen, poi>>
searchVars   == <<rows, rev, topic, position, handler, live, seen, poi, faults>>

\* hrev and drev are the contents of the house row and of the detail row the
\* document was built from.
Document == [id : DocIds, houseId : Houses, hrev : Nat, drev : Nat]

HandlerPhases ==
  {"idle", "house", "detail", "geocode", "search", "write", "create",
   "upload", "delete", "unload"}

\* found: the ids the search returned.  ok: no step has failed so far.
Handler ==
  [phase : HandlerPhases, houseId : Houses, retry : 0 .. MAX_RETRY,
   hrev : Nat, drev : Nat, found : SUBSET DocIds, ok : BOOLEAN]

NoMessage ==
  [phase |-> "idle", houseId |-> CHOOSE h \in Houses : TRUE, retry |-> 0,
   hrev |-> 0, drev |-> 0, found |-> {}, ok |-> TRUE]

TypeOK ==
  /\ rows \in [Houses -> SUBSET Tables]
  /\ rev \in [Houses -> Nat]
  /\ topic \in Seq(HouseIndexMessage)
  /\ position \in 0 .. Len(topic)
  /\ handler \in Handler
  /\ live \subseteq Document
  /\ seen \subseteq Document
  /\ poi \in [Houses -> Nat]
  /\ faults \in 0 .. MaxFaults

ListenerInit ==
  /\ position = 0
  /\ handler = NoMessage
  /\ live = {}
  /\ seen = {}
  /\ poi = [h \in Houses |-> 0]

\* The listener starts on a database in any state.
Init ==
  /\ rows \in [Houses -> SUBSET Tables]
  /\ rev \in [Houses -> Revisions]
  /\ topic = <<>>
  /\ faults = 0
  /\ ListenerInit

-----------------------------------------------------------------------------
At(phase) == handler.phase = phase

Goto(phase) == handler' = [handler EXCEPT !.phase = phase]

Done == handler' = NoMessage

\* Variants with a bug: one retry too many; retries that are not counted.
Requeue_OneMore(operation) ==
  IF handler.retry > MAX_RETRY
    THEN UNCHANGED topic
    ELSE topic' = Append(topic, Message(handler.houseId, operation, handler.retry + 1))

Requeue_Uncounted(operation) ==
  topic' = Append(topic, Message(handler.houseId, operation, handler.retry))

\* index(id, retry) and remove(id, retry): once more at the end of the topic,
\* or given up for good.
Requeue(operation) ==
  IF handler.retry + 1 > MAX_RETRY
    THEN UNCHANGED topic
    ELSE topic' = Append(topic, Message(handler.houseId, operation, handler.retry + 1))

\* The result of the send is not looked at.  (A send lost on top of another
\* mishap ends the message as an exception does.)
Retry(operation) ==
  \/ NoMishap /\ Requeue(operation)
  \/ Mishap("send") /\ UNCHANGED topic

View == IF RefreshLag THEN seen ELSE live

Write(docs) ==
  /\ live' = docs
  /\ seen' = IF RefreshLag THEN seen ELSE docs

Of(docs, h) == {d \in docs : d.houseId = h}

\* delete-by-query: what the search sees, unless it has changed since.
Deleted(h) == Of(View, h) \cap live

UsedIds == {d.id : d \in live \cup seen} \cup handler.found

\* The document built from what the handler has read.
Template(id) ==
  [id |-> id, houseId |-> handler.houseId,
   hrev |-> handler.hrev, drev |-> handler.drev]

NewDocument == Template(CHOOSE id \in DocIds \ UsedIds : TRUE)

-----------------------------------------------------------------------------
Poll ==
  LET m == topic[position + 1]
  IN /\ At("idle")
     /\ position < Len(topic)
     /\ position' = position + 1
     /\ handler' =
          [NoMessage EXCEPT
             !.phase = IF m.operation = INDEX THEN "house" ELSE "delete",
             !.houseId = m.houseId, !.retry = m.retry]
     /\ NoMishap
     /\ UNCHANGED <<topic, indexVars, poi>>

\* A variant with a bug: offsets are committed while a message is handled.
AutoCommit_Early ==
  /\ position > 0
  /\ topic' = SubSeq(topic, position + 1, Len(topic))
  /\ position' = 0
  /\ NoMishap
  /\ UNCHANGED <<handler, indexVars, poi>>

\* Auto-commit happens in poll, when everything delivered has been handled.
AutoCommit ==
  /\ At("idle")
  /\ position > 0
  /\ topic' = SubSeq(topic, position + 1, Len(topic))
  /\ position' = 0
  /\ NoMishap
  /\ UNCHANGED <<handler, indexVars, poi>>

-----------------------------------------------------------------------------
(* createOrUpdateIndex                                                     *)

\* A variant with a bug: the row comes from a cache that may be behind.
LoadHouse_Cached ==
  LET h == handler.houseId
  IN /\ At("house")
     /\ \/ "house" \notin rows[h] /\ Done
        \/ /\ "house" \in rows[h]
           /\ \E old \in 0 .. rev[h] :
                handler' = [handler EXCEPT !.phase = "detail", !.hrev = old]
     /\ NoMishap
     /\ UNCHANGED <<topic, position, indexVars, poi>>

LoadHouse ==
  LET h == handler.houseId
  IN /\ At("house")
     /\ \/ "house" \notin rows[h] /\ Done
        \/ /\ "house" \in rows[h]
           /\ handler' = [handler EXCEPT !.phase = "detail", !.hrev = rev[h]]
     /\ NoMishap
     /\ UNCHANGED <<topic, position, indexVars, poi>>

\* A variant with a bug: no detail row is not noticed.
LoadDetail_Unchecked ==
  /\ At("detail")
  /\ handler' = [handler EXCEPT !.phase = "geocode", !.drev = rev[handler.houseId]]
  /\ NoMishap
  /\ UNCHANGED <<topic, position, indexVars, poi>>

LoadDetail ==
  LET h == handler.houseId
  IN /\ At("detail")
     /\ \/ "detail" \notin rows[h] /\ Done
        \/ /\ "detail" \in rows[h]
           /\ handler' = [handler EXCEPT !.phase = "geocode", !.drev = rev[h]]
     /\ NoMishap
     /\ UNCHANGED <<topic, position, indexVars, poi>>

Geocode ==
  /\ At("geocode")
  /\ \/ NoMishap /\ Goto("search") /\ UNCHANGED topic
     \/ Mishap("geocode") /\ Requeue(INDEX) /\ Done
  /\ UNCHANGED <<position, indexVars, poi>>

\* A variant with a bug: the query matches no document.
Search_Blind ==
  /\ At("search")
  /\ NoMishap
  /\ handler' = [handler EXCEPT !.phase = "write", !.found = {}]
  /\ UNCHANGED <<topic, position, indexVars, poi>>

Search ==
  /\ At("search")
  /\ NoMishap
  /\ handler' = [handler EXCEPT
       !.phase = "write",
       !.found = {d.id : d \in Of(View, handler.houseId)}]
  /\ UNCHANGED <<topic, position, indexVars, poi>>

\* No document found: create one.
WriteNone ==
  /\ At("write")
  /\ handler.found = {}
  /\ DocIds \ UsedIds # {}
  /\ Write(live \cup {NewDocument})
  /\ Goto("upload")
  /\ NoMishap
  /\ UNCHANGED <<topic, position, poi>>

\* One found: replace its content.  Gone meanwhile, the update throws.
WriteOne ==
  /\ At("write")
  /\ \E id \in DocIds :
       /\ handler.found = {id}
       /\ \/ /\ \E d \in live : d.id = id
             /\ Write({d \in live : d.id # id} \cup {Template(id)})
             /\ Goto("upload")
          \/ /\ \A d \in live : d.id # id
             /\ Done
             /\ UNCHANGED indexVars
  /\ NoMishap
  /\ UNCHANGED <<topic, position, poi>>

\* A variant with a bug: it is not noticed that nothing was created.
WriteMany_Unnoticed ==
  LET gone == Deleted(handler.houseId)
      same == Cardinality(gone) = Cardinality(handler.found)
  IN /\ At("write")
     /\ Cardinality(handler.found) > 1
     /\ Write(live \ gone)
     /\ handler' = [handler EXCEPT !.phase = IF same THEN "create" ELSE "upload"]
     /\ NoMishap
     /\ UNCHANGED <<topic, position, poi>>

\* Several found: deleteAndCreate deletes them first, and creates nothing when
\* it did not delete as many as were found.
WriteMany ==
  LET gone == Deleted(handler.houseId)
      same == Cardinality(gone) = Cardinality(handler.found)
  IN /\ At("write")
     /\ Cardinality(handler.found) > 1
     /\ Write(live \ gone)
     /\ handler' = [handler EXCEPT !.phase = IF same THEN "create" ELSE "upload",
                                   !.ok = same]
     /\ NoMishap
     /\ UNCHANGED <<topic, position, poi>>

CreateAfterDelete ==
  /\ At("create")
  /\ DocIds \ UsedIds # {}
  /\ Write(live \cup {NewDocument})
  /\ Goto("upload")
  /\ NoMishap
  /\ UNCHANGED <<topic, position, poi>>

\* lbsUpload asks whether the house has an entry and takes a failed answer for
\* no: it then creates a second one.  An upload whose answer fails may have
\* been carried out.
Upload ==
  LET h == handler.houseId
      created == [poi EXCEPT ![h] = @ + 1]
  IN /\ At("upload")
     /\ \/ /\ poi' = IF poi[h] = 0 THEN created ELSE poi
           /\ IF handler.ok THEN NoMishap /\ UNCHANGED topic ELSE Retry(INDEX)
        \/ /\ Mishap("lookup")
           /\ poi' = created
           /\ IF handler.ok THEN UNCHANGED topic ELSE Requeue(INDEX)
        \/ /\ Mishap("lbs")
           /\ poi' \in {poi, IF poi[h] = 0 THEN created ELSE poi}
           /\ Requeue(INDEX)
     /\ Done
     /\ UNCHANGED <<position, indexVars>>

-----------------------------------------------------------------------------
(* removeIndex                                                             *)

Delete ==
  LET gone == Deleted(handler.houseId)
  IN /\ At("delete")
     /\ Write(live \ gone)
     /\ handler' = [handler EXCEPT !.phase = "unload", !.ok = (gone # {})]
     /\ NoMishap
     /\ UNCHANGED <<topic, position, poi>>

\* A variant with a bug: the entry goes only if a document went.
Unload_Paired ==
  /\ At("unload")
  /\ \/ /\ poi' = [poi EXCEPT ![handler.houseId] = IF handler.ok THEN 0 ELSE @]
        /\ IF handler.ok THEN NoMishap /\ UNCHANGED topic ELSE Retry(REMOVE)
     \/ /\ Mishap("lbs")
        /\ poi' \in {poi, [poi EXCEPT ![handler.houseId] = 0]}
        /\ Requeue(REMOVE)
  /\ Done
  /\ UNCHANGED <<position, indexVars>>

\* Deleting nothing counts as a failure.
Unload ==
  /\ At("unload")
  /\ \/ /\ poi' = [poi EXCEPT ![handler.houseId] = 0]
        /\ IF handler.ok THEN NoMishap /\ UNCHANGED topic ELSE Retry(REMOVE)
     \/ /\ Mishap("lbs")
        /\ poi' \in {poi, [poi EXCEPT ![handler.houseId] = 0]}
        /\ Requeue(REMOVE)
  /\ Done
  /\ UNCHANGED <<position, indexVars>>

-----------------------------------------------------------------------------
\* A runtime exception of a remote call leaves handleMessage, which catches
\* IOException only: the container logs it and the message is over.
HandlerThrows ==
  /\ ~ At("idle")
  /\ Mishap("exception")
  /\ Done
  /\ UNCHANGED <<topic, position, indexVars, poi>>

Refresh ==
  /\ seen # live
  /\ seen' = live
  /\ NoMishap
  /\ UNCHANGED <<topic, position, handler, live, poi>>

\* The process dies: delivery starts again at the committed offset.
Restart ==
  /\ handler' = NoMessage
  /\ position' = 0
  /\ UNCHANGED <<topic, indexVars, poi>>

Handle ==
  \/ LoadHouse
  \/ LoadDetail
  \/ Geocode
  \/ Search
  \/ WriteNone
  \/ WriteOne
  \/ WriteMany
  \/ CreateAfterDelete
  \/ Upload
  \/ Delete
  \/ Unload
  \/ HandlerThrows

ListenerNext == (Poll \/ AutoCommit \/ Handle \/ Refresh) /\ UNCHANGED <<rows, rev>>

Crash == Mishap("crash") /\ Restart /\ UNCHANGED <<rows, rev>>

-----------------------------------------------------------------------------
(* What the listener relies on: rows are never deleted and contents only   *)
(* move on (committed by anybody), and new messages are appended.          *)

EnvRows ==
  /\ rows' \in [Houses -> SUBSET Tables]
  /\ rev' \in [Houses -> Revisions]
  /\ \A h \in Houses : rows[h] \subseteq rows'[h] /\ rev[h] <= rev'[h]
  /\ faults' \in faults .. MaxFaults
  /\ UNCHANGED <<topic, listenerVars>>

EnvSend ==
  /\ \E h \in Houses, operation \in {INDEX, REMOVE} :
       topic' = Append(topic, Message(h, operation, 0))
  /\ NoMishap
  /\ UNCHANGED <<rows, rev, listenerVars>>

Env == EnvRows \/ EnvSend

Next == ListenerNext \/ Crash \/ Env

Spec == Init /\ [][Next]_searchVars

-----------------------------------------------------------------------------
(***************************************************************************)
(* Properties.                                                             *)
(***************************************************************************)

\* The phases in which both rows have been read.
Writing == {"geocode", "search", "write", "create", "upload"}

Built(d) ==
  /\ {"house", "detail"} \subseteq rows[d.houseId]
  /\ d.hrev <= d.drev
  /\ d.drev <= rev[d.houseId]

(***************************************************************************)
(* Every document, and every document being built, comes from rows that    *)
(* exist, and though the two rows are read apart (createOrUpdateIndex,     *)
(* SearchService.java 133 and 141) the detail in it is never older than    *)
(* the house: the order of the two reads is what rules it out.             *)
(***************************************************************************)
BuiltFromRows ==
  /\ \A d \in live \cup seen : Built(d)
  /\ At("detail") =>
       /\ "house" \in rows[handler.houseId]
       /\ handler.hrev <= rev[handler.houseId]
  /\ handler.phase \in Writing => Built(Template(0))

(***************************************************************************)
(* A message is committed only when its handling is over: whatever the     *)
(* handler is working on is still in the uncommitted part of the topic, at *)
(* the last delivered place, to be delivered again after a crash.          *)
(***************************************************************************)
UnfinishedIsUncommitted ==
  ~ At("idle") =>
    /\ position > 0
    /\ topic[position].houseId = handler.houseId
    /\ topic[position].retry = handler.retry
    /\ topic[position].operation =
         IF handler.phase \in {"delete", "unload"} THEN REMOVE ELSE INDEX

(***************************************************************************)
(* With searches that see every write, a house never has two documents,    *)
(* over crashes between search and create, abandoned messages and          *)
(* redeliveries (createOrUpdateIndex, SearchService.java 165-179).         *)
(***************************************************************************)
OneDocument ==
  ~RefreshLag => \A d, e \in live : d.houseId = e.houseId => d = e

(***************************************************************************)
(* Index and LBS table mirror the listing by separate calls                *)
(* (SearchService.java 113-129 and 181-189) that fail separately: when all *)
(* messages are handled a house is in both or in neither, though the       *)
(* process died between the two calls and a redelivery or a retry finds    *)
(* half of the work done.                                                  *)
(***************************************************************************)
MirrorsAgree ==
  At("idle") /\ position = Len(topic) =>
    \A h \in Houses : Of(live, h) # {} <=> poi[h] > 0

(***************************************************************************)
(* Replacing the content of a document never brings an older one back, not *)
(* even for one of the two rows: messages are handled one at a time, each  *)
(* reading the rows anew (SearchService.java 133-179).                     *)
(***************************************************************************)
ContentMovesOn ==
  [][\A d \in live, e \in live' :
       d.houseId = e.houseId /\ d # e /\ e \notin live => d.drev <= e.hrev]_searchVars

\* The documents of the house in work with the content read for it.
AsRead == {d \in Of(live, handler.houseId) :
             d.hrev = handler.hrev /\ d.drev = handler.drev}

(***************************************************************************)
(* An INDEX handled to its end is not lost, though deleteAndCreate deletes *)
(* first and creates nothing when the counts differ (SearchService.java    *)
(* 543-557): the house is in the index with the content read for this very *)
(* message, or the message is in the topic again, or it has used up its    *)
(* retries, unless the send of the retry is lost.                          *)
(***************************************************************************)
IndexedOrAskedAgain ==
  [][Upload /\ ~ Mishap("send") =>
       \/ AsRead # {}
       \/ topic' = Append(topic, Message(handler.houseId, INDEX, handler.retry + 1))
       \/ handler.retry = MAX_RETRY]_searchVars

(***************************************************************************)
(* Retries end: even if no remote call ever succeeds again, once no new    *)
(* message arrives the topic is worked off for good.  index and remove     *)
(* give up after MAX_RETRY (SearchService.java 196-200 and 474-478), also  *)
(* on a removal that fails each time because there is nothing to remove.   *)
(***************************************************************************)
Drains == <>[](At("idle") /\ position = Len(topic))

=============================================================================
