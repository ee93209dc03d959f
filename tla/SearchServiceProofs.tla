-------------------------- MODULE SearchServiceProofs --------------------------
(***************************************************************************)
(* Theorems about SearchService: for any number of houses, documents and   *)
(* messages, for every combination of mishaps, with and without lagging    *)
(* searches, and whatever its environment commits and sends meanwhile.     *)
(***************************************************************************)
EXTENDS SearchService, FiniteSetTheorems, TLAPS

USE DEF INDEX, REMOVE, MAX_RETRY

-----------------------------------------------------------------------------
(***************************************************************************)
(* Types.                                                                  *)
(***************************************************************************)
LEMMA NoMessageType == NoMessage \in Handler
<1>1. (CHOOSE h \in Houses : TRUE) \in Houses
  BY HousesAssumption
<1> QED  BY <1>1 DEF NoMessage, Handler, HandlerPhases

LEMMA MishapType ==
  ASSUME faults \in 0 .. MaxFaults, NEW kind, Mishap(kind) \/ NoMishap
  PROVE  faults' \in 0 .. MaxFaults
BY FaultBudget DEF Mishap, NoMishap

LEMMA RequeueType ==
  ASSUME TypeOK, NEW operation \in {INDEX, REMOVE}, Requeue(operation)
  PROVE  topic' \in Seq(HouseIndexMessage) /\ Len(topic) <= Len(topic')
<1>1. handler.retry \in 0 .. MAX_RETRY /\ handler.houseId \in Houses
  BY DEF TypeOK, Handler
<1>2. topic \in Seq(HouseIndexMessage)
  BY DEF TypeOK
<1>3. CASE handler.retry + 1 > MAX_RETRY
  BY <1>2, <1>3 DEF Requeue
<1>4. CASE handler.retry + 1 <= MAX_RETRY
  <2> DEFINE m == Message(handler.houseId, operation, handler.retry + 1)
  <2>1. m \in HouseIndexMessage
    BY <1>1, <1>4 DEF Message, HouseIndexMessage
  <2>2. topic' = Append(topic, m)
    BY <1>1, <1>4 DEF Requeue
  <2> HIDE DEF m
  <2> QED  BY <1>2, <2>1, <2>2
<1> QED  BY <1>1, <1>3, <1>4

LEMMA NewDocumentType ==
  ASSUME TypeOK, DocIds \ UsedIds # {}
  PROVE  NewDocument \in Document
<1>1. (CHOOSE id \in DocIds \ UsedIds : TRUE) \in DocIds
  OBVIOUS
<1>2. handler.houseId \in Houses /\ handler.hrev \in Nat /\ handler.drev \in Nat
  BY DEF TypeOK, Handler
<1> QED  BY <1>1, <1>2 DEF NewDocument, Template, Document

LEMMA WriteType ==
  ASSUME TypeOK, NEW docs \in SUBSET Document, Write(docs)
  PROVE  live' \subseteq Document /\ seen' \subseteq Document
BY DEF Write, TypeOK

LEMMA InitType == Init => TypeOK
<1> SUFFICES ASSUME Init PROVE TypeOK
  OBVIOUS
<1>1. rev \in [Houses -> Nat]
  BY RevisionsAssumption DEF Init
<1>2. topic \in Seq(HouseIndexMessage) /\ position \in 0 .. Len(topic)
  BY DEF Init, ListenerInit
<1>3. faults \in 0 .. MaxFaults
  BY FaultBudget DEF Init
<1>4. poi \in [Houses -> Nat] /\ live \subseteq Document /\ seen \subseteq Document
  BY DEF Init, ListenerInit
<1> QED  BY <1>1, <1>2, <1>3, <1>4, NoMessageType DEF Init, ListenerInit, TypeOK

LEMMA HandleType ==
  ASSUME TypeOK, Handle, UNCHANGED <<rows, rev>>
  PROVE  TypeOK'
<1>h. /\ handler \in Handler
      /\ handler.houseId \in Houses /\ handler.retry \in 0 .. MAX_RETRY
      /\ handler.hrev \in Nat /\ handler.drev \in Nat /\ handler.found \subseteq DocIds
      /\ handler.ok \in BOOLEAN
  BY DEF TypeOK, Handler
\* What a step of the handler has to show.
<1>k. ASSUME handler' \in Handler,
             topic' \in Seq(HouseIndexMessage), Len(topic) <= Len(topic'),
             live' \subseteq Document, seen' \subseteq Document,
             poi' \in [Houses -> Nat], position' = position,
             faults' \in 0 .. MaxFaults
      PROVE  TypeOK'
  BY <1>k DEF TypeOK
<1>d. ASSUME Done PROVE handler' \in Handler
  BY <1>d, NoMessageType DEF Done
<1>g. ASSUME NEW phase \in HandlerPhases, Goto(phase) PROVE handler' \in Handler
  BY <1>g, <1>h DEF Goto, Handler
<1>t. ASSUME UNCHANGED topic
      PROVE  topic' \in Seq(HouseIndexMessage) /\ Len(topic) <= Len(topic')
  BY <1>t DEF TypeOK
<1>i. ASSUME UNCHANGED indexVars
      PROVE  live' \subseteq Document /\ seen' \subseteq Document
  BY <1>i DEF TypeOK, indexVars
<1>p. ASSUME UNCHANGED poi PROVE poi' \in [Houses -> Nat]
  BY <1>p DEF TypeOK
<1>f. ASSUME NoMishap \/ \E kind : Mishap(kind) PROVE faults' \in 0 .. MaxFaults
  BY <1>f, MishapType DEF TypeOK
<1>1. CASE LoadHouse
  <2>1. handler' \in Handler
    <3>1. CASE Done
      BY <3>1, <1>d
    <3>2. CASE handler' = [handler EXCEPT !.phase = "detail", !.hrev = rev[handler.houseId]]
      <4>1. rev[handler.houseId] \in Nat
        BY <1>h DEF TypeOK
      <4> QED  BY <3>2, <4>1, <1>h DEF Handler, HandlerPhases
    <3> QED  BY <1>1, <3>1, <3>2 DEF LoadHouse
  <2> QED  BY <1>1, <2>1, <1>k, <1>t, <1>i, <1>p, <1>f DEF LoadHouse
<1>2. CASE LoadDetail
  <2>1. handler' \in Handler
    <3>1. CASE Done
      BY <3>1, <1>d
    <3>2. CASE handler' = [handler EXCEPT !.phase = "geocode", !.drev = rev[handler.houseId]]
      <4>1. rev[handler.houseId] \in Nat
        BY <1>h DEF TypeOK
      <4> QED  BY <3>2, <4>1, <1>h DEF Handler, HandlerPhases
    <3> QED  BY <1>2, <3>1, <3>2 DEF LoadDetail
  <2> QED  BY <1>2, <2>1, <1>k, <1>t, <1>i, <1>p, <1>f DEF LoadDetail
<1>3. CASE Geocode
  <2>1. handler' \in Handler
    BY <1>3, <1>d, <1>g DEF Geocode, HandlerPhases
  <2>2. topic' \in Seq(HouseIndexMessage) /\ Len(topic) <= Len(topic')
    BY <1>3, <1>t, RequeueType DEF Geocode
  <2>3. faults' \in 0 .. MaxFaults
    BY <1>3, <1>f DEF Geocode
  <2> QED  BY <1>3, <2>1, <2>2, <2>3, <1>k, <1>i, <1>p DEF Geocode
<1>4. CASE Search
  <2> DEFINE ids == {d.id : d \in Of(View, handler.houseId)}
  <2>1. ids \subseteq DocIds
    BY DEF Of, View, TypeOK, Document
  <2>2. handler' = [handler EXCEPT !.phase = "write", !.found = ids]
    BY <1>4 DEF Search
  <2>3. handler' \in Handler
    <3> HIDE DEF ids
    <3> QED  BY <2>1, <2>2, <1>h DEF Handler, HandlerPhases
  <2> QED  BY <1>4, <2>3, <1>k, <1>t, <1>i, <1>p, <1>f DEF Search
<1>5. CASE WriteNone
  <2>1. live \cup {NewDocument} \in SUBSET Document
    BY <1>5, NewDocumentType DEF WriteNone, TypeOK
  <2>2. live' \subseteq Document /\ seen' \subseteq Document
    BY <1>5, <2>1, WriteType DEF WriteNone
  <2>3. handler' \in Handler
    BY <1>5, <1>g DEF WriteNone, HandlerPhases
  <2> QED  BY <1>5, <2>2, <2>3, <1>k, <1>t, <1>p, <1>f DEF WriteNone
<1>6. CASE WriteOne
  <2>1. PICK id \in DocIds :
          \/ Write({d \in live : d.id # id} \cup {Template(id)}) /\ Goto("upload")
          \/ Done /\ UNCHANGED indexVars
    BY <1>6 DEF WriteOne
  <2>2. CASE Done /\ UNCHANGED indexVars
    BY <1>6, <2>2, <1>d, <1>k, <1>i, <1>t, <1>p, <1>f DEF WriteOne
  <2>3. CASE Write({d \in live : d.id # id} \cup {Template(id)}) /\ Goto("upload")
    <3>1. Template(id) \in Document
      BY <1>h DEF Template, Document
    <3>2. {d \in live : d.id # id} \cup {Template(id)} \in SUBSET Document
      BY <3>1 DEF TypeOK
    <3>3. live' \subseteq Document /\ seen' \subseteq Document
      BY <2>3, <3>2, WriteType
    <3>4. handler' \in Handler
      BY <2>3, <1>g DEF HandlerPhases
    <3> QED  BY <1>6, <3>3, <3>4, <1>k, <1>t, <1>p, <1>f DEF WriteOne
  <2> QED  BY <2>1, <2>2, <2>3
<1>7. CASE WriteMany
  <2> DEFINE gone == Deleted(handler.houseId)
             same == Cardinality(gone) = Cardinality(handler.found)
  <2>1. live' \subseteq Document /\ seen' \subseteq Document
    BY <1>7, WriteType DEF WriteMany, TypeOK
  <2>2. handler' = [handler EXCEPT !.phase = IF same THEN "create" ELSE "upload",
                                   !.ok = same]
    BY <1>7 DEF WriteMany
  <2>3. same \in BOOLEAN
    OBVIOUS
  <2>4. handler' \in Handler
    <3> HIDE DEF same
    <3> QED  BY <2>2, <2>3, <1>h DEF Handler, HandlerPhases
  <2> QED  BY <1>7, <2>1, <2>4, <1>k, <1>t, <1>p, <1>f DEF WriteMany
<1>8. CASE CreateAfterDelete
  <2>1. live \cup {NewDocument} \in SUBSET Document
    BY <1>8, NewDocumentType DEF CreateAfterDelete, TypeOK
  <2>2. live' \subseteq Document /\ seen' \subseteq Document
    BY <1>8, <2>1, WriteType DEF CreateAfterDelete
  <2>3. handler' \in Handler
    BY <1>8, <1>g DEF CreateAfterDelete, HandlerPhases
  <2> QED  BY <1>8, <2>2, <2>3, <1>k, <1>t, <1>p, <1>f DEF CreateAfterDelete
<1>9. CASE Upload
  <2> DEFINE created == [poi EXCEPT ![handler.houseId] = @ + 1]
  <2>1. created \in [Houses -> Nat] /\ poi \in [Houses -> Nat]
    BY <1>h DEF TypeOK
  <2>2. poi' \in {poi, created}
    BY <1>9 DEF Upload
  <2>3. topic' \in Seq(HouseIndexMessage) /\ Len(topic) <= Len(topic')
    BY <1>9, <1>t, RequeueType DEF Upload, Retry
  <2>4. faults' \in 0 .. MaxFaults
    BY <1>9, <1>f DEF Upload, Retry
  <2>5. poi' \in [Houses -> Nat]
    BY <2>1, <2>2
  <2> QED  BY <1>9, <2>3, <2>4, <2>5, <1>k, <1>d, <1>i DEF Upload
<1>10. CASE Delete
  <2> DEFINE some == Deleted(handler.houseId) # {}
  <2>1. live' \subseteq Document /\ seen' \subseteq Document
    BY <1>10, WriteType DEF Delete, TypeOK
  <2>2. handler' = [handler EXCEPT !.phase = "unload", !.ok = some]
    BY <1>10 DEF Delete
  <2>3. some \in BOOLEAN
    OBVIOUS
  <2>4. handler' \in Handler
    <3> HIDE DEF some
    <3> QED  BY <2>2, <2>3, <1>h DEF Handler, HandlerPhases
  <2> QED  BY <1>10, <2>1, <2>4, <1>k, <1>t, <1>p, <1>f DEF Delete
<1>11. CASE Unload
  <2> DEFINE cleared == [poi EXCEPT ![handler.houseId] = 0]
  <2>0. poi \in [Houses -> Nat] /\ cleared \in [Houses -> Nat]
    BY <1>h DEF TypeOK
  <2>1. poi' \in {poi, cleared}
    BY <1>11 DEF Unload
  <2>2. poi' \in [Houses -> Nat]
    <3> HIDE DEF cleared
    <3> QED  BY <2>0, <2>1
  <2>3. topic' \in Seq(HouseIndexMessage) /\ Len(topic) <= Len(topic')
    BY <1>11, <1>t, RequeueType DEF Unload, Retry
  <2>4. faults' \in 0 .. MaxFaults
    BY <1>11, <1>f DEF Unload, Retry
  <2> QED  BY <1>11, <2>2, <2>3, <2>4, <1>k, <1>d, <1>i DEF Unload
<1>12. CASE HandlerThrows
  BY <1>12, <1>k, <1>d, <1>t, <1>i, <1>p, <1>f DEF HandlerThrows
<1> QED
  BY <1>1, <1>2, <1>3, <1>4, <1>5, <1>6, <1>7, <1>8, <1>9, <1>10, <1>11, <1>12
     DEF Handle

LEMMA NextType == TypeOK /\ [Next]_searchVars => TypeOK'
<1> SUFFICES ASSUME TypeOK, [Next]_searchVars PROVE TypeOK'
  OBVIOUS
<1>f. ASSUME NoMishap \/ \E kind : Mishap(kind) PROVE faults' \in 0 .. MaxFaults
  BY <1>f, MishapType DEF TypeOK
<1>1. CASE Poll /\ UNCHANGED <<rows, rev>>
  <2> DEFINE m == topic[position + 1]
  <2>1. position + 1 \in 1 .. Len(topic) /\ topic \in Seq(HouseIndexMessage)
    BY <1>1 DEF Poll, TypeOK
  <2>2. m \in HouseIndexMessage
    BY <2>1
  <2>3. handler' = [NoMessage EXCEPT
                      !.phase = IF m.operation = INDEX THEN "house" ELSE "delete",
                      !.houseId = m.houseId, !.retry = m.retry]
    BY <1>1 DEF Poll
  <2>4. m.houseId \in Houses /\ m.retry \in 0 .. MAX_RETRY
    BY <2>2 DEF HouseIndexMessage
  <2>5. handler' \in Handler
    <3> HIDE DEF m
    <3> QED  BY <2>3, <2>4, NoMessageType DEF Handler, HandlerPhases
  <2>6. position' = position + 1 /\ UNCHANGED <<topic, live, seen, poi>>
    BY <1>1 DEF Poll, indexVars
  <2>7. faults' \in 0 .. MaxFaults
    BY <1>1, <1>f DEF Poll
  <2> QED  BY <1>1, <2>1, <2>5, <2>6, <2>7 DEF TypeOK
<1>2. CASE AutoCommit /\ UNCHANGED <<rows, rev>>
  <2>1. topic' = SubSeq(topic, position + 1, Len(topic)) /\ position' = 0
    BY <1>2 DEF AutoCommit
  <2>2. topic \in Seq(HouseIndexMessage) /\ position \in 0 .. Len(topic)
    BY DEF TypeOK
  <2>3. topic' \in Seq(HouseIndexMessage) /\ position' \in 0 .. Len(topic')
    BY <2>1, <2>2
  <2>4. faults' \in 0 .. MaxFaults /\ UNCHANGED <<handler, live, seen, poi>>
    BY <1>2, <1>f DEF AutoCommit, indexVars
  <2> QED  BY <1>2, <2>3, <2>4 DEF TypeOK
<1>3. CASE Handle /\ UNCHANGED <<rows, rev>>
  BY <1>3, HandleType
<1>4. CASE Refresh /\ UNCHANGED <<rows, rev>>
  <2>1. faults' \in 0 .. MaxFaults
    BY <1>4, <1>f DEF Refresh
  <2> QED  BY <1>4, <2>1 DEF Refresh, TypeOK
<1>5. CASE Crash
  <2>1. faults' \in 0 .. MaxFaults
    BY <1>5, <1>f DEF Crash
  <2>2. handler' \in Handler /\ position' = 0 /\ UNCHANGED <<rows, rev, topic, live, seen, poi>>
    BY <1>5, NoMessageType DEF Crash, Restart, indexVars
  <2> QED  BY <2>1, <2>2 DEF TypeOK
<1>6. CASE EnvRows
  <2>1. rows' \in [Houses -> SUBSET Tables] /\ rev' \in [Houses -> Nat]
    BY <1>6, RevisionsAssumption DEF EnvRows
  <2>2. faults' \in 0 .. MaxFaults
    BY <1>6, FaultBudget DEF EnvRows, TypeOK
  <2>3. UNCHANGED <<topic, position, handler, live, seen, poi>>
    BY <1>6 DEF EnvRows, listenerVars
  <2> QED  BY <2>1, <2>2, <2>3 DEF TypeOK
<1>7. CASE EnvSend
  <2>1. PICK h \in Houses, operation \in {INDEX, REMOVE} :
          topic' = Append(topic, Message(h, operation, 0))
    BY <1>7 DEF EnvSend
  <2>2. Message(h, operation, 0) \in HouseIndexMessage
    BY DEF Message, HouseIndexMessage
  <2>3. topic' \in Seq(HouseIndexMessage) /\ position \in 0 .. Len(topic')
    BY <2>1, <2>2 DEF TypeOK
  <2>4. faults' \in 0 .. MaxFaults
    BY <1>7, <1>f DEF EnvSend
  <2>5. UNCHANGED <<rows, rev, position, handler, live, seen, poi>>
    BY <1>7 DEF EnvSend, listenerVars
  <2> QED  BY <2>3, <2>4, <2>5 DEF TypeOK
<1>8. CASE UNCHANGED searchVars
  BY <1>8 DEF searchVars, TypeOK
<1> QED
  BY <1>1, <1>2, <1>3, <1>4, <1>5, <1>6, <1>7, <1>8 DEF Next, ListenerNext, Env

(***************************************************************************)
(* Every reachable state of the listener has the types of its offsets,     *)
(* handler, documents and LBS entries; in particular no message is ever    *)
(* sent with a retry count beyond MAX_RETRY.                               *)
(***************************************************************************)
THEOREM TypeCorrect == Spec => []TypeOK
BY InitType, NextType, PTL DEF Spec

-----------------------------------------------------------------------------
(***************************************************************************)
(* Offsets.  The invariant is inductive, given the types.                  *)
(***************************************************************************)
LEMMA CommittedNext ==
  TypeOK /\ UnfinishedIsUncommitted /\ [Next]_searchVars => UnfinishedIsUncommitted'
<1> SUFFICES ASSUME TypeOK, UnfinishedIsUncommitted, [Next]_searchVars
             PROVE  UnfinishedIsUncommitted'
  OBVIOUS
<1>t. TypeOK'
  BY NextType
<1>idle. ASSUME handler'.phase = "idle" PROVE UnfinishedIsUncommitted'
  BY <1>idle DEF UnfinishedIsUncommitted, At
<1>done. ASSUME Done PROVE UnfinishedIsUncommitted'
  BY <1>done, <1>idle DEF Done, NoMessage
\* The handler moves on with the message it has.
<1>on. ASSUME ~ At("idle"), UNCHANGED <<topic, position>>,
              handler'.houseId = handler.houseId, handler'.retry = handler.retry,
              handler'.phase \in {"delete", "unload"} <=> handler.phase \in {"delete", "unload"}
       PROVE  UnfinishedIsUncommitted'
  BY <1>on DEF UnfinishedIsUncommitted, At
<1>1. CASE Poll
  <2> DEFINE m == topic[position + 1]
  <2>1. position + 1 \in 1 .. Len(topic) /\ topic \in Seq(HouseIndexMessage)
    BY <1>1 DEF Poll, TypeOK
  <2>2. m \in HouseIndexMessage
    BY <2>1
  <2>3. handler' = [NoMessage EXCEPT
                      !.phase = IF m.operation = INDEX THEN "house" ELSE "delete",
                      !.houseId = m.houseId, !.retry = m.retry]
    BY <1>1 DEF Poll
  <2>4. m.operation \in {INDEX, REMOVE}
    BY <2>2 DEF HouseIndexMessage
  <2>5. topic'[position'] = m /\ position' > 0
    BY <1>1, <2>1 DEF Poll
  <2>6. /\ handler'.houseId = m.houseId /\ handler'.retry = m.retry
        /\ handler'.phase = IF m.operation = INDEX THEN "house" ELSE "delete"
    <3> HIDE DEF m
    <3> QED  BY <2>3 DEF NoMessage
  <2> QED
    <3> HIDE DEF m
    <3> QED  BY <2>4, <2>5, <2>6 DEF UnfinishedIsUncommitted
<1>2. CASE AutoCommit
  <2>1. handler' = handler /\ handler.phase = "idle"
    BY <1>2 DEF AutoCommit, At
  <2> QED  BY <2>1, <1>idle
<1>3. CASE LoadHouse \/ LoadDetail \/ Geocode \/ Search
  <2>h. handler \in Handler
    BY DEF TypeOK
  <2>1. Done \/ (UNCHANGED <<topic, position>> /\ ~ At("idle")
                 /\ handler'.houseId = handler.houseId /\ handler'.retry = handler.retry
                 /\ handler'.phase \notin {"delete", "unload"}
                 /\ handler.phase \notin {"delete", "unload"})
    BY <1>3, <2>h DEF LoadHouse, LoadDetail, Geocode, Search, At, Goto, Handler
  <2> QED  BY <2>1, <1>done, <1>on
<1>4. CASE WriteNone \/ WriteOne \/ WriteMany \/ CreateAfterDelete
  <2>h. handler \in Handler
    BY DEF TypeOK
  <2>1. UNCHANGED <<topic, position>> /\ handler.phase \in {"write", "create"}
    BY <1>4 DEF WriteNone, WriteOne, WriteMany, CreateAfterDelete, At
  <2>2. Done \/ (handler'.houseId = handler.houseId /\ handler'.retry = handler.retry
                 /\ handler'.phase \in {"create", "upload"})
    <3>1. CASE WriteNone \/ CreateAfterDelete
      BY <3>1, <2>h DEF WriteNone, CreateAfterDelete, Goto, Handler
    <3>2. CASE WriteOne
      BY <3>2, <2>h DEF WriteOne, Goto, Handler
    <3>3. CASE WriteMany
      BY <3>3, <2>h DEF WriteMany, Handler
    <3> QED  BY <1>4, <3>1, <3>2, <3>3
  <2> QED  BY <2>1, <2>2, <1>done, <1>on DEF At
<1>5. CASE Delete
  <2>1. /\ handler \in Handler /\ handler.phase = "delete"
        /\ UNCHANGED <<topic, position>>
    BY <1>5 DEF TypeOK, Delete, At
  <2>2. /\ handler'.phase = "unload" /\ handler'.houseId = handler.houseId
        /\ handler'.retry = handler.retry
    BY <1>5, <2>1 DEF Delete, Handler
  <2> QED  BY <2>1, <2>2, <1>on DEF At
<1>6. CASE Upload \/ Unload \/ HandlerThrows
  BY <1>6, <1>done DEF Upload, Unload, HandlerThrows
<1>7. CASE Refresh \/ EnvRows \/ UNCHANGED searchVars
  <2>1. UNCHANGED <<topic, position, handler>>
    BY <1>7 DEF Refresh, EnvRows, searchVars, listenerVars
  <2> QED  BY <2>1 DEF UnfinishedIsUncommitted, At
<1>8. CASE Crash
  BY <1>8, <1>idle DEF Crash, Restart, NoMessage
<1>9. CASE EnvSend
  <2>1. PICK m : topic' = Append(topic, m)
    BY <1>9 DEF EnvSend
  <2>2. UNCHANGED <<position, handler>>
    BY <1>9 DEF EnvSend, listenerVars
  <2>3. position > 0 => topic'[position] = topic[position]
    BY <2>1 DEF TypeOK
  <2> QED  BY <2>2, <2>3 DEF UnfinishedIsUncommitted, At
<1> QED
  BY <1>1, <1>2, <1>3, <1>4, <1>5, <1>6, <1>7, <1>8, <1>9
     DEF Next, ListenerNext, Handle, Env

(***************************************************************************)
(* What the listener is working on is never committed, so a crash at any   *)
(* moment delivers it again (handleMessage, SearchService.java 93-111).    *)
(***************************************************************************)
THEOREM NothingLost == Spec => []UnfinishedIsUncommitted
<1>1. Init => TypeOK /\ UnfinishedIsUncommitted
  BY InitType DEF Init, ListenerInit, UnfinishedIsUncommitted, At, NoMessage
<1>2. TypeOK /\ UnfinishedIsUncommitted /\ [Next]_searchVars
        => (TypeOK /\ UnfinishedIsUncommitted)'
  BY NextType, CommittedNext
<1> QED  BY <1>1, <1>2, PTL DEF Spec

-----------------------------------------------------------------------------
(***************************************************************************)
(* What documents are built from.                                          *)
(***************************************************************************)

\* The rows and contents of a house only move on.
RowsMoveOn == \A h \in Houses : rows[h] \subseteq rows'[h] /\ rev[h] <= rev'[h]

LEMMA NextMovesOn ==
  ASSUME TypeOK, [Next]_searchVars
  PROVE  RowsMoveOn
<1>1. CASE UNCHANGED <<rows, rev>>
  BY <1>1 DEF RowsMoveOn, TypeOK
<1>2. CASE EnvRows
  BY <1>2 DEF EnvRows, RowsMoveOn
<1> QED
  BY <1>1, <1>2 DEF Next, ListenerNext, Crash, Env, EnvSend, searchVars

LEMMA BuiltDocumentStays ==
  ASSUME TypeOK, TypeOK', RowsMoveOn, NEW d \in Document, Built(d)
  PROVE  Built(d)'
<1>1. /\ d.houseId \in Houses /\ d.hrev \in Nat /\ d.drev \in Nat
  BY DEF Document
<1>2. /\ rev[d.houseId] \in Nat /\ rev'[d.houseId] \in Nat
      /\ rev[d.houseId] <= rev'[d.houseId] /\ rows[d.houseId] \subseteq rows'[d.houseId]
  BY <1>1 DEF TypeOK, RowsMoveOn
<1> QED  BY <1>1, <1>2 DEF Built

\* The parts of BuiltFromRows.
DocumentsBuilt == \A d \in live \cup seen : Built(d)

HandlerBuilds ==
  /\ At("detail") =>
       /\ "house" \in rows[handler.houseId]
       /\ handler.hrev <= rev[handler.houseId]
  /\ handler.phase \in Writing =>
       /\ {"house", "detail"} \subseteq rows[handler.houseId]
       /\ handler.hrev <= handler.drev
       /\ handler.drev <= rev[handler.houseId]

LEMMA BuiltParts == BuiltFromRows <=> DocumentsBuilt /\ HandlerBuilds
BY DEF BuiltFromRows, DocumentsBuilt, HandlerBuilds, Built, Template

LEMMA HandlerBuildsNext ==
  ASSUME TypeOK, HandlerBuilds, [Next]_searchVars
  PROVE  HandlerBuilds'
<1>t. TypeOK' /\ RowsMoveOn
  BY NextType, NextMovesOn
<1>h. handler \in Handler /\ handler.houseId \in Houses /\ handler.hrev \in Nat
      /\ handler.drev \in Nat
  BY DEF TypeOK, Handler
<1>r. /\ rev[handler.houseId] \in Nat /\ rev'[handler.houseId] \in Nat
      /\ rev[handler.houseId] <= rev'[handler.houseId]
      /\ rows[handler.houseId] \subseteq rows'[handler.houseId]
  BY <1>t, <1>h DEF TypeOK, RowsMoveOn
<1>out. ASSUME handler'.phase \notin Writing \cup {"detail"} PROVE HandlerBuilds'
  BY <1>out DEF HandlerBuilds, At
<1>done. ASSUME Done PROVE HandlerBuilds'
  BY <1>done, <1>out DEF Done, NoMessage, Writing
<1>same. ASSUME handler' = handler PROVE HandlerBuilds'
  BY <1>same, <1>r, <1>h DEF HandlerBuilds, At
\* Between two phases in which both rows have been read nothing is read.
<1>on. ASSUME handler.phase \in Writing, handler'.phase \in Writing,
              handler'.houseId = handler.houseId,
              handler'.hrev = handler.hrev, handler'.drev = handler.drev
       PROVE  HandlerBuilds'
  BY <1>on, <1>r, <1>h DEF HandlerBuilds, At, Writing
<1>1. CASE LoadHouse /\ UNCHANGED <<rows, rev>>
  <2>1. CASE Done
    BY <2>1, <1>done
  <2>2. CASE /\ "house" \in rows[handler.houseId]
             /\ handler' = [handler EXCEPT !.phase = "detail", !.hrev = rev[handler.houseId]]
    <3>1. /\ handler'.phase = "detail" /\ handler'.houseId = handler.houseId
          /\ handler'.hrev = rev[handler.houseId]
      BY <2>2, <1>h DEF Handler
    <3> QED  BY <3>1, <2>2, <1>1, <1>r DEF HandlerBuilds, At, Writing
  <2> QED  BY <1>1, <2>1, <2>2 DEF LoadHouse
<1>2. CASE LoadDetail /\ UNCHANGED <<rows, rev>>
  <2>1. CASE Done
    BY <2>1, <1>done
  <2>2. CASE /\ "detail" \in rows[handler.houseId]
             /\ handler' = [handler EXCEPT !.phase = "geocode", !.drev = rev[handler.houseId]]
    <3>1. /\ handler'.phase = "geocode" /\ handler'.houseId = handler.houseId
          /\ handler'.hrev = handler.hrev /\ handler'.drev = rev[handler.houseId]
      BY <2>2, <1>h DEF Handler
    <3>2. handler.hrev <= rev[handler.houseId] /\ "house" \in rows[handler.houseId]
      BY <1>2 DEF LoadDetail, HandlerBuilds
    <3> QED  BY <3>1, <3>2, <2>2, <1>2, <1>r DEF HandlerBuilds, At
  <2> QED  BY <1>2, <2>1, <2>2 DEF LoadDetail
<1>3. CASE Geocode \/ WriteNone \/ CreateAfterDelete
  <2>1. Done \/ (handler.phase \in Writing /\ \E p \in Writing : Goto(p))
    BY <1>3 DEF Geocode, WriteNone, CreateAfterDelete, At, Writing
  <2>2. ASSUME handler.phase \in Writing, NEW p \in Writing, Goto(p) PROVE HandlerBuilds'
    BY <2>2, <1>on, <1>h DEF Goto, Handler
  <2> QED  BY <2>1, <2>2, <1>done
<1>4. CASE WriteOne
  <2>1. Done \/ (handler.phase \in Writing /\ Goto("upload"))
    BY <1>4 DEF WriteOne, At, Writing
  <2>2. ASSUME handler.phase \in Writing, Goto("upload") PROVE HandlerBuilds'
    BY <2>2, <1>on, <1>h DEF Goto, Handler, Writing
  <2> QED  BY <2>1, <2>2, <1>done
<1>5. CASE Search \/ WriteMany
  <2>1. handler.phase \in Writing
    BY <1>5 DEF Search, WriteMany, At, Writing
  <2>2. /\ handler'.phase \in Writing /\ handler'.houseId = handler.houseId
        /\ handler'.hrev = handler.hrev /\ handler'.drev = handler.drev
    BY <1>5, <1>h DEF Search, WriteMany, Handler, Writing
  <2> QED  BY <2>1, <2>2, <1>on
<1>6. CASE Delete
  <2>1. handler'.phase = "unload"
    BY <1>6, <1>h DEF Delete, Handler
  <2> QED  BY <2>1, <1>out DEF Writing
<1>7. CASE Upload \/ Unload \/ HandlerThrows
  BY <1>7, <1>done DEF Upload, Unload, HandlerThrows
<1>8. CASE Poll
  <2>1. handler'.phase \in {"house", "delete"}
    BY <1>8 DEF Poll, NoMessage
  <2> QED  BY <2>1, <1>out DEF Writing
<1>9. CASE AutoCommit \/ Refresh \/ EnvRows \/ EnvSend \/ UNCHANGED searchVars
  BY <1>9, <1>same DEF AutoCommit, Refresh, EnvRows, EnvSend, searchVars, listenerVars
<1>10. CASE Crash
  BY <1>10, <1>out DEF Crash, Restart, NoMessage, Writing
<1> QED
  BY <1>1, <1>2, <1>3, <1>4, <1>5, <1>6, <1>7, <1>8, <1>9, <1>10
     DEF Next, ListenerNext, Handle, Env

\* Every document of the index was there before, or is the one just built.
LEMMA IndexSteps ==
  ASSUME TypeOK, [Next]_searchVars
  PROVE  \/ live' \subseteq live /\ seen' \subseteq live \cup seen
         \/ /\ handler.phase \in {"write", "create"}
            /\ UNCHANGED <<rows, rev>>
            /\ \E id \in DocIds : /\ live' \subseteq live \cup {Template(id)}
                                  /\ seen' \subseteq live \cup seen \cup {Template(id)}
<1>w. ASSUME NEW docs, Write(docs) PROVE live' = docs /\ seen' \in {seen, docs}
  BY <1>w DEF Write
<1>1. CASE (WriteNone \/ CreateAfterDelete) /\ UNCHANGED <<rows, rev>>
  <2> DEFINE id == CHOOSE i \in DocIds \ UsedIds : TRUE
  <2>1. id \in DocIds
    BY <1>1 DEF WriteNone, CreateAfterDelete
  <2>2. Write(live \cup {Template(id)})
    BY <1>1 DEF WriteNone, CreateAfterDelete, NewDocument
  <2>3. handler.phase \in {"write", "create"}
    BY <1>1 DEF WriteNone, CreateAfterDelete, At
  <2> HIDE DEF id
  <2> QED  BY <1>1, <2>1, <2>2, <2>3, <1>w
<1>2. CASE WriteOne /\ UNCHANGED <<rows, rev>>
  <2>1. PICK id \in DocIds :
          \/ Write({d \in live : d.id # id} \cup {Template(id)})
          \/ UNCHANGED indexVars
    BY <1>2 DEF WriteOne
  <2>2. handler.phase = "write"
    BY <1>2 DEF WriteOne, At
  <2>3. CASE Write({d \in live : d.id # id} \cup {Template(id)})
    BY <1>2, <2>2, <2>3, <1>w
  <2>4. CASE UNCHANGED indexVars
    BY <2>4 DEF indexVars
  <2> QED  BY <2>1, <2>3, <2>4
<1>3. CASE WriteMany \/ Delete
  <2>1. PICK gone : Write(live \ gone)
    BY <1>3 DEF WriteMany, Delete
  <2> QED  BY <2>1, <1>w
<1>4. CASE \/ LoadHouse \/ LoadDetail \/ Geocode \/ Search \/ Upload \/ Unload
           \/ HandlerThrows \/ Poll \/ AutoCommit
  BY <1>4 DEF LoadHouse, LoadDetail, Geocode, Search, Upload, Unload, HandlerThrows,
              Poll, AutoCommit, indexVars
<1>5. CASE Refresh
  BY <1>5 DEF Refresh
<1>6. CASE Crash \/ EnvRows \/ EnvSend \/ UNCHANGED searchVars
  BY <1>6 DEF Crash, Restart, EnvRows, EnvSend, searchVars, listenerVars, indexVars
<1> QED
  BY <1>1, <1>2, <1>3, <1>4, <1>5, <1>6 DEF Next, ListenerNext, Handle, Env

LEMMA BuiltNext == TypeOK /\ BuiltFromRows /\ [Next]_searchVars => BuiltFromRows'
<1> SUFFICES ASSUME TypeOK, DocumentsBuilt, HandlerBuilds, [Next]_searchVars
             PROVE  DocumentsBuilt' /\ HandlerBuilds'
  BY BuiltParts, PTL
<1>1. HandlerBuilds'
  BY HandlerBuildsNext
<1>2. TypeOK' /\ RowsMoveOn
  BY NextType, NextMovesOn
<1>3. ASSUME NEW d \in live \cup seen PROVE Built(d)'
  <2>1. d \in Document /\ Built(d)
    BY <1>3 DEF TypeOK, DocumentsBuilt
  <2> QED  BY <2>1, <1>2, BuiltDocumentStays
<1>4. CASE live' \subseteq live /\ seen' \subseteq live \cup seen
  BY <1>1, <1>3, <1>4 DEF DocumentsBuilt
<1>5. CASE /\ handler.phase \in {"write", "create"}
           /\ UNCHANGED <<rows, rev>>
           /\ \E id \in DocIds : /\ live' \subseteq live \cup {Template(id)}
                                 /\ seen' \subseteq live \cup seen \cup {Template(id)}
  <2>1. PICK id \in DocIds : /\ live' \subseteq live \cup {Template(id)}
                             /\ seen' \subseteq live \cup seen \cup {Template(id)}
    BY <1>5
  <2> DEFINE e == Template(id)
  <2>2. /\ {"house", "detail"} \subseteq rows'[e.houseId]
        /\ e.hrev <= e.drev /\ e.drev <= rev'[e.houseId]
    BY <1>5 DEF Template, HandlerBuilds, Writing
  <2>3. \A d \in live' \cup seen' : d \in live \cup seen \/ d = e
    BY <2>1
  <2>4. ASSUME NEW d \in live' \cup seen' PROVE Built(d)'
    <3>1. CASE d \in live \cup seen
      BY <3>1, <1>3
    <3>2. CASE d = e
      <4> HIDE DEF e
      <4> QED  BY <3>2, <2>2 DEF Built
    <3> QED  BY <2>3, <3>1, <3>2
  <2> QED  BY <1>1, <2>4 DEF DocumentsBuilt
<1> QED  BY <1>4, <1>5, IndexSteps

(***************************************************************************)
(* Every document and every document being built comes from rows that      *)
(* exist, with a detail never older than the house (createOrUpdateIndex,   *)
(* SearchService.java 133-179), whatever is edited or fails meanwhile.     *)
(***************************************************************************)
THEOREM DocumentsFromRows == Spec => []BuiltFromRows
<1>1. Init => TypeOK /\ BuiltFromRows
  BY InitType DEF Init, ListenerInit, BuiltFromRows, At, Writing, NoMessage
<1>2. TypeOK /\ BuiltFromRows /\ [Next]_searchVars => (TypeOK /\ BuiltFromRows)'
  BY NextType, BuiltNext
<1> QED  BY <1>1, <1>2, PTL DEF Spec

-----------------------------------------------------------------------------
(***************************************************************************)
(* One document per house.  While searches see every write, what the       *)
(* handler has found is what there is, until it writes.                    *)
(***************************************************************************)
AtMostOne == \A d, e \in live : d.houseId = e.houseId => d = e

FoundIsCurrent ==
  /\ At("write") => handler.found = {d.id : d \in Of(live, handler.houseId)}
  /\ At("create") => Of(live, handler.houseId) = {}

Single == AtMostOne /\ FoundIsCurrent

LEMMA SingleNext == TypeOK /\ ~RefreshLag /\ Single /\ [Next]_searchVars => Single'
<1> SUFFICES ASSUME TypeOK, ~RefreshLag, AtMostOne, FoundIsCurrent, [Next]_searchVars
             PROVE  AtMostOne' /\ FoundIsCurrent'
  BY DEF Single
<1>h. handler \in Handler
  BY DEF TypeOK
<1>w. ASSUME NEW docs, Write(docs) PROVE live' = docs
  BY <1>w DEF Write
\* A document that is added is the only one of its house.
<1>add. ASSUME NEW id, NEW rest \in SUBSET live, live' = rest \cup {Template(id)},
               Of(rest, handler.houseId) = {}
        PROVE  AtMostOne'
  BY <1>add DEF AtMostOne, Of, Template
<1>less. ASSUME live' \subseteq live PROVE AtMostOne'
  BY <1>less DEF AtMostOne
<1>out. ASSUME handler'.phase \notin {"write", "create"} PROVE FoundIsCurrent'
  BY <1>out DEF FoundIsCurrent, At
<1>done. ASSUME Done PROVE FoundIsCurrent'
  BY <1>done, <1>out DEF Done, NoMessage
<1>1. CASE WriteNone \/ CreateAfterDelete
  <2> DEFINE id == CHOOSE i \in DocIds \ UsedIds : TRUE
  <2>1. live' = live \cup {Template(id)}
    BY <1>1, <1>w DEF WriteNone, CreateAfterDelete, NewDocument
  <2>2. Of(live, handler.houseId) = {}
    BY <1>1 DEF WriteNone, CreateAfterDelete, FoundIsCurrent, At, Of
  <2>3. AtMostOne'
    <3> HIDE DEF id
    <3> QED  BY <2>1, <2>2, <1>add
  <2>4. handler'.phase = "upload"
    BY <1>1, <1>h DEF WriteNone, CreateAfterDelete, Goto, Handler
  <2> QED  BY <2>3, <2>4, <1>out
<1>2. CASE WriteOne
  <2>1. PICK id \in DocIds :
          /\ handler.found = {id}
          /\ \/ Write({d \in live : d.id # id} \cup {Template(id)}) /\ Goto("upload")
             \/ Done /\ UNCHANGED indexVars
    BY <1>2 DEF WriteOne
  <2>2. CASE Write({d \in live : d.id # id} \cup {Template(id)}) /\ Goto("upload")
    <3>1. live' = {d \in live : d.id # id} \cup {Template(id)}
      BY <2>2, <1>w
    <3>2. \A d \in live : d.houseId = handler.houseId => d.id = id
      BY <2>1, <1>2 DEF WriteOne, FoundIsCurrent, At, Of
    <3>3. Of({d \in live : d.id # id}, handler.houseId) = {}
      BY <3>2 DEF Of
    <3>4. AtMostOne'
      BY <3>1, <3>3, <1>add
    <3>5. handler'.phase = "upload"
      BY <2>2, <1>h DEF Goto, Handler
    <3> QED  BY <3>4, <3>5, <1>out
  <2>3. CASE Done /\ UNCHANGED indexVars
    BY <2>3, <1>less, <1>done DEF indexVars
  <2> QED  BY <2>1, <2>2, <2>3
<1>3. CASE WriteMany
  <2> DEFINE gone == Deleted(handler.houseId)
             same == Cardinality(gone) = Cardinality(handler.found)
  <2>1. live' = live \ gone
    BY <1>3, <1>w DEF WriteMany
  <2>2. gone = Of(live, handler.houseId)
    BY DEF Deleted, View, Of
  <2>3. Of(live', handler.houseId) = {}
    BY <2>1, <2>2 DEF Of
  <2>4. handler' = [handler EXCEPT !.phase = IF same THEN "create" ELSE "upload",
                                   !.ok = same]
    BY <1>3 DEF WriteMany
  <2>5. handler'.houseId = handler.houseId /\ handler'.phase \in {"create", "upload"}
    <3> HIDE DEF same
    <3> QED  BY <2>4, <1>h DEF Handler
  <2>6. FoundIsCurrent'
    BY <2>3, <2>5 DEF FoundIsCurrent, At, Of
  <2> QED  BY <2>1, <2>6, <1>less
<1>4. CASE Delete
  <2>1. live' \subseteq live
    BY <1>4, <1>w DEF Delete
  <2>2. handler'.phase = "unload"
    BY <1>4, <1>h DEF Delete, Handler
  <2> QED  BY <2>1, <2>2, <1>less, <1>out
<1>5. CASE Search
  <2> DEFINE ids == {d.id : d \in Of(View, handler.houseId)}
  <2>1. handler' = [handler EXCEPT !.phase = "write", !.found = ids] /\ live' = live
    BY <1>5 DEF Search, indexVars
  <2>2. /\ handler'.phase = "write" /\ handler'.houseId = handler.houseId
        /\ handler'.found = ids
    <3> HIDE DEF ids
    <3> QED  BY <2>1, <1>h DEF Handler
  <2>3. FoundIsCurrent'
    BY <2>1, <2>2 DEF FoundIsCurrent, At, View, Of
  <2> QED  BY <2>1, <2>3, <1>less
<1>6. CASE LoadHouse \/ LoadDetail \/ Geocode
  <2>1. live' = live
    BY <1>6 DEF LoadHouse, LoadDetail, Geocode, indexVars
  <2>2. CASE Done
    BY <2>1, <2>2, <1>less, <1>done
  <2>3. CASE \E phase \in {"detail", "geocode", "search"} : handler'.phase = phase
    BY <2>1, <2>3, <1>less, <1>out
  <2>4. LoadHouse => Done \/ handler'.phase = "detail"
    BY <1>h DEF LoadHouse, Handler
  <2>5. LoadDetail => Done \/ handler'.phase = "geocode"
    BY <1>h DEF LoadDetail, Handler
  <2>6. Geocode => Done \/ handler'.phase = "search"
    BY <1>h DEF Geocode, Goto, Handler
  <2> QED  BY <1>6, <2>2, <2>3, <2>4, <2>5, <2>6
<1>7. CASE Upload \/ Unload \/ HandlerThrows
  <2>1. live' = live /\ Done
    BY <1>7 DEF Upload, Unload, HandlerThrows, indexVars
  <2> QED  BY <2>1, <1>less, <1>done
<1>8. CASE Poll
  <2>1. live' = live /\ handler'.phase \in {"house", "delete"}
    BY <1>8 DEF Poll, indexVars, NoMessage
  <2> QED  BY <2>1, <1>less, <1>out
<1>9. CASE Crash
  <2>1. live' = live /\ handler'.phase = "idle"
    BY <1>9 DEF Crash, Restart, indexVars, NoMessage
  <2> QED  BY <2>1, <1>less, <1>out
<1>10. CASE AutoCommit \/ Refresh \/ EnvRows \/ EnvSend \/ UNCHANGED searchVars
  <2>1. live' = live /\ handler' = handler
    BY <1>10 DEF AutoCommit, Refresh, EnvRows, EnvSend, searchVars, listenerVars, indexVars
  <2> QED  BY <2>1, <1>less DEF FoundIsCurrent, At
<1> QED
  BY <1>1, <1>2, <1>3, <1>4, <1>5, <1>6, <1>7, <1>8, <1>9, <1>10
     DEF Next, ListenerNext, Handle, Env

(***************************************************************************)
(* With searches that see every write a house never has two documents,     *)
(* over crashes, exceptions, retries and redeliveries (SearchService.java  *)
(* 165-179).                                                               *)
(***************************************************************************)
THEOREM SingleDocument == Spec => []OneDocument
<1> DEFINE Inv == TypeOK /\ (~RefreshLag => Single)
<1>1. Init => Inv
  BY InitType DEF Init, ListenerInit, Single, AtMostOne, FoundIsCurrent, At, NoMessage
<1>2. Inv /\ [Next]_searchVars => Inv'
  BY NextType, SingleNext
<1>3. Inv => OneDocument
  BY DEF Single, AtMostOne, OneDocument
<1> HIDE DEF Inv
<1> QED  BY <1>1, <1>2, <1>3, PTL DEF Spec

-----------------------------------------------------------------------------
(***************************************************************************)
(* Index and LBS table agree, provided every failure leaves a message      *)
(* behind: the process may die, sends may be lost, database and look-up    *)
(* may fail, and so may the geocoder, at most MAX_RETRY times in all.      *)
(* After any other failure a message may be given up half done, and no     *)
(* later one need come.                                                    *)
(***************************************************************************)
Repairable ==
  /\ RefreshLag = FALSE
  /\ {"lbs", "exception"} \cap (FaultKinds \cup Persistent) = {}
  /\ "geocode" \notin Persistent
  /\ "geocode" \in FaultKinds => MaxFaults <= MAX_RETRY

LEMMA RepairableMishaps ==
  ASSUME Repairable
  PROVE  /\ ~ Mishap("lbs") /\ ~ Mishap("exception")
         /\ Mishap("geocode") => /\ "geocode" \in FaultKinds
                                 /\ faults < MaxFaults /\ faults' = faults + 1
BY DEF Repairable, Mishap

IndexPhases == {"house", "detail", "geocode", "search", "write", "upload"}

\* The index gives each document an id of its own.
UniqueIds == \A d, e \in live : d.id = e.id => d = e

\* Indexing a house is retried after a failure of the geocoder only, and never
\* finds several documents.
FewRetries ==
  /\ \A k \in 1 .. Len(topic) : topic[k].operation = INDEX => topic[k].retry <= faults
  /\ handler.phase \in IndexPhases => handler.ok /\ handler.retry <= faults
  /\ ~ At("create")

\* An entry of the LBS table is one of a house with both rows.
EntriesFromRows == \A h \in Houses : poi[h] > 0 => {"house", "detail"} \subseteq rows[h]

\* The first of the two mirrors is up to date when the second is reached.
FirstDone ==
  /\ At("upload") => Of(live, handler.houseId) # {}
  /\ At("unload") => Of(live, handler.houseId) = {}

Agree(h) == Of(live, h) # {} <=> poi[h] > 0

Waiting(h) == \E k \in 1 .. Len(topic) : k > position /\ topic[k].houseId = h

InHand(h) == ~ At("idle") /\ handler.houseId = h

\* A house whose mirrors differ has a message that will repair them.
Attended == \A h \in Houses : Agree(h) \/ Waiting(h) \/ InHand(h)

Mirror == UniqueIds /\ FewRetries /\ EntriesFromRows /\ FirstDone /\ Attended

LEMMA FoundAtMostOne ==
  ASSUME Single, At("write")
  PROVE  IsFiniteSet(handler.found) /\ Cardinality(handler.found) <= 1
<1>1. handler.found = {d.id : d \in Of(live, handler.houseId)}
  BY DEF Single, FoundIsCurrent
<1>2. \A i, j \in handler.found : i = j
  BY <1>1 DEF Single, AtMostOne, Of
<1>3. CASE handler.found = {}
  BY <1>3, FS_EmptySet
<1>4. CASE handler.found # {}
  <2>1. PICK i : handler.found = {i}
    BY <1>2, <1>4
  <2>2. IsFiniteSet({i}) /\ Cardinality({i}) = 1
    BY FS_Singleton
  <2> QED  BY <2>1, <2>2
<1> QED  BY <1>3, <1>4

\* The one document found is there when it is written.
LEMMA NothingGone ==
  ASSUME Single, WriteOne
  PROVE  Goto("upload")
         /\ \E id \in DocIds : Write({d \in live : d.id # id} \cup {Template(id)})
<1>1. handler.found = {d.id : d \in Of(live, handler.houseId)}
  BY DEF Single, FoundIsCurrent, WriteOne
<1>2. ASSUME NEW id, handler.found = {id} PROVE \E d \in live : d.id = id
  BY <1>1, <1>2 DEF Of
<1> QED  BY <1>2 DEF WriteOne

LEMMA UniqueIdsNext ==
  ASSUME TypeOK, UniqueIds, [Next]_searchVars
  PROVE  UniqueIds'
<1>w. ASSUME NEW docs, Write(docs) PROVE live' = docs
  BY <1>w DEF Write
<1>1. CASE WriteNone \/ CreateAfterDelete
  <2> DEFINE id == CHOOSE i \in DocIds \ UsedIds : TRUE
  <2>1. id \notin UsedIds /\ live' = live \cup {Template(id)}
    BY <1>1, <1>w DEF WriteNone, CreateAfterDelete, NewDocument
  <2>2. \A d \in live : d.id # id
    <3> HIDE DEF id
    <3> QED  BY <2>1 DEF UsedIds
  <2> HIDE DEF id
  <2> QED  BY <2>1, <2>2 DEF UniqueIds, Template
<1>2. CASE WriteOne
  <2>1. PICK id \in DocIds :
          \/ Write({d \in live : d.id # id} \cup {Template(id)})
          \/ UNCHANGED indexVars
    BY <1>2 DEF WriteOne
  <2>2. CASE Write({d \in live : d.id # id} \cup {Template(id)})
    BY <2>2, <1>w DEF UniqueIds, Template
  <2>3. CASE UNCHANGED indexVars
    BY <2>3 DEF UniqueIds, indexVars
  <2> QED  BY <2>1, <2>2, <2>3
<1>3. CASE live' \subseteq live
  BY <1>3 DEF UniqueIds
<1>4. WriteMany \/ Delete => live' \subseteq live
  BY <1>w DEF WriteMany, Delete
<1>5. LoadHouse \/ LoadDetail \/ Geocode \/ Search \/ Upload \/ Unload
        \/ HandlerThrows \/ Poll \/ AutoCommit \/ Refresh => live' = live
  BY DEF LoadHouse, LoadDetail, Geocode, Search, Upload, Unload, HandlerThrows,
         Poll, AutoCommit, Refresh, indexVars
<1>6. Crash \/ EnvRows \/ EnvSend \/ UNCHANGED searchVars => live' = live
  BY DEF Crash, Restart, EnvRows, EnvSend, searchVars, listenerVars, indexVars
<1>7. CASE ~ (WriteNone \/ CreateAfterDelete \/ WriteOne)
  <2>1. \/ WriteMany \/ Delete
        \/ LoadHouse \/ LoadDetail \/ Geocode \/ Search \/ Upload \/ Unload
        \/ HandlerThrows \/ Poll \/ AutoCommit \/ Refresh
        \/ Crash \/ EnvRows \/ EnvSend \/ UNCHANGED searchVars
    BY <1>7 DEF Next, ListenerNext, Handle, Env
  <2>2. live' \subseteq live \/ live' = live
    BY <2>1, <1>4, <1>5, <1>6
  <2> QED  BY <2>2, <1>3
<1> QED  BY <1>1, <1>2, <1>7

LEMMA FewRetriesNext ==
  ASSUME TypeOK, Repairable, Single, FewRetries, [Next]_searchVars
  PROVE  FewRetries'
<1>t. /\ handler \in Handler /\ topic \in Seq(HouseIndexMessage)
      /\ faults \in Nat /\ position \in 0 .. Len(topic)
      /\ handler.retry \in Nat
  BY FaultBudget DEF TypeOK, Handler
<1>f. faults' \in Nat /\ faults <= faults'
  <2>1. ASSUME NoMishap \/ \E kind : Mishap(kind) PROVE faults' \in Nat /\ faults <= faults'
    BY <2>1, <1>t DEF NoMishap, Mishap
  <2>2. Poll \/ AutoCommit \/ Refresh \/ Crash \/ EnvSend => NoMishap \/ \E kind : Mishap(kind)
    BY DEF Poll, AutoCommit, Refresh, Crash, EnvSend
  <2>3. LoadHouse \/ LoadDetail \/ Geocode \/ Search \/ WriteNone \/ WriteOne \/ WriteMany
          \/ CreateAfterDelete \/ Delete \/ HandlerThrows => NoMishap \/ \E kind : Mishap(kind)
    BY DEF LoadHouse, LoadDetail, Geocode, Search, WriteNone, WriteOne, WriteMany,
           CreateAfterDelete, Delete, HandlerThrows
  <2>4. Upload \/ Unload => NoMishap \/ \E kind : Mishap(kind)
    BY DEF Upload, Unload, Retry
  <2>5. EnvRows \/ UNCHANGED searchVars => faults' \in Nat /\ faults <= faults'
    BY <1>t, FaultBudget DEF EnvRows, searchVars
  <2> QED  BY <2>1, <2>2, <2>3, <2>4, <2>5 DEF Next, ListenerNext, Handle, Env
\* The messages of the topic.
<1> DEFINE Messages(s) == \A k \in 1 .. Len(s) : s[k].operation = INDEX => s[k].retry <= faults'
<1>m. Messages(topic)
  <2> SUFFICES ASSUME NEW k \in 1 .. Len(topic), topic[k].operation = INDEX
               PROVE  topic[k].retry <= faults'
    OBVIOUS
  <2>1. topic[k] \in HouseIndexMessage
    BY <1>t
  <2>2. topic[k].retry \in Nat
    BY <2>1 DEF HouseIndexMessage
  <2>3. topic[k].retry <= faults
    BY DEF FewRetries
  <2> QED  BY <2>2, <2>3, <1>t, <1>f
<1>a. ASSUME NEW m, m.operation = INDEX => m.retry <= faults', topic' = Append(topic, m)
      PROVE  Messages(topic')
  BY <1>a, <1>m, <1>t
\* The handler.
<1>out. ASSUME handler'.phase \notin IndexPhases \cup {"create"}, Messages(topic')
        PROVE  FewRetries'
  BY <1>out DEF FewRetries, At
<1>done. ASSUME Done, Messages(topic') PROVE FewRetries'
  BY <1>done, <1>out DEF Done, NoMessage, IndexPhases
<1>on. ASSUME handler.phase \in IndexPhases, handler'.phase \in IndexPhases,
              handler'.ok = handler.ok, handler'.retry = handler.retry, UNCHANGED topic
       PROVE  FewRetries'
  BY <1>on, <1>m, <1>t, <1>f DEF FewRetries, At, IndexPhases
<1>1. CASE LoadHouse \/ LoadDetail \/ Search
  <2>1. UNCHANGED topic /\ handler.phase \in IndexPhases
    BY <1>1 DEF LoadHouse, LoadDetail, Search, At, IndexPhases
  <2>2. Done \/ (handler'.phase \in IndexPhases
                 /\ handler'.ok = handler.ok /\ handler'.retry = handler.retry)
    BY <1>1, <1>t DEF LoadHouse, LoadDetail, Search, Handler, IndexPhases
  <2> QED  BY <2>1, <2>2, <1>m, <1>done, <1>on
<1>2. CASE Geocode
  <2>1. handler.phase \in IndexPhases
    BY <1>2 DEF Geocode, At, IndexPhases
  <2>2. CASE Goto("search") /\ UNCHANGED topic
    <3>1. handler'.phase = "search" /\ handler'.ok = handler.ok /\ handler'.retry = handler.retry
      BY <2>2, <1>t DEF Goto, Handler
    <3> QED  BY <2>1, <2>2, <3>1, <1>on DEF IndexPhases
  <2>3. CASE Mishap("geocode") /\ Requeue(INDEX) /\ Done
    <3>1. faults' = faults + 1 /\ handler.retry <= faults
      BY <2>1, <2>3, RepairableMishaps DEF FewRetries
    <3>2. Messages(topic')
      <4>1. CASE UNCHANGED topic
        BY <4>1, <1>m
      <4>2. CASE topic' = Append(topic, Message(handler.houseId, INDEX, handler.retry + 1))
        BY <4>2, <3>1, <1>t, <1>a DEF Message
      <4> QED  BY <2>3, <4>1, <4>2 DEF Requeue
    <3> QED  BY <2>3, <3>2, <1>done
  <2> QED  BY <1>2, <2>2, <2>3 DEF Geocode
<1>3. CASE WriteNone \/ WriteOne
  <2>1. Goto("upload") /\ UNCHANGED topic /\ handler.phase = "write"
    BY <1>3, NothingGone DEF WriteNone, WriteOne, At
  <2>2. handler'.phase = "upload" /\ handler'.ok = handler.ok /\ handler'.retry = handler.retry
    BY <2>1, <1>t DEF Goto, Handler
  <2> QED  BY <2>1, <2>2, <1>on DEF IndexPhases
<1>4. CASE WriteMany
  <2>1. At("write") /\ Cardinality(handler.found) > 1
    BY <1>4 DEF WriteMany
  <2>2. IsFiniteSet(handler.found) /\ Cardinality(handler.found) <= 1
    BY <2>1, FoundAtMostOne
  <2>3. Cardinality(handler.found) \in Nat
    BY <2>2, FS_CardinalityType
  <2> QED  BY <2>1, <2>2, <2>3
<1>5. CASE CreateAfterDelete
  BY <1>5 DEF CreateAfterDelete, FewRetries
<1>6. CASE Upload
  <2>1. handler.ok
    BY <1>6 DEF Upload, At, FewRetries, IndexPhases
  <2>2. Done /\ UNCHANGED topic
    BY <1>6, <2>1, RepairableMishaps DEF Upload
  <2> QED  BY <2>2, <1>m, <1>done
<1>7. CASE Delete
  <2>1. handler'.phase = "unload" /\ UNCHANGED topic
    BY <1>7, <1>t DEF Delete, Handler
  <2> QED  BY <2>1, <1>m, <1>out DEF IndexPhases
<1>8. CASE Unload
  <2>1. CASE UNCHANGED topic
    BY <1>8, <2>1, <1>m, <1>done DEF Unload
  <2>2. CASE Requeue(REMOVE) /\ ~ UNCHANGED topic
    <3>1. topic' = Append(topic, Message(handler.houseId, REMOVE, handler.retry + 1))
      BY <2>2 DEF Requeue
    <3>2. Messages(topic')
      BY <3>1, <1>a DEF Message
    <3> QED  BY <1>8, <3>2, <1>done DEF Unload
  <2> QED  BY <1>8, <2>1, <2>2, RepairableMishaps DEF Unload, Retry
<1>9. CASE HandlerThrows
  BY <1>9, RepairableMishaps DEF HandlerThrows
<1>10. CASE Poll
  <2> DEFINE m == topic[position + 1]
  <2>1. position + 1 \in 1 .. Len(topic)
    BY <1>10, <1>t DEF Poll
  <2>2. m.operation = INDEX => m.retry <= faults'
    BY <2>1, <1>m
  <2>3. /\ handler' = [NoMessage EXCEPT
                         !.phase = IF m.operation = INDEX THEN "house" ELSE "delete",
                         !.houseId = m.houseId, !.retry = m.retry]
        /\ UNCHANGED topic
    BY <1>10 DEF Poll
  <2> HIDE DEF m
  <2>4. /\ handler'.phase = IF m.operation = INDEX THEN "house" ELSE "delete"
        /\ handler'.retry = m.retry /\ handler'.ok = TRUE
    BY <2>3 DEF NoMessage
  <2> QED  BY <2>2, <2>3, <2>4, <1>m DEF FewRetries, At, IndexPhases
<1>11. CASE AutoCommit
  <2>1. /\ topic' = SubSeq(topic, position + 1, Len(topic)) /\ UNCHANGED handler
        /\ handler.phase = "idle"
    BY <1>11 DEF AutoCommit, At
  <2>2. Messages(topic')
    BY <2>1, <1>m, <1>t
  <2> QED  BY <2>1, <2>2, <1>out DEF IndexPhases
<1>12. CASE Crash
  <2>1. Done /\ UNCHANGED topic
    BY <1>12 DEF Crash, Restart, Done
  <2> QED  BY <2>1, <1>m, <1>done
<1>13. CASE EnvSend
  <2>1. PICK h \in Houses, operation \in {INDEX, REMOVE} :
          topic' = Append(topic, Message(h, operation, 0))
    BY <1>13 DEF EnvSend
  <2>2. Messages(topic')
    BY <2>1, <1>a, <1>f, <1>t DEF Message
  <2>3. UNCHANGED handler
    BY <1>13 DEF EnvSend, listenerVars
  <2> QED  BY <2>2, <2>3, <1>t, <1>f DEF FewRetries, At, IndexPhases
<1>14. CASE Refresh \/ EnvRows \/ UNCHANGED searchVars
  <2>1. UNCHANGED <<topic, handler>>
    BY <1>14 DEF Refresh, EnvRows, searchVars, listenerVars
  <2> QED  BY <2>1, <1>m, <1>t, <1>f DEF FewRetries, At, IndexPhases
<1> QED
  BY <1>1, <1>2, <1>3, <1>4, <1>5, <1>6, <1>7, <1>8, <1>9, <1>10, <1>11, <1>12, <1>13, <1>14
     DEF Next, ListenerNext, Handle, Env

LEMMA EntriesNext ==
  ASSUME TypeOK, Repairable, BuiltFromRows, EntriesFromRows, [Next]_searchVars
  PROVE  EntriesFromRows'
<1>1. RowsMoveOn
  BY NextMovesOn
<1>h. handler.houseId \in Houses /\ poi \in [Houses -> Nat]
  BY DEF TypeOK, Handler
<1>keep. ASSUME \A h \in Houses : poi'[h] > 0 => poi[h] > 0 PROVE EntriesFromRows'
  BY <1>keep, <1>1 DEF EntriesFromRows, RowsMoveOn
<1>2. CASE Upload
  <2>1. {"house", "detail"} \subseteq rows[handler.houseId]
    BY <1>2 DEF Upload, At, BuiltFromRows, Writing, Built, Template
  <2>2. \A h \in Houses : h # handler.houseId => poi'[h] = poi[h]
    BY <1>2, <1>h DEF Upload
  <2> QED  BY <2>1, <2>2, <1>1, <1>h DEF EntriesFromRows, RowsMoveOn
<1>3. CASE Unload
  BY <1>3, <1>h, <1>keep DEF Unload
<1>4. CASE UNCHANGED poi
  BY <1>4, <1>keep
<1>5. LoadHouse \/ LoadDetail \/ Geocode \/ Search \/ WriteNone \/ WriteOne \/ WriteMany
        \/ CreateAfterDelete \/ Delete \/ HandlerThrows => UNCHANGED poi
  BY DEF LoadHouse, LoadDetail, Geocode, Search, WriteNone, WriteOne, WriteMany,
         CreateAfterDelete, Delete, HandlerThrows
<1>6. Poll \/ AutoCommit \/ Refresh \/ Crash \/ EnvRows \/ EnvSend \/ UNCHANGED searchVars
        => UNCHANGED poi
  BY DEF Poll, AutoCommit, Refresh, Crash, Restart, EnvRows, EnvSend, searchVars, listenerVars
<1> QED  BY <1>2, <1>3, <1>4, <1>5, <1>6 DEF Next, ListenerNext, Handle, Env

\* What a step of the handler does to the two mirrors of a house: writing and
\* deleting a document settle the one, the entry follows.
LEMMA MirrorSteps ==
  ASSUME TypeOK, Repairable, Single, BuiltFromRows, UniqueIds, FewRetries,
         EntriesFromRows, FirstDone, Handle
  PROVE  /\ position' = position
         /\ Len(topic) <= Len(topic')
         /\ \A k \in 1 .. Len(topic) : topic'[k] = topic[k]
         /\ \A h \in Houses : h # handler.houseId => (Agree(h)' <=> Agree(h))
         /\ \/ /\ handler'.phase \notin {"idle", "upload", "unload"}
               /\ handler'.houseId = handler.houseId
            \/ /\ handler'.phase = "upload" /\ handler'.houseId = handler.houseId
               /\ Of(live', handler.houseId) # {}
            \/ /\ handler'.phase = "unload" /\ handler'.houseId = handler.houseId
               /\ Of(live', handler.houseId) = {}
            \/ /\ handler'.phase = "idle"
               /\ \A h \in Houses :
                    h = handler.houseId =>
                      Agree(h)' \/ \E k \in 1 .. Len(topic') : k > position /\ topic'[k].houseId = h
<1> DEFINE Settled(h) ==
             Agree(h)' \/ \E k \in 1 .. Len(topic') : k > position /\ topic'[k].houseId = h
           Kept == /\ Len(topic) <= Len(topic')
                   /\ \A k \in 1 .. Len(topic) : topic'[k] = topic[k]
           Others == \A h \in Houses : h # handler.houseId => (Agree(h)' <=> Agree(h))
           Now == \A h \in Houses : h = handler.houseId => Settled(h)
<1>h. /\ handler \in Handler /\ handler.houseId \in Houses /\ handler.retry \in Nat
      /\ handler.phase \in HandlerPhases
      /\ topic \in Seq(HouseIndexMessage) /\ position \in 0 .. Len(topic)
      /\ poi \in [Houses -> Nat] /\ live \subseteq Document
      /\ faults \in Nat
  BY FaultBudget DEF TypeOK, Handler
<1>s. ASSUME UNCHANGED topic PROVE Kept
  BY <1>s, <1>h
<1>q. ASSUME NEW operation, Requeue(operation)
      PROVE  /\ Kept
             /\ handler.retry + 1 <= MAX_RETRY =>
                  \E k \in 1 .. Len(topic') :
                    k > position /\ topic'[k].houseId = handler.houseId
  <2> DEFINE m == Message(handler.houseId, operation, handler.retry + 1)
  <2>1. CASE handler.retry + 1 > MAX_RETRY
    <3>1. UNCHANGED topic
      BY <1>q, <2>1 DEF Requeue
    <3> QED  BY <3>1, <2>1, <1>s, <1>h
  <2>2. CASE ~ (handler.retry + 1 > MAX_RETRY)
    <3>1. topic' = Append(topic, m) /\ m.houseId = handler.houseId
      BY <1>q, <2>2 DEF Requeue, Message
    <3> HIDE DEF m
    <3>2. /\ Len(topic') = Len(topic) + 1 /\ topic'[Len(topic) + 1] = m
          /\ \A k \in 1 .. Len(topic) : topic'[k] = topic[k]
      BY <3>1, <1>h
    <3>3. Len(topic) + 1 \in 1 .. Len(topic') /\ Len(topic) + 1 > position
      BY <3>2, <1>h
    <3> QED  BY <3>1, <3>2, <3>3, <1>h
  <2> QED  BY <2>1, <2>2
<1>u. ASSUME UNCHANGED <<live, poi>>, NEW h \in Houses PROVE Agree(h)' <=> Agree(h)
  BY <1>u DEF Agree
<1>o. ASSUME UNCHANGED poi, NEW h \in Houses, Of(live', h) = Of(live, h)
      PROVE  Agree(h)' <=> Agree(h)
  BY <1>o DEF Agree
<1>d. ASSUME Done PROVE handler'.phase = "idle"
  BY <1>d DEF Done, NoMessage
<1>w. ASSUME NEW docs, Write(docs) PROVE live' = docs
  BY <1>w DEF Write
\* A house without a row has neither document nor entry.
<1>n. ASSUME ~ ({"house", "detail"} \subseteq rows[handler.houseId])
      PROVE  Agree(handler.houseId)
  <2>1. Of(live, handler.houseId) = {}
    BY <1>n DEF BuiltFromRows, Built, Of
  <2>2. ~ (poi[handler.houseId] > 0)
    BY <1>n, <1>h DEF EntriesFromRows
  <2> QED  BY <2>1, <2>2 DEF Agree
<1>a. ASSUME UNCHANGED <<live, poi>>, Agree(handler.houseId) PROVE Now
  BY <1>a DEF Agree
<1>1. CASE LoadHouse \/ LoadDetail
  <2>1. UNCHANGED <<topic, position, live, poi>>
    BY <1>1 DEF LoadHouse, LoadDetail, indexVars
  <2>2. Kept /\ Others
    BY <2>1, <1>s, <1>u
  <2>3. CASE Done /\ ~ ({"house", "detail"} \subseteq rows[handler.houseId])
    BY <2>1, <2>2, <2>3, <1>d, <1>n, <1>a
  <2>4. CASE handler'.phase \in {"detail", "geocode"} /\ handler'.houseId = handler.houseId
    BY <2>1, <2>2, <2>4
  <2>5. LoadHouse =>
          \/ Done /\ ~ ({"house", "detail"} \subseteq rows[handler.houseId])
          \/ handler'.phase \in {"detail", "geocode"} /\ handler'.houseId = handler.houseId
    BY <1>h DEF LoadHouse, Handler
  <2>6. LoadDetail =>
          \/ Done /\ ~ ({"house", "detail"} \subseteq rows[handler.houseId])
          \/ handler'.phase \in {"detail", "geocode"} /\ handler'.houseId = handler.houseId
    BY <1>h DEF LoadDetail, Handler
  <2> QED  BY <1>1, <2>3, <2>4, <2>5, <2>6
<1>2. CASE Geocode
  <2>1. UNCHANGED <<position, live, poi>>
    BY <1>2 DEF Geocode, indexVars
  <2>2. Others
    BY <2>1, <1>u
  <2>3. CASE Goto("search") /\ UNCHANGED topic
    <3>1. handler'.phase = "search" /\ handler'.houseId = handler.houseId
      BY <2>3, <1>h DEF Goto, Handler
    <3> QED  BY <2>1, <2>2, <2>3, <3>1, <1>s
  <2>4. CASE Mishap("geocode") /\ Requeue(INDEX) /\ Done
    <3>1. faults < MaxFaults /\ MaxFaults <= MAX_RETRY /\ MaxFaults \in Nat
      BY <2>4, RepairableMishaps, FaultBudget DEF Repairable
    <3>2. handler.retry <= faults
      BY <1>2 DEF Geocode, At, FewRetries, IndexPhases
    <3>3. handler.retry + 1 <= MAX_RETRY
      BY <3>1, <3>2, <1>h
    <3> QED  BY <2>1, <2>2, <2>4, <3>3, <1>q, <1>d
  <2> QED  BY <1>2, <2>3, <2>4 DEF Geocode
<1>3. CASE Search
  <2>1. /\ UNCHANGED <<topic, position, live, poi>>
        /\ handler'.phase = "write" /\ handler'.houseId = handler.houseId
    BY <1>3, <1>h DEF Search, indexVars, Handler
  <2> QED  BY <2>1, <1>s, <1>u
<1>4. CASE WriteNone \/ WriteOne
  <2>1. PICK id : \E rest \in SUBSET live :
          /\ live' = rest \cup {Template(id)}
          /\ \A d \in live \ rest : d.houseId = handler.houseId
    <3>1. CASE WriteNone
      <4> DEFINE new == CHOOSE i \in DocIds \ UsedIds : TRUE
      <4>1. live' = live \cup {Template(new)}
        BY <3>1, <1>w DEF WriteNone, NewDocument
      <4> WITNESS new
      <4> WITNESS live \in SUBSET live
      <4> QED  BY <4>1
    <3>2. CASE WriteOne
      <4>1. handler.found = {d.id : d \in Of(live, handler.houseId)}
        BY <3>2 DEF WriteOne, Single, FoundIsCurrent
      <4>2. PICK id \in DocIds :
              /\ handler.found = {id}
              /\ \/ Write({d \in live : d.id # id} \cup {Template(id)})
                 \/ \A d \in live : d.id # id
        BY <3>2 DEF WriteOne
      <4>3. PICK c \in live : c.houseId = handler.houseId /\ c.id = id
        BY <4>1, <4>2 DEF Of
      <4>4. live' = {d \in live : d.id # id} \cup {Template(id)}
        BY <4>2, <4>3, <1>w
      <4>5. \A d \in live : d.id = id => d = c
        BY <4>3 DEF UniqueIds
      <4> WITNESS id
      <4> WITNESS {d \in live : d.id # id} \in SUBSET live
      <4> QED  BY <4>3, <4>4, <4>5
    <3> QED  BY <1>4, <3>1, <3>2
  <2>2. UNCHANGED <<topic, position, poi>> /\ Goto("upload")
    BY <1>4, NothingGone DEF WriteNone, WriteOne
  <2>3. handler'.phase = "upload" /\ handler'.houseId = handler.houseId
    BY <2>2, <1>h DEF Goto, Handler
  <2>4. Template(id) \in Of(live', handler.houseId)
    BY <2>1 DEF Of, Template
  <2>5. Others
    <3> SUFFICES ASSUME NEW h \in Houses, h # handler.houseId
                 PROVE  Of(live', h) = Of(live, h)
      BY <2>2, <1>o
    <3> QED  BY <2>1 DEF Of, Template
  <2> QED  BY <2>2, <2>3, <2>4, <2>5, <1>s
<1>5. CASE WriteMany
  <2>1. At("write") /\ Cardinality(handler.found) > 1
    BY <1>5 DEF WriteMany
  <2>2. IsFiniteSet(handler.found) /\ Cardinality(handler.found) <= 1
    BY <2>1, FoundAtMostOne
  <2>3. Cardinality(handler.found) \in Nat
    BY <2>2, FS_CardinalityType
  <2> QED  BY <2>1, <2>2, <2>3
<1>6. CASE CreateAfterDelete
  BY <1>6 DEF CreateAfterDelete, FewRetries
<1>7. CASE Upload
  <2>1. Of(live, handler.houseId) # {} /\ handler.ok
    BY <1>7 DEF Upload, At, FirstDone, FewRetries, IndexPhases
  <2>2. Done /\ UNCHANGED <<topic, position, live>>
    BY <1>7, <2>1, RepairableMishaps DEF Upload, indexVars
  <2>3. /\ poi'[handler.houseId] > 0
        /\ \A h \in Houses : h # handler.houseId => poi'[h] = poi[h]
    BY <1>7, <1>h, RepairableMishaps DEF Upload
  <2>4. Now
    BY <2>1, <2>2, <2>3 DEF Agree
  <2>5. Others
    BY <2>2, <2>3 DEF Agree
  <2> QED  BY <2>2, <2>4, <2>5, <1>s, <1>d
<1>8. CASE Delete
  <2>1. live' = live \ Of(live, handler.houseId)
    BY <1>8, <1>w DEF Delete, Deleted, View, Repairable, Of
  <2>2. UNCHANGED <<topic, position, poi>>
    BY <1>8 DEF Delete
  <2>3. handler'.phase = "unload" /\ handler'.houseId = handler.houseId
    BY <1>8, <1>h DEF Delete, Handler
  <2>4. Of(live', handler.houseId) = {}
    BY <2>1 DEF Of
  <2>5. Others
    <3> SUFFICES ASSUME NEW h \in Houses, h # handler.houseId
                 PROVE  Of(live', h) = Of(live, h)
      BY <2>2, <1>o
    <3> QED  BY <2>1 DEF Of
  <2> QED  BY <2>2, <2>3, <2>4, <2>5, <1>s
<1>9. CASE Unload
  <2>1. Of(live, handler.houseId) = {}
    BY <1>9 DEF Unload, At, FirstDone
  <2>2. Done /\ UNCHANGED <<position, live>>
    BY <1>9 DEF Unload, indexVars
  <2>3. poi' = [poi EXCEPT ![handler.houseId] = 0]
    BY <1>9, RepairableMishaps DEF Unload
  <2>4. Kept
    BY <1>9, <1>s, <1>q, RepairableMishaps DEF Unload, Retry
  <2>5. Now
    BY <2>1, <2>2, <2>3, <1>h DEF Agree
  <2>6. Others
    BY <2>2, <2>3, <1>h DEF Agree
  <2> QED  BY <2>2, <2>4, <2>5, <2>6, <1>d
<1>10. CASE HandlerThrows
  BY <1>10, RepairableMishaps DEF HandlerThrows
<1> QED
  BY <1>1, <1>2, <1>3, <1>4, <1>5, <1>6, <1>7, <1>8, <1>9, <1>10 DEF Handle

LEMMA FirstDoneNext ==
  ASSUME TypeOK, Repairable, Single, BuiltFromRows, Mirror, [Next]_searchVars
  PROVE  FirstDone'
<1>out. ASSUME handler'.phase \notin {"upload", "unload"} PROVE FirstDone'
  BY <1>out DEF FirstDone, At
<1>same. ASSUME UNCHANGED <<handler, live>> PROVE FirstDone'
  BY <1>same DEF Mirror, FirstDone, At
<1>1. CASE Handle
  <2>1. \/ handler'.phase \notin {"upload", "unload"}
        \/ handler'.phase = "upload" /\ Of(live', handler'.houseId) # {}
        \/ handler'.phase = "unload" /\ Of(live', handler'.houseId) = {}
    BY <1>1, MirrorSteps DEF Mirror
  <2> QED  BY <2>1, <1>out DEF FirstDone, At, Of
<1>2. CASE Poll
  <2>1. handler'.phase \in {"house", "delete"}
    BY <1>2 DEF Poll, NoMessage
  <2> QED  BY <2>1, <1>out
<1>3. CASE Crash
  BY <1>3, <1>out DEF Crash, Restart, NoMessage
<1>4. CASE AutoCommit \/ Refresh \/ EnvRows \/ EnvSend \/ UNCHANGED searchVars
  BY <1>4, <1>same DEF AutoCommit, Refresh, EnvRows, EnvSend, searchVars, listenerVars, indexVars
<1> QED  BY <1>1, <1>2, <1>3, <1>4 DEF Next, ListenerNext, Env

LEMMA AttendedNext ==
  ASSUME TypeOK, Repairable, Single, BuiltFromRows, UnfinishedIsUncommitted, Mirror,
         [Next]_searchVars
  PROVE  Attended'
<1>t. /\ topic \in Seq(HouseIndexMessage) /\ position \in 0 .. Len(topic)
      /\ handler.houseId \in Houses
  BY DEF TypeOK, Handler
<1> SUFFICES ASSUME NEW h \in Houses PROVE Agree(h)' \/ Waiting(h)' \/ InHand(h)'
  BY DEF Attended
<1>a. Agree(h) \/ Waiting(h) \/ InHand(h)
  BY DEF Mirror, Attended
\* Messages stay where they are, and may be followed by others.
<1>m. ASSUME position' = position, Len(topic) <= Len(topic'),
             \A k \in 1 .. Len(topic) : topic'[k] = topic[k],
             Waiting(h)
      PROVE  Waiting(h)'
  <2>1. PICK k \in 1 .. Len(topic) : k > position /\ topic[k].houseId = h
    BY <1>m DEF Waiting
  <2>2. k \in 1 .. Len(topic') /\ k > position' /\ topic'[k].houseId = h
    BY <1>m, <2>1
  <2> QED  BY <2>2 DEF Waiting
<1>1. CASE Handle
  <2>s. /\ position' = position
        /\ Len(topic) <= Len(topic')
        /\ \A k \in 1 .. Len(topic) : topic'[k] = topic[k]
        /\ h # handler.houseId => (Agree(h)' <=> Agree(h))
    BY <1>1, MirrorSteps DEF Mirror
  <2>1. CASE h # handler.houseId
    BY <2>1, <2>s, <1>a, <1>m DEF InHand
  <2>2. CASE h = handler.houseId
    <3>1. \/ handler'.phase # "idle" /\ handler'.houseId = h
          \/ Agree(h)' \/ \E k \in 1 .. Len(topic') : k > position /\ topic'[k].houseId = h
      BY <1>1, <2>2, MirrorSteps DEF Mirror
    <3> QED  BY <2>s, <3>1 DEF InHand, At, Waiting
  <2> QED  BY <2>1, <2>2
<1>2. CASE Poll
  <2> DEFINE m == topic[position + 1]
  <2>1. /\ handler' = [NoMessage EXCEPT
                         !.phase = IF m.operation = INDEX THEN "house" ELSE "delete",
                         !.houseId = m.houseId, !.retry = m.retry]
        /\ position' = position + 1 /\ UNCHANGED <<topic, live, poi>>
    BY <1>2 DEF Poll, indexVars
  <2>2. handler'.phase # "idle" /\ handler'.houseId = m.houseId
    <3> HIDE DEF m
    <3> QED  BY <2>1 DEF NoMessage
  <2>3. ~ InHand(h)
    BY <1>2 DEF Poll, InHand
  <2>4. CASE Agree(h)
    BY <2>1, <2>4 DEF Agree
  <2>5. CASE Waiting(h)
    <3>1. PICK k \in 1 .. Len(topic) : k > position /\ topic[k].houseId = h
      BY <2>5 DEF Waiting
    <3>2. CASE k = position + 1
      BY <3>1, <3>2, <2>2 DEF InHand, At
    <3>3. CASE k > position + 1
      BY <3>1, <3>3, <2>1 DEF Waiting
    <3> QED  BY <3>1, <3>2, <3>3, <1>t
  <2> QED  BY <1>a, <2>3, <2>4, <2>5
<1>3. CASE AutoCommit
  <2>1. /\ topic' = SubSeq(topic, position + 1, Len(topic)) /\ position' = 0
        /\ At("idle") /\ UNCHANGED <<live, poi>>
    BY <1>3 DEF AutoCommit, indexVars
  <2>2. CASE Agree(h)
    BY <2>1, <2>2 DEF Agree
  <2>3. CASE Waiting(h)
    <3>1. PICK k \in 1 .. Len(topic) : k > position /\ topic[k].houseId = h
      BY <2>3 DEF Waiting
    <3>2. /\ k - position \in 1 .. Len(topic') /\ k - position > position'
          /\ topic'[k - position].houseId = h
      BY <2>1, <3>1, <1>t
    <3> QED  BY <3>2 DEF Waiting
  <2> QED  BY <1>a, <2>1, <2>2, <2>3 DEF InHand
<1>4. CASE Crash
  <2>1. position' = 0 /\ UNCHANGED <<topic, live, poi>>
    BY <1>4 DEF Crash, Restart, indexVars
  <2>2. CASE Agree(h)
    BY <2>1, <2>2 DEF Agree
  <2>3. CASE \E k \in 1 .. Len(topic) : topic[k].houseId = h
    BY <2>1, <2>3 DEF Waiting
  <2>4. InHand(h) => position \in 1 .. Len(topic) /\ topic[position].houseId = h
    BY <1>t DEF InHand, UnfinishedIsUncommitted
  <2> QED  BY <1>a, <2>2, <2>3, <2>4 DEF Waiting
<1>5. CASE EnvSend
  <2>1. PICK m : topic' = Append(topic, m)
    BY <1>5 DEF EnvSend
  <2>2. UNCHANGED <<position, handler, live, poi>>
    BY <1>5 DEF EnvSend, listenerVars
  <2>3. Len(topic) <= Len(topic') /\ \A k \in 1 .. Len(topic) : topic'[k] = topic[k]
    BY <2>1, <1>t
  <2> QED  BY <2>2, <2>3, <1>a, <1>m DEF Agree, InHand, At
<1>6. CASE Refresh \/ EnvRows \/ UNCHANGED searchVars
  <2>1. UNCHANGED <<topic, position, handler, live, poi>>
    BY <1>6 DEF Refresh, EnvRows, searchVars, listenerVars
  <2> QED  BY <2>1, <1>a DEF Agree, Waiting, InHand, At
<1> QED  BY <1>1, <1>2, <1>3, <1>4, <1>5, <1>6 DEF Next, ListenerNext, Env

(***************************************************************************)
(* When every message is handled, index and LBS table hold the same        *)
(* houses, though the process died between the two calls, sends were lost  *)
(* and calls failed (SearchService.java 113-129 and 181-189), as long as   *)
(* what fails leaves its message behind.                                   *)
(***************************************************************************)
THEOREM MirrorsStayTogether ==
  Repairable => (Spec => []MirrorsAgree)
<1> SUFFICES ASSUME Repairable PROVE Spec => []MirrorsAgree
  OBVIOUS
<1> DEFINE Inv == /\ TypeOK /\ BuiltFromRows /\ UnfinishedIsUncommitted /\ Single
                  /\ Mirror
<1>1. Init => Inv
  <2> SUFFICES ASSUME Init PROVE Inv
    OBVIOUS
  <2>0. TypeOK
    BY InitType
  <2>1. /\ topic = <<>> /\ handler.phase = "idle" /\ live = {} /\ seen = {}
        /\ poi = [h \in Houses |-> 0]
    BY DEF Init, ListenerInit, NoMessage
  <2>2. BuiltFromRows /\ UnfinishedIsUncommitted /\ Single
    BY <2>1 DEF BuiltFromRows, At, Writing, UnfinishedIsUncommitted, Single, AtMostOne,
                FoundIsCurrent
  <2>3. UniqueIds /\ FewRetries /\ EntriesFromRows /\ FirstDone /\ Attended
    BY <2>1 DEF UniqueIds, FewRetries, EntriesFromRows, FirstDone, Attended, Agree, At,
                IndexPhases, Of
  <2> QED  BY <2>0, <2>2, <2>3 DEF Mirror
<1>2. Inv /\ [Next]_searchVars => Inv'
  <2> SUFFICES ASSUME Inv, [Next]_searchVars PROVE Inv'
    OBVIOUS
  <2>1. TypeOK' /\ BuiltFromRows' /\ UnfinishedIsUncommitted' /\ Single'
    BY NextType, BuiltNext, CommittedNext, SingleNext DEF Repairable
  <2>2. UniqueIds' /\ FewRetries' /\ EntriesFromRows'
    BY UniqueIdsNext, FewRetriesNext, EntriesNext DEF Mirror
  <2>3. FirstDone' /\ Attended'
    BY FirstDoneNext, AttendedNext
  <2> QED  BY <2>1, <2>2, <2>3 DEF Mirror
<1>3. Inv => MirrorsAgree
  <2> SUFFICES ASSUME TypeOK, Attended, At("idle"), position = Len(topic), NEW h \in Houses
               PROVE  Agree(h)
    BY DEF MirrorsAgree, Mirror, Agree
  <2> QED  BY DEF TypeOK, Attended, Waiting, InHand
<1> HIDE DEF Inv
<1> QED  BY <1>1, <1>2, <1>3, PTL DEF Spec

-----------------------------------------------------------------------------
(***************************************************************************)
(* Contents move on.  The strengthening: no document of the house being    *)
(* indexed is newer than what the handler has read of the house row.       *)
(***************************************************************************)
NoneNewer ==
  handler.phase \in {"detail", "geocode", "search", "write", "create"} =>
    \A d \in live : d.houseId = handler.houseId => d.drev <= handler.hrev

LEMMA NoneNewerNext ==
  ASSUME TypeOK, BuiltFromRows, NoneNewer, [Next]_searchVars
  PROVE  NoneNewer'
<1>h. handler \in Handler
  BY DEF TypeOK
<1> DEFINE Before == {"detail", "geocode", "search", "write", "create"}
<1>out. ASSUME handler'.phase \notin Before PROVE NoneNewer'
  BY <1>out DEF NoneNewer
<1>done. ASSUME Done PROVE NoneNewer'
  BY <1>done, <1>out DEF Done, NoMessage
<1>on. ASSUME handler.phase \in Before, live' \subseteq live,
              handler'.houseId = handler.houseId, handler'.hrev = handler.hrev
       PROVE  NoneNewer'
  BY <1>on DEF NoneNewer
<1>1. CASE LoadHouse
  <2>1. CASE Done
    BY <2>1, <1>done
  <2>2. CASE handler' = [handler EXCEPT !.phase = "detail", !.hrev = rev[handler.houseId]]
    <3>1. handler'.houseId = handler.houseId /\ handler'.hrev = rev[handler.houseId]
      BY <2>2, <1>h DEF Handler
    <3>2. live' = live
      BY <1>1 DEF LoadHouse, indexVars
    <3>3. \A d \in live : d.drev <= rev[d.houseId]
      BY DEF BuiltFromRows, Built
    <3> QED  BY <3>1, <3>2, <3>3 DEF NoneNewer
  <2> QED  BY <1>1, <2>1, <2>2 DEF LoadHouse
<1>2. CASE LoadDetail \/ Geocode \/ Search
  <2>1. live' \subseteq live /\ handler.phase \in Before
    BY <1>2 DEF LoadDetail, Geocode, Search, indexVars, At
  <2>2. Done \/ (handler'.houseId = handler.houseId /\ handler'.hrev = handler.hrev)
    BY <1>2, <1>h DEF LoadDetail, Geocode, Search, Goto, Handler
  <2> QED  BY <2>1, <2>2, <1>done, <1>on
<1>3. CASE WriteNone \/ WriteOne \/ CreateAfterDelete
  <2>1. Done \/ handler'.phase = "upload"
    BY <1>3, <1>h DEF WriteNone, WriteOne, CreateAfterDelete, Goto, Handler
  <2> QED  BY <2>1, <1>done, <1>out
<1>4. CASE WriteMany
  <2>1. live' \subseteq live /\ handler.phase \in Before
    BY <1>4 DEF WriteMany, Write, At
  <2>2. handler'.houseId = handler.houseId /\ handler'.hrev = handler.hrev
    BY <1>4, <1>h DEF WriteMany, Handler
  <2> QED  BY <2>1, <2>2, <1>on
<1>5. CASE Delete
  <2>1. handler'.phase = "unload"
    BY <1>5, <1>h DEF Delete, Handler
  <2> QED  BY <2>1, <1>out
<1>6. CASE Upload \/ Unload \/ HandlerThrows
  BY <1>6, <1>done DEF Upload, Unload, HandlerThrows
<1>7. CASE Poll
  <2>1. handler'.phase \in {"house", "delete"}
    BY <1>7 DEF Poll, NoMessage
  <2> QED  BY <2>1, <1>out
<1>8. CASE Crash
  <2>1. handler'.phase = "idle"
    BY <1>8 DEF Crash, Restart, NoMessage
  <2> QED  BY <2>1, <1>out
<1>9. CASE AutoCommit \/ Refresh \/ EnvRows \/ EnvSend \/ UNCHANGED searchVars
  <2>1. live' = live /\ handler' = handler
    BY <1>9 DEF AutoCommit, Refresh, EnvRows, EnvSend, searchVars, listenerVars, indexVars
  <2> QED  BY <2>1 DEF NoneNewer
<1> QED
  BY <1>1, <1>2, <1>3, <1>4, <1>5, <1>6, <1>7, <1>8, <1>9
     DEF Next, ListenerNext, Handle, Env

(***************************************************************************)
(* Indexing a house again never brings an older content of either row back *)
(* into its document (createOrUpdateIndex, SearchService.java 133-179).    *)
(***************************************************************************)
THEOREM ContentsMoveOn == Spec => ContentMovesOn
<1> DEFINE Inv == TypeOK /\ BuiltFromRows /\ NoneNewer
           Step == \A d \in live, e \in live' :
                     d.houseId = e.houseId /\ d # e /\ e \notin live => d.drev <= e.hrev
<1>1. Init => Inv
  <2> SUFFICES ASSUME Init PROVE Inv
    OBVIOUS
  <2>1. BuiltFromRows
    BY DEF Init, ListenerInit, BuiltFromRows, At, Writing, NoMessage
  <2>2. NoneNewer
    BY DEF Init, ListenerInit, NoneNewer, NoMessage
  <2> QED  BY <2>1, <2>2, InitType
<1>2. Inv /\ [Next]_searchVars => Inv'
  BY NextType, BuiltNext, NoneNewerNext
<1>3. Inv /\ [Next]_searchVars => Step
  <2> SUFFICES ASSUME TypeOK, NoneNewer, [Next]_searchVars,
                      NEW d \in live, NEW e \in live', d.houseId = e.houseId, e \notin live
               PROVE  d.drev <= e.hrev
    OBVIOUS
  <2>1. /\ handler.phase \in {"write", "create"}
        /\ \E id \in DocIds : e = Template(id)
    BY IndexSteps
  <2>2. e.houseId = handler.houseId /\ e.hrev = handler.hrev
    BY <2>1 DEF Template
  <2> QED  BY <2>1, <2>2 DEF NoneNewer
<1>4. Inv /\ [Next]_searchVars => [Step]_searchVars
  BY <1>3
<1> HIDE DEF Inv
<1>5. Spec => [][Step]_searchVars
  <2> HIDE DEF Step
  <2> QED  BY <1>1, <1>2, <1>4, PTL DEF Spec
<1> QED  BY <1>5 DEF ContentMovesOn

-----------------------------------------------------------------------------
(***************************************************************************)
(* What an INDEX leaves behind.  The strengthening: a handler that goes on *)
(* to the LBS with nothing failed has put what it read into the index.     *)
(***************************************************************************)
WrittenAsRead == handler.phase = "upload" /\ handler.ok => AsRead # {}

\* A document built by the step that goes on to the upload is as it was read.
LEMMA WrittenByStep ==
  ASSUME handler \in Handler, NEW id, Template(id) \in live',
         handler' = [handler EXCEPT !.phase = "upload"]
  PROVE  WrittenAsRead'
<1>1. /\ handler'.houseId = handler.houseId
      /\ handler'.hrev = handler.hrev /\ handler'.drev = handler.drev
  BY DEF Handler
<1>2. /\ Template(id).houseId = handler.houseId
      /\ Template(id).hrev = handler.hrev /\ Template(id).drev = handler.drev
  BY DEF Template
<1>3. Template(id) \in AsRead'
  <2> HIDE DEF Template
  <2> QED  BY ONLY Template(id) \in live', <1>1, <1>2 DEF AsRead, Of
<1> QED  BY <1>3 DEF WrittenAsRead

LEMMA WrittenNext ==
  ASSUME TypeOK, WrittenAsRead, [Next]_searchVars
  PROVE  WrittenAsRead'
<1>h. handler \in Handler
  BY DEF TypeOK
<1>out. ASSUME handler'.phase # "upload" PROVE WrittenAsRead'
  BY ONLY <1>out DEF WrittenAsRead
<1>done. ASSUME Done PROVE WrittenAsRead'
  BY <1>done, <1>out DEF Done, NoMessage
<1>same. ASSUME handler' = handler, live' = live PROVE WrittenAsRead'
  BY <1>same DEF WrittenAsRead, AsRead, Of
<1>1. CASE LoadHouse \/ LoadDetail \/ Geocode \/ Search
  <2>1. Done \/ handler'.phase \in {"detail", "geocode", "search", "write"}
    BY <1>1, <1>h DEF LoadHouse, LoadDetail, Geocode, Search, Goto, Handler
  <2> QED  BY <2>1, <1>done, <1>out
<1>2. CASE WriteNone \/ CreateAfterDelete
  <2> DEFINE id == CHOOSE i \in DocIds \ UsedIds : TRUE
  <2>1. live' = live \cup {Template(id)} /\ handler' = [handler EXCEPT !.phase = "upload"]
    BY <1>2 DEF WriteNone, CreateAfterDelete, Write, Goto, NewDocument
  <2> HIDE DEF id
  <2> QED  BY <1>h, <2>1, WrittenByStep
<1>3. CASE WriteOne
  <2>1. PICK id \in DocIds :
          \/ /\ Write({d \in live : d.id # id} \cup {Template(id)})
             /\ Goto("upload")
          \/ Done
    BY <1>3 DEF WriteOne
  <2>2. CASE Write({d \in live : d.id # id} \cup {Template(id)}) /\ Goto("upload")
    <3>1. Template(id) \in live' /\ handler' = [handler EXCEPT !.phase = "upload"]
      BY <2>2 DEF Write, Goto
    <3> QED  BY <1>h, <3>1, WrittenByStep
  <2> QED  BY <2>1, <2>2, <1>done
\* deleteAndCreate goes on to the LBS only with ok taken back.
<1>4. CASE WriteMany
  <2>1. PICK same \in BOOLEAN :
          handler' = [handler EXCEPT !.phase = IF same THEN "create" ELSE "upload",
                                     !.ok = same]
    BY <1>4 DEF WriteMany
  <2>2. CASE same
    <3>1. handler'.phase = "create"
      BY <1>h, <2>1, <2>2 DEF Handler
    <3> QED  BY <3>1, <1>out
  <2>3. CASE ~ same
    <3>1. ~ handler'.ok
      BY <1>h, <2>1, <2>3 DEF Handler
    <3> QED  BY <3>1 DEF WrittenAsRead
  <2> QED  BY <2>2, <2>3
<1>5. CASE Delete
  <2>1. handler'.phase = "unload"
    BY <1>5, <1>h DEF Delete, Handler
  <2> QED  BY <2>1, <1>out
<1>6. CASE Upload \/ Unload \/ HandlerThrows
  BY <1>6, <1>done DEF Upload, Unload, HandlerThrows
<1>7. CASE Poll
  <2>1. handler'.phase \in {"house", "delete"}
    BY <1>7 DEF Poll, NoMessage
  <2> QED  BY <2>1, <1>out
<1>8. CASE Crash
  <2>1. handler'.phase = "idle"
    BY <1>8 DEF Crash, Restart, NoMessage
  <2> QED  BY <2>1, <1>out
<1>9. CASE AutoCommit \/ Refresh \/ EnvRows \/ EnvSend \/ UNCHANGED searchVars
  <2>1. live' = live /\ handler' = handler
    BY <1>9 DEF AutoCommit, Refresh, EnvRows, EnvSend, searchVars, listenerVars, indexVars
  <2> QED  BY <2>1, <1>same
<1> QED
  BY <1>1, <1>2, <1>3, <1>4, <1>5, <1>6, <1>7, <1>8, <1>9
     DEF Next, ListenerNext, Handle, Env

LEMMA UploadEnds ==
  ASSUME TypeOK, WrittenAsRead, Upload, ~ Mishap("send")
  PROVE  \/ AsRead # {}
         \/ topic' = Append(topic, Message(handler.houseId, INDEX, handler.retry + 1))
         \/ handler.retry = MAX_RETRY
<1>1. handler.retry \in 0 .. MAX_RETRY /\ handler.phase = "upload"
  BY DEF TypeOK, Handler, Upload, At
<1>2. CASE handler.ok
  BY <1>1, <1>2 DEF WrittenAsRead
<1>3. CASE ~ handler.ok
  <2>1. Requeue(INDEX)
    BY <1>3 DEF Upload, Retry
  <2> QED  BY <1>1, <2>1 DEF Requeue
<1> QED  BY <1>2, <1>3

(***************************************************************************)
(* For any number of houses, documents and messages, with searches that    *)
(* lag and whatever fails: an INDEX handled to its end has put what it     *)
(* read into the index, or is asked for again, until its retries are used  *)
(* up (SearchService.java 165-190, 543-557).  Only a lost send or an       *)
(* exception, after which the message is not handled to its end, breaks    *)
(* the chain.                                                              *)
(***************************************************************************)
THEOREM NothingDropped == Spec => IndexedOrAskedAgain
<1> DEFINE Inv == TypeOK /\ WrittenAsRead
           Step == Upload /\ ~ Mishap("send") =>
                     \/ AsRead # {}
                     \/ topic' = Append(topic,
                                        Message(handler.houseId, INDEX, handler.retry + 1))
                     \/ handler.retry = MAX_RETRY
<1>1. Init => Inv
  <2> SUFFICES ASSUME Init PROVE WrittenAsRead
    BY InitType
  <2> QED  BY DEF Init, ListenerInit, WrittenAsRead, NoMessage
<1>2. Inv /\ [Next]_searchVars => Inv'
  BY NextType, WrittenNext
<1>3. Inv /\ [Next]_searchVars => [Step]_searchVars
  BY UploadEnds
<1> QED  BY <1>1, <1>2, <1>3, PTL DEF Spec, IndexedOrAskedAgain

=============================================================================
