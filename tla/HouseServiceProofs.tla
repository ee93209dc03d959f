-------------------------- MODULE HouseServiceProofs --------------------------
(***************************************************************************)
(* Theorems about HouseService, for any number of houses, threads and      *)
(* requests and for every combination of mishaps.                          *)
(***************************************************************************)
EXTENDS HouseService, TLAPS

USE DEF NOT_AUDITED, PASSES, RENTED, DELETED, Terminal, Statuses, INDEX, REMOVE,
        Tables, Phases, Kinds

-----------------------------------------------------------------------------
(***************************************************************************)
(* Whatever status an operation asks for is one of the four.               *)
(***************************************************************************)
LEMMA TargetIsStatus ==
  ASSUME NEW operation \in HouseOperations
  PROVE  TargetOf(operation) \in Statuses
BY DEF HouseOperations, TargetOf

LEMMA NoRequestType == NoRequest \in Request
BY HousesAssumption DEF NoRequest, AnyHouse, Request

LEMMA MessageType ==
  ASSUME NEW h \in Houses, NEW s \in Statuses
  PROVE  Message(h, OperationFor(s), 0) \in HouseIndexMessage
BY DEF Message, OperationFor, HouseIndexMessage, MAX_RETRY

LEMMA MishapType ==
  ASSUME faults \in 0 .. MaxFaults, NEW kind, Mishap(kind) \/ NoMishap
  PROVE  faults' \in 0 .. MaxFaults
BY FaultBudget DEF Mishap, NoMishap

(***************************************************************************)
(* Init and every step of the service keep the types.                      *)
(***************************************************************************)
LEMMA InitType == Init => TypeOK
BY NoRequestType, FaultBudget, MaxRequestsAssumption, StoredAssumption
   DEF Init, TypeOK

LEMMA StartType ==
  ASSUME TypeOK, NEW t \in Threads, NEW kind, NEW h \in Houses,
         NEW phase \in Phases, NEW s \in Statuses, Start(t, kind, h, phase, s)
  PROVE  req' \in [Threads -> Request] /\ requests' \in 0 .. MaxRequests
BY MaxRequestsAssumption DEF TypeOK, Start, Request

LEMMA FinishType ==
  ASSUME TypeOK, NEW t \in Threads, Finish(t)
  PROVE  req' \in [Threads -> Request]
BY NoRequestType DEF TypeOK, Finish

LEMMA NextType == TypeOK /\ [Next]_vars => TypeOK'
<1> SUFFICES ASSUME TypeOK, [Next]_vars PROVE TypeOK'
  OBVIOUS
<1> USE DEF TypeOK
<1>1. ASSUME NEW t \in Threads, NEW h \in Houses, SaveHouse(t, h)
      PROVE  TypeOK'
  <2>1. req' \in [Threads -> Request] /\ requests' \in 0 .. MaxRequests
    BY <1>1, StartType DEF SaveHouse
  <2> QED  BY <1>1, <2>1, MishapType DEF SaveHouse
<1>2. ASSUME NEW t \in Threads, SavePart(t)
      PROVE  TypeOK'
  <2>1. req[t] \in Request
    OBVIOUS
  <2>2. req' \in [Threads -> Request]
    <3>1. CASE Finish(t)
      BY <3>1, FinishType
    <3>2. CASE req' = [req EXCEPT ![t].phase = "picture"]
      BY <3>2, <2>1 DEF Request
    <3>3. CASE req' = [req EXCEPT ![t].phase = "tag"]
      BY <3>3, <2>1 DEF Request
    <3> QED  BY <1>2, <3>1, <3>2, <3>3 DEF SavePart
  <2>3. rows' \in [Houses -> SUBSET Tables]
    <3>1. rows' = [rows EXCEPT ![req[t].house] = @ \cup {req[t].phase}]
      BY <1>2 DEF SavePart
    <3>2. rows[req[t].house] \cup {req[t].phase} \in SUBSET Tables
      BY <1>2, <2>1 DEF SavePart, Request
    <3> HIDE DEF Tables
    <3> QED  BY <2>1, <3>1, <3>2 DEF Request
  <2> QED  BY <1>2, <2>2, <2>3, MishapType DEF SavePart
<1>3. ASSUME NEW t \in Threads, CallFails(t)
      PROVE  TypeOK'
  <2>1. req' \in [Threads -> Request]
    BY <1>3, FinishType DEF CallFails
  <2>2. faults' \in 0 .. MaxFaults
    BY <1>3, MishapType DEF CallFails
  <2>3. UNCHANGED <<rows, status, rev, lock, topic, requests>>
    BY <1>3 DEF CallFails, dbVars
  <2> QED  BY <2>1, <2>2, <2>3
<1>4. ASSUME NEW t \in Threads, NEW h \in Houses, UpdateRead(t, h)
      PROVE  TypeOK'
  <2>1. req' \in [Threads -> Request] /\ requests' \in 0 .. MaxRequests
    <3>1. Start(t, "edit", h, "edit", status[h])
      BY <1>4 DEF UpdateRead
    <3>2. "edit" \in Phases /\ status[h] \in Statuses
      BY DEF Phases
    <3> HIDE DEF Statuses
    <3> QED  BY <3>1, <3>2, StartType
  <2>2. faults' \in 0 .. MaxFaults
    BY <1>4, MishapType DEF UpdateRead
  <2>3. UNCHANGED <<rows, status, rev, lock, topic>>
    BY <1>4 DEF UpdateRead, dbVars
  <2> QED  BY <2>1, <2>2, <2>3
<1>5. ASSUME NEW t \in Threads, UpdateCommit(t)
      PROVE  TypeOK'
  <2>1. req[t].house \in Houses /\ req[t].status \in Statuses
    BY DEF Request
  <2>2. status' \in [Houses -> Statuses] /\ rev' \in [Houses -> Nat]
    BY <1>5, <2>1 DEF UpdateCommit
  <2>3. rows' \in [Houses -> SUBSET Tables]
    <3>1. PICK photos \in SUBSET {"picture"} :
            rows' = [rows EXCEPT ![req[t].house] = @ \cup photos]
      BY <1>5 DEF UpdateCommit
    <3>2. rows[req[t].house] \cup photos \in SUBSET Tables
      BY <2>1
    <3> HIDE DEF Tables
    <3> QED  BY <2>1, <3>1, <3>2
  <2> QED  BY <1>5, <2>2, <2>3, FinishType, MishapType DEF UpdateCommit
<1>6. ASSUME NEW t \in Threads, UpdateRefused(t)
      PROVE  TypeOK'
  BY <1>6, FinishType, MishapType DEF UpdateRefused, dbVars
<1>7. ASSUME NEW t \in Threads, NEW h \in Houses, NEW operation \in HouseOperations,
             StatusRead(t, h, operation)
      PROVE  TypeOK'
  <2>1. TargetOf(operation) \in Statuses
    BY TargetIsStatus
  <2>2. Start(t, "status", h, "status", TargetOf(operation))
    BY <1>7 DEF StatusRead
  <2>3. req' \in [Threads -> Request] /\ requests' \in 0 .. MaxRequests
    <3> HIDE DEF Statuses
    <3> QED  BY <2>1, <2>2, StartType
  <2>4. faults' \in 0 .. MaxFaults
    BY <1>7, MishapType DEF StatusRead
  <2>5. UNCHANGED <<dbVars, lock, topic>>
    BY <1>7 DEF StatusRead
  <2> QED  BY <2>3, <2>4, <2>5 DEF dbVars
<1>8. ASSUME NEW t \in Threads, StatusWrite(t)
      PROVE  TypeOK'
  <2>1. req[t] \in Request /\ req[t].house \in Houses /\ req[t].status \in Statuses
    BY DEF Request
  <2>2. req' \in [Threads -> Request]
    BY <1>8, <2>1 DEF StatusWrite, Request
  <2>3. lock' \in [Houses -> Threads \cup {NoThread}]
    BY <1>8, <2>1 DEF StatusWrite
  <2>4. Message(req[t].house, OperationFor(req[t].status), 0) \in HouseIndexMessage
    <3> HIDE DEF Statuses
    <3> QED  BY <2>1, MessageType
  <2>5. topic' \in Seq(HouseIndexMessage)
    <3>1. CASE UNCHANGED topic
      BY <3>1
    <3>2. CASE topic' = Append(topic, Message(req[t].house, OperationFor(req[t].status), 0))
      BY <3>2, <2>4
    <3> QED  BY <1>8, <3>1, <3>2 DEF StatusWrite
  <2>6. faults' \in 0 .. MaxFaults
    BY <1>8, MishapType DEF StatusWrite
  <2>7. UNCHANGED <<dbVars, requests>>
    BY <1>8 DEF StatusWrite
  <2> QED  BY <2>2, <2>3, <2>5, <2>6, <2>7 DEF dbVars
<1>9. ASSUME NEW t \in Threads, StatusCommit(t)
      PROVE  TypeOK'
  <2>1. req[t].house \in Houses /\ req[t].status \in Statuses
    BY DEF Request
  <2> QED  BY <1>9, <2>1, FinishType, MishapType DEF StatusCommit
<1>10. ASSUME NEW t \in Threads, StatusRollback(t)
       PROVE  TypeOK'
  <2>1. req[t].house \in Houses
    BY DEF Request
  <2> QED  BY <1>10, <2>1, FinishType, MishapType DEF StatusRollback, dbVars
<1>11. CASE Crash
  BY <1>11, NoRequestType, MishapType DEF Crash, Restart, dbVars
<1>12. CASE UNCHANGED vars
  BY <1>12 DEF vars, serviceVars
<1> QED
  BY <1>1, <1>2, <1>3, <1>4, <1>5, <1>6, <1>7, <1>8, <1>9, <1>10, <1>11, <1>12
     DEF Next, ServiceNext, Arrive, Continue

(***************************************************************************)
(* Every reachable state of the service has the types of its tables,       *)
(* requests, locks and messages.                                           *)
(***************************************************************************)
THEOREM TypeCorrect == Spec => []TypeOK
BY InitType, NextType, PTL DEF Spec

-----------------------------------------------------------------------------
(***************************************************************************)
(* Row locks: which transaction holds one, a lemma for the order of the    *)
(* messages below.  Inductive as it stands, given the types.               *)
(***************************************************************************)
LocksAreOwned ==
  \A t \in Threads, h \in Houses :
    lock[h] = t <=> req[t].phase = "sent" /\ req[t].house = h

LEMMA LocksInit == Init => LocksAreOwned
<1> SUFFICES ASSUME Init, NEW t \in Threads, NEW h \in Houses
             PROVE  lock[h] # t /\ req[t].phase # "sent"
  BY DEF LocksAreOwned
<1>1. req[t].phase = "idle"
  BY DEF Init, NoRequest
<1>2. lock[h] = NoThread
  BY DEF Init
<1> QED  BY <1>1, <1>2, NoThreadAssumption

LEMMA LocksNext == TypeOK /\ LocksAreOwned /\ [Next]_vars => LocksAreOwned'
<1> SUFFICES ASSUME TypeOK, LocksAreOwned, [Next]_vars PROVE LocksAreOwned'
  OBVIOUS
<1> USE NoThreadAssumption DEF TypeOK, LocksAreOwned
\* A thread that neither enters nor leaves "sent" disturbs no lock.
<1>0. ASSUME NEW t \in Threads, UNCHANGED lock, req[t].phase # "sent",
             req' \in [Threads -> Request], req'[t].phase # "sent",
             \A u \in Threads \ {t} : req'[u] = req[u]
      PROVE  LocksAreOwned'
  <2> SUFFICES ASSUME NEW u \in Threads, NEW h \in Houses
               PROVE  lock'[h] = u <=> req'[u].phase = "sent" /\ req'[u].house = h
    OBVIOUS
  <2>1. lock[h] = u <=> req[u].phase = "sent" /\ req[u].house = h
    OBVIOUS
  <2>2. CASE u = t
    BY <1>0, <2>1, <2>2
  <2>3. CASE u # t
    <3>1. req'[u] = req[u]
      BY <1>0, <2>3
    <3> QED  BY <1>0, <2>1, <3>1
  <2> QED  BY <2>2, <2>3
<1>1. ASSUME NEW t \in Threads, Arrive(t)
      PROVE  LocksAreOwned'
  <2>1. PICK h \in Houses, kind \in Kinds, phase \in Phases \ {"sent"}, s \in Statuses :
          Start(t, kind, h, phase, s)
    <3>1. PICK h \in Houses : \/ SaveHouse(t, h)
                              \/ UpdateRead(t, h)
                              \/ \E op \in HouseOperations : StatusRead(t, h, op)
      BY <1>1 DEF Arrive
    <3>2. CASE SaveHouse(t, h)
      <4>1. Start(t, "save", h, "detail", NOT_AUDITED)
        BY <3>2 DEF SaveHouse
      <4> QED  BY <4>1
    <3>3. CASE UpdateRead(t, h)
      <4>1. Start(t, "edit", h, "edit", status[h])
        BY <3>3 DEF UpdateRead
      <4>2. "edit" \in Kinds /\ "edit" \in Phases \ {"sent"} /\ status[h] \in Statuses
        BY DEF Kinds, Phases
      <4> HIDE DEF Statuses
      <4> QED  BY <4>1, <4>2
    <3>4. CASE \E op \in HouseOperations : StatusRead(t, h, op)
      <4>1. PICK op \in HouseOperations : StatusRead(t, h, op)
        BY <3>4
      <4>2. Start(t, "status", h, "status", TargetOf(op))
        BY <4>1 DEF StatusRead
      <4>3. TargetOf(op) \in Statuses
        BY TargetIsStatus
      <4> HIDE DEF Statuses
      <4> QED  BY <4>2, <4>3
    <3> QED  BY <3>1, <3>2, <3>3, <3>4
  <2>2. UNCHANGED lock
    BY <1>1 DEF Arrive, SaveHouse, UpdateRead, StatusRead
  <2>3. /\ req[t].phase # "sent"
        /\ req' = [req EXCEPT ![t] = [phase |-> phase, house |-> h, status |-> s]]
    BY <2>1 DEF Start
  <2>4. req' \in [Threads -> Request]
    BY <2>3 DEF Request
  <2> QED  BY <1>0, <2>2, <2>3, <2>4
<1>2. ASSUME NEW t \in Threads,
             SavePart(t) \/ CallFails(t) \/ UpdateCommit(t) \/ UpdateRefused(t)
      PROVE  LocksAreOwned'
  <2>1. UNCHANGED lock /\ req[t].phase # "sent"
    BY <1>2 DEF SavePart, CallFails, UpdateCommit, UpdateRefused
  <2>2. req' \in [Threads -> Request]
    BY <1>2, NextType, Zenon DEF Next, ServiceNext, Continue
  <2>3. req'[t].phase # "sent" /\ \A u \in Threads \ {t} : req'[u] = req[u]
    <3>1. CASE Finish(t)
      BY <3>1 DEF Finish, NoRequest
    <3>2. CASE req' = [req EXCEPT ![t].phase = "picture"]
      BY <3>2 DEF Request
    <3>3. CASE req' = [req EXCEPT ![t].phase = "tag"]
      BY <3>3 DEF Request
    <3> QED
      BY <1>2, <3>1, <3>2, <3>3
         DEF SavePart, CallFails, UpdateCommit, UpdateRefused
  <2> QED  BY <1>0, <2>1, <2>2, <2>3
<1>3. ASSUME NEW t \in Threads, StatusWrite(t)
      PROVE  LocksAreOwned'
  <2>1. req[t] \in Request /\ req[t].house \in Houses
    BY DEF Request
  <2>2. /\ lock[req[t].house] = NoThread
        /\ lock' = [lock EXCEPT ![req[t].house] = t]
        /\ req' = [req EXCEPT ![t].phase = "sent"]
        /\ req[t].phase = "status"
    BY <1>3 DEF StatusWrite, Unlocked
  <2>3. req'[t].phase = "sent" /\ req'[t].house = req[t].house
    BY <2>1, <2>2 DEF Request
  <2>4. \A u \in Threads \ {t} : req'[u] = req[u]
    BY <2>2
  <2> QED  BY <2>1, <2>2, <2>3, <2>4
<1>4. ASSUME NEW t \in Threads, StatusCommit(t) \/ StatusRollback(t)
      PROVE  LocksAreOwned'
  <2>1. req[t].house \in Houses
    BY DEF Request
  <2>2. /\ lock' = [lock EXCEPT ![req[t].house] = NoThread]
        /\ req' = [req EXCEPT ![t] = NoRequest]
        /\ req[t].phase = "sent"
    BY <1>4 DEF StatusCommit, StatusRollback, Finish
  <2>3. req'[t].phase = "idle" /\ \A u \in Threads \ {t} : req'[u] = req[u]
    BY <2>2 DEF NoRequest
  <2> QED  BY <2>1, <2>2, <2>3
<1>5. CASE Crash
  BY <1>5 DEF Crash, Restart, NoRequest
<1>6. CASE UNCHANGED vars
  BY <1>6 DEF vars, serviceVars
<1> QED
  BY <1>1, <1>2, <1>3, <1>4, <1>5, <1>6 DEF Next, ServiceNext, Continue

-----------------------------------------------------------------------------
(***************************************************************************)
(* Rows.  RowsInSaveOrder is not inductive: the next table written depends *)
(* on where the requests are, so the invariant is strengthened with the    *)
(* rows each phase of a request relies on.                                 *)
(***************************************************************************)
Needs(phase) ==
  CASE phase = "idle"                            -> {}
    [] phase \in {"detail", "status", "sent"}    -> {"house"}
    [] phase \in {"picture", "tag", "edit"}      -> {"house", "detail"}

RequestsHaveRows == \A t \in Threads : Needs(req[t].phase) \subseteq rows[req[t].house]

RowsInv == TypeOK /\ RowsInSaveOrder /\ RequestsHaveRows

LEMMA RowsInit == Init => RowsInSaveOrder /\ RequestsHaveRows
<1> SUFFICES ASSUME Init PROVE RowsInSaveOrder /\ RequestsHaveRows
  OBVIOUS
<1>1. RowsInSaveOrder
  <2> SUFFICES ASSUME NEW h \in Houses
               PROVE  /\ rows[h] # {} => "house" \in rows[h]
                      /\ "picture" \in rows[h] => "detail" \in rows[h]
                      /\ rev[h] > 1 => "detail" \in rows[h]
                      /\ status[h] # NOT_AUDITED => "house" \in rows[h]
    BY DEF RowsInSaveOrder
  <2>1. rows[h] = (IF h \in Stored THEN Tables \ {"tag"} ELSE {})
    BY DEF Init
  <2>2. rev[h] \in {0, 1} /\ status[h] = NOT_AUDITED
    BY DEF Init
  <2> QED  BY <2>1, <2>2
<1>2. \A t \in Threads : req[t].phase = "idle"
  BY DEF Init, NoRequest
<1>3. RequestsHaveRows
  BY <1>2 DEF RequestsHaveRows, Needs
<1> QED  BY <1>1, <1>3

\* A step that keeps every row, and after which the thread t needs only rows
\* that are there, keeps the rows every request needs.
LEMMA RowsKept ==
  ASSUME RowsInv, TypeOK', NEW t \in Threads,
         \A h \in Houses : rows[h] \subseteq rows'[h],
         \A u \in Threads \ {t} : req'[u] = req[u],
         Needs(req'[t].phase) \subseteq rows'[req'[t].house]
  PROVE  RequestsHaveRows'
<1> SUFFICES ASSUME NEW u \in Threads
             PROVE  Needs(req'[u].phase) \subseteq rows'[req'[u].house]
  BY DEF RequestsHaveRows, Needs
<1>1. CASE u = t
  BY <1>1
<1>2. CASE u # t
  <2>1. req'[u] = req[u]
    BY <1>2
  <2>2. req[u].house \in Houses
    BY DEF RowsInv, TypeOK, Request
  <2> QED  BY <2>1, <2>2 DEF RowsInv, RequestsHaveRows
<1> QED  BY <1>1, <1>2

LEMMA RowsNext == RowsInv /\ [Next]_vars => RowsInSaveOrder' /\ RequestsHaveRows'
<1> SUFFICES ASSUME RowsInv, [Next]_vars
             PROVE  RowsInSaveOrder' /\ RequestsHaveRows'
  OBVIOUS
<1>t. TypeOK /\ TypeOK'
  BY NextType DEF RowsInv
<1>n. ASSUME NEW t \in Threads, Finish(t)
      PROVE  /\ req'[t].phase = "idle"
             /\ \A u \in Threads \ {t} : req'[u] = req[u]
  BY <1>n, <1>t DEF Finish, NoRequest, TypeOK
\* While dbVars do not change only the requests matter.
<1>d. ASSUME UNCHANGED dbVars PROVE RowsInSaveOrder'
  BY <1>d DEF dbVars, RowsInSaveOrder, RowsInv
<1>f. ASSUME NEW t \in Threads, Finish(t), \A h \in Houses : rows[h] \subseteq rows'[h]
      PROVE  RequestsHaveRows'
  BY <1>f, <1>n, <1>t, RowsKept DEF Needs
<1>s. ASSUME NEW t \in Threads, NEW kind, NEW h \in Houses, NEW phase \in Phases,
             NEW s \in Statuses, Start(t, kind, h, phase, s)
      PROVE  /\ req'[t].phase = phase /\ req'[t].house = h
             /\ \A u \in Threads \ {t} : req'[u] = req[u]
             /\ Needs(req[t].phase) = {}
  BY <1>s, <1>t DEF Start, TypeOK, Needs
<1>1. ASSUME NEW t \in Threads, NEW h \in Houses, SaveHouse(t, h)
      PROVE  RowsInSaveOrder' /\ RequestsHaveRows'
  <2>1. rows[h] = {} /\ rows' = [rows EXCEPT ![h] = {"house"}]
    BY <1>1 DEF SaveHouse
  <2>2. rev' = [rev EXCEPT ![h] = 1] /\ status' = [status EXCEPT ![h] = NOT_AUDITED]
    BY <1>1 DEF SaveHouse
  <2>3. \A g \in Houses : rows[g] \subseteq rows'[g]
    BY <2>1, <1>t DEF TypeOK
  <2>4. rows'[h] = {"house"} /\ rev'[h] = 1 /\ status'[h] = NOT_AUDITED
    BY <2>1, <2>2, <1>t DEF TypeOK
  <2>5. RowsInSaveOrder'
    <3> SUFFICES ASSUME NEW g \in Houses
                 PROVE  /\ rows'[g] # {} => "house" \in rows'[g]
                        /\ "picture" \in rows'[g] => "detail" \in rows'[g]
                        /\ rev'[g] > 1 => "detail" \in rows'[g]
                        /\ status'[g] # NOT_AUDITED => "house" \in rows'[g]
      BY DEF RowsInSaveOrder
    <3>1. CASE g = h
      BY <3>1, <2>4
    <3>2. CASE g # h
      <4>1. rows'[g] = rows[g] /\ rev'[g] = rev[g] /\ status'[g] = status[g]
        BY <3>2, <2>1, <2>2, <1>t DEF TypeOK
      <4> QED  BY <4>1 DEF RowsInv, RowsInSaveOrder
    <3> QED  BY <3>1, <3>2
  <2>6. Start(t, "save", h, "detail", NOT_AUDITED)
    BY <1>1 DEF SaveHouse
  <2>7. /\ req'[t].phase = "detail" /\ req'[t].house = h
        /\ \A u \in Threads \ {t} : req'[u] = req[u]
    BY <2>6, <1>s
  <2>8. Needs(req'[t].phase) \subseteq rows'[req'[t].house]
    BY <2>7, <2>4 DEF Needs
  <2>9. RequestsHaveRows'
    BY <2>3, <2>7, <2>8, <1>t, RowsKept
  <2> QED  BY <2>5, <2>9
<1>2. ASSUME NEW t \in Threads, SavePart(t)
      PROVE  RowsInSaveOrder' /\ RequestsHaveRows'
  <2> DEFINE h == req[t].house
             part == req[t].phase
  <2>1. h \in Houses /\ part \in {"detail", "picture", "tag"}
    BY <1>2, <1>t DEF SavePart, TypeOK, Request
  <2>2. Needs(part) \subseteq rows[h]
    BY DEF RowsInv, RequestsHaveRows
  <2>3. rows' = [rows EXCEPT ![h] = @ \cup {part}] /\ UNCHANGED <<status, rev>>
    BY <1>2 DEF SavePart
  <2>4. \A g \in Houses : rows'[g] = IF g = h THEN rows[g] \cup {part} ELSE rows[g]
    BY <2>1, <2>3, <1>t DEF TypeOK
  <2>5. "house" \in rows[h] /\ (part # "detail" => "detail" \in rows[h])
    BY <2>1, <2>2 DEF Needs
  <2>6. RowsInSaveOrder'
    <3> HIDE DEF h, part
    <3> SUFFICES ASSUME NEW g \in Houses
                 PROVE  /\ rows'[g] # {} => "house" \in rows'[g]
                        /\ "picture" \in rows'[g] => "detail" \in rows'[g]
                        /\ rev'[g] > 1 => "detail" \in rows'[g]
                        /\ status'[g] # NOT_AUDITED => "house" \in rows'[g]
      BY DEF RowsInSaveOrder
    <3>1. /\ rows[g] # {} => "house" \in rows[g]
          /\ "picture" \in rows[g] => "detail" \in rows[g]
          /\ rev[g] > 1 => "detail" \in rows[g]
          /\ status[g] # NOT_AUDITED => "house" \in rows[g]
      BY DEF RowsInv, RowsInSaveOrder
    <3>2. rev'[g] = rev[g] /\ status'[g] = status[g]
      BY <2>3
    <3> QED  BY <2>1, <2>4, <2>5, <3>1, <3>2
  <2>7. CASE Finish(t)
    BY <2>4, <2>6, <2>7, <1>f
  <2>8. ASSUME NEW next \in {"picture", "tag"}, req' = [req EXCEPT ![t].phase = next]
        PROVE  RequestsHaveRows'
    <3>1. /\ req'[t].phase = next /\ req'[t].house = h
          /\ \A u \in Threads \ {t} : req'[u] = req[u]
      BY <2>8, <1>t DEF TypeOK, Request
    <3>2. Needs(next) \subseteq rows'[h]
      <4> HIDE DEF h, part
      <4> QED  BY <2>1, <2>4, <2>5 DEF Needs
    <3>3. \A g \in Houses : rows[g] \subseteq rows'[g]
      <4> HIDE DEF h, part
      <4> QED  BY <2>4
    <3> QED  BY <3>1, <3>2, <3>3, <1>t, RowsKept
  <2> QED  BY <1>2, <2>6, <2>7, <2>8 DEF SavePart
<1>3. ASSUME NEW t \in Threads,
             \/ CallFails(t) \/ UpdateRefused(t) \/ StatusRollback(t)
      PROVE  RowsInSaveOrder' /\ RequestsHaveRows'
  <2>1. UNCHANGED dbVars /\ Finish(t)
    BY <1>3 DEF CallFails, UpdateRefused, StatusRollback
  <2>2. \A g \in Houses : rows[g] \subseteq rows'[g]
    BY <2>1 DEF dbVars
  <2> QED  BY <2>1, <2>2, <1>d, <1>f
<1>4. ASSUME NEW t \in Threads, NEW h \in Houses, UpdateRead(t, h)
      PROVE  RowsInSaveOrder' /\ RequestsHaveRows'
  <2>1. UNCHANGED dbVars /\ {"house", "detail"} \subseteq rows[h]
    BY <1>4 DEF UpdateRead
  <2>2. Start(t, "edit", h, "edit", status[h]) /\ status[h] \in Statuses
    BY <1>4, <1>t DEF UpdateRead, TypeOK
  <2>3. /\ req'[t].phase = "edit" /\ req'[t].house = h
        /\ \A u \in Threads \ {t} : req'[u] = req[u]
    BY <2>2, <1>s
  <2>4. Needs(req'[t].phase) \subseteq rows'[req'[t].house]
    BY <2>1, <2>3 DEF Needs, dbVars
  <2>5. \A g \in Houses : rows[g] \subseteq rows'[g]
    BY <2>1 DEF dbVars
  <2> QED  BY <2>1, <2>3, <2>4, <2>5, <1>d, <1>t, RowsKept
<1>5. ASSUME NEW t \in Threads, UpdateCommit(t)
      PROVE  RowsInSaveOrder' /\ RequestsHaveRows'
  <2> DEFINE h == req[t].house
  <2>1. h \in Houses
    BY <1>t DEF TypeOK, Request
  <2>2. {"house", "detail"} \subseteq rows[h]
    BY <1>5 DEF UpdateCommit, RowsInv, RequestsHaveRows, Needs
  <2>3. PICK photos \in SUBSET {"picture"} : rows' = [rows EXCEPT ![h] = @ \cup photos]
    BY <1>5 DEF UpdateCommit
  <2>4. \A g \in Houses : rows'[g] = IF g = h THEN rows[g] \cup photos ELSE rows[g]
    BY <2>1, <2>3, <1>t DEF TypeOK
  <2>5. \A g \in Houses : g # h => rev'[g] = rev[g] /\ status'[g] = status[g]
    BY <1>5, <1>t DEF UpdateCommit, TypeOK
  <2>6. RowsInSaveOrder'
    <3> HIDE DEF h
    <3> SUFFICES ASSUME NEW g \in Houses
                 PROVE  /\ rows'[g] # {} => "house" \in rows'[g]
                        /\ "picture" \in rows'[g] => "detail" \in rows'[g]
                        /\ rev'[g] > 1 => "detail" \in rows'[g]
                        /\ status'[g] # NOT_AUDITED => "house" \in rows'[g]
      BY DEF RowsInSaveOrder
    <3>1. CASE g = h
      BY <3>1, <2>2, <2>4
    <3>2. CASE g # h
      BY <3>2, <2>4, <2>5 DEF RowsInv, RowsInSaveOrder
    <3> QED  BY <3>1, <3>2
  <2>7. \A g \in Houses : rows[g] \subseteq rows'[g]
    BY <2>4
  <2>8. Finish(t)
    BY <1>5 DEF UpdateCommit
  <2> QED  BY <2>6, <2>7, <2>8, <1>f
<1>6. ASSUME NEW t \in Threads, NEW h \in Houses, NEW op \in HouseOperations,
             StatusRead(t, h, op)
      PROVE  RowsInSaveOrder' /\ RequestsHaveRows'
  <2>1. UNCHANGED dbVars /\ "house" \in rows[h]
    BY <1>6 DEF StatusRead
  <2>2. Start(t, "status", h, "status", TargetOf(op)) /\ TargetOf(op) \in Statuses
    BY <1>6, TargetIsStatus DEF StatusRead
  <2>3. /\ req'[t].phase = "status" /\ req'[t].house = h
        /\ \A u \in Threads \ {t} : req'[u] = req[u]
    <3> HIDE DEF Statuses
    <3> QED  BY <2>2, <1>s
  <2>4. Needs(req'[t].phase) \subseteq rows'[req'[t].house]
    BY <2>1, <2>3 DEF Needs, dbVars
  <2>5. \A g \in Houses : rows[g] \subseteq rows'[g]
    BY <2>1 DEF dbVars
  <2> QED  BY <2>1, <2>3, <2>4, <2>5, <1>d, <1>t, RowsKept
<1>7. ASSUME NEW t \in Threads, StatusWrite(t)
      PROVE  RowsInSaveOrder' /\ RequestsHaveRows'
  <2>1. UNCHANGED dbVars /\ req[t].phase = "status" /\ req' = [req EXCEPT ![t].phase = "sent"]
    BY <1>7 DEF StatusWrite
  <2>2. /\ req'[t].phase = "sent" /\ req'[t].house = req[t].house
        /\ \A u \in Threads \ {t} : req'[u] = req[u]
    BY <2>1, <1>t DEF TypeOK, Request
  <2>3. Needs(req'[t].phase) \subseteq rows'[req'[t].house]
    BY <2>1, <2>2 DEF Needs, dbVars, RowsInv, RequestsHaveRows
  <2>4. \A g \in Houses : rows[g] \subseteq rows'[g]
    BY <2>1 DEF dbVars
  <2> QED  BY <2>1, <2>2, <2>3, <2>4, <1>d, <1>t, RowsKept
<1>8. ASSUME NEW t \in Threads, StatusCommit(t)
      PROVE  RowsInSaveOrder' /\ RequestsHaveRows'
  <2> DEFINE h == req[t].house
  <2>1. h \in Houses /\ "house" \in rows[h]
    BY <1>8, <1>t DEF StatusCommit, TypeOK, Request, RowsInv, RequestsHaveRows, Needs
  <2>2. UNCHANGED <<rows, rev>> /\ status' = [status EXCEPT ![h] = req[t].status]
    BY <1>8 DEF StatusCommit
  <2>3. \A g \in Houses : g # h => status'[g] = status[g]
    BY <2>2, <1>t DEF TypeOK
  <2>4. RowsInSaveOrder'
    <3> HIDE DEF h
    <3> QED  BY <2>1, <2>2, <2>3 DEF RowsInv, RowsInSaveOrder
  <2>5. Finish(t) /\ \A g \in Houses : rows[g] \subseteq rows'[g]
    BY <1>8, <2>2 DEF StatusCommit
  <2> QED  BY <2>4, <2>5, <1>f
<1>9. CASE Crash
  <2>1. UNCHANGED dbVars /\ \A t \in Threads : req'[t].phase = "idle"
    BY <1>9 DEF Crash, Restart, NoRequest
  <2> QED  BY <2>1, <1>d DEF RequestsHaveRows, Needs
<1>10. CASE UNCHANGED vars
  BY <1>10 DEF vars, serviceVars, RowsInv, RowsInSaveOrder, RequestsHaveRows, Needs
<1> QED
  BY <1>1, <1>2, <1>3, <1>4, <1>5, <1>6, <1>7, <1>8, <1>9, <1>10
     DEF Next, ServiceNext, Arrive, Continue

(***************************************************************************)
(* No request, however it fails or interleaves with others, leaves a house *)
(* with rows out of the order save() writes them in: edits and status      *)
(* changes always find the rows they rewrite.                              *)
(***************************************************************************)
THEOREM SaveOrder == Spec => []RowsInSaveOrder
<1>1. Init => RowsInv
  BY InitType, RowsInit DEF RowsInv
<1>2. RowsInv /\ [Next]_vars => RowsInv'
  BY NextType, RowsNext DEF RowsInv
<1> QED  BY <1>1, <1>2, PTL DEF Spec, RowsInv

-----------------------------------------------------------------------------
(***************************************************************************)
(* Messages.                                                               *)
(***************************************************************************)
LEMMA AppendEnds ==
  ASSUME NEW log \in Seq(HouseIndexMessage), NEW h \in Houses, NEW s \in Statuses
  PROVE  LogEndsWith(Append(log, Message(h, OperationFor(s), 0)), h, s)
<1> DEFINE m     == Message(h, OperationFor(s), 0)
           after == Append(log, m)
<1>1. m.houseId = h /\ m.operation = OperationFor(s)
  BY DEF Message
<1> HIDE DEF m
<1>2. Len(after) = Len(log) + 1 /\ after[Len(log) + 1] = m /\ Len(log) \in Nat
  OBVIOUS
<1> HIDE DEF after
<1>3. Len(after) \in 1 .. Len(after) /\ after[Len(after)] = m
  BY <1>2
<1>4. \A j \in (Len(after) + 1) .. Len(after) : after[j].houseId # h
  BY <1>2
<1>5. LogEndsWith(after, h, s)
  BY <1>1, <1>3, <1>4 DEF LogEndsWith
<1> QED  BY <1>5 DEF after, m

LEMMA AppendOther ==
  ASSUME NEW log \in Seq(HouseIndexMessage), NEW m \in HouseIndexMessage,
         NEW h \in Houses, m.houseId # h, NEW s, LogEndsWith(log, h, s)
  PROVE  LogEndsWith(Append(log, m), h, s)
<1> DEFINE after == Append(log, m)
<1>1. /\ Len(log) \in Nat /\ Len(after) = Len(log) + 1
      /\ after[Len(log) + 1] = m
      /\ \A i \in 1 .. Len(log) : after[i] = log[i]
  OBVIOUS
<1> HIDE DEF after
<1>2. CASE \E i \in 1 .. Len(log) :
             /\ log[i].houseId = h
             /\ log[i].operation = OperationFor(s)
             /\ \A j \in (i + 1) .. Len(log) : log[j].houseId # h
  <2>1. PICK i \in 1 .. Len(log) :
             /\ log[i].houseId = h
             /\ log[i].operation = OperationFor(s)
             /\ \A j \in (i + 1) .. Len(log) : log[j].houseId # h
    BY <1>2
  <2>2. i \in 1 .. Len(after) /\ after[i] = log[i]
    BY <1>1
  <2>3. ASSUME NEW j \in (i + 1) .. Len(after) PROVE after[j].houseId # h
    <3>1. CASE j = Len(log) + 1
      BY <1>1, <3>1
    <3>2. CASE j \in (i + 1) .. Len(log)
      BY <1>1, <2>1, <3>2
    <3> QED  BY <1>1, <3>1, <3>2
  <2>4. LogEndsWith(after, h, s)
    BY <2>1, <2>2, <2>3 DEF LogEndsWith
  <2> QED  BY <2>4 DEF after
<1>3. CASE s # PASSES /\ \A i \in 1 .. Len(log) : log[i].houseId # h
  <2>1. ASSUME NEW i \in 1 .. Len(after) PROVE after[i].houseId # h
    <3>1. CASE i = Len(log) + 1
      BY <1>1, <3>1
    <3>2. CASE i \in 1 .. Len(log)
      BY <1>1, <1>3, <3>2
    <3> QED  BY <1>1, <3>1, <3>2
  <2>2. LogEndsWith(after, h, s)
    BY <1>3, <2>1 DEF LogEndsWith
  <2> QED  BY <2>2 DEF after
<1> QED  BY <1>2, <1>3 DEF LogEndsWith

\* A thread at its "edit" was allowed to start one.
EditsAreDuties ==
  \A t \in Threads : req[t].phase = "edit" => <<t, "edit", req[t].house>> \in Duties

MessagesInv == RowsInv /\ LocksAreOwned /\ EditsAreDuties /\ MessagesFollowCommits

LEMMA EditsNext ==
  TypeOK /\ EditsAreDuties /\ [Next]_vars => EditsAreDuties'
<1> SUFFICES ASSUME TypeOK, EditsAreDuties, [Next]_vars,
                    NEW u \in Threads, req'[u].phase = "edit"
             PROVE  <<u, "edit", req'[u].house>> \in Duties
  BY DEF EditsAreDuties
<1>k. CASE req'[u] = req[u]
  BY <1>k DEF EditsAreDuties
<1>f. ASSUME NEW t \in Threads, Finish(t) PROVE req'[u] = req[u]
  BY <1>f DEF Finish, NoRequest, TypeOK
<1>1. ASSUME NEW t \in Threads, NEW h \in Houses, SaveHouse(t, h) PROVE req'[u] = req[u]
  <2>1. req' = [req EXCEPT ![t] = [phase |-> "detail", house |-> h, status |-> NOT_AUDITED]]
    BY <1>1 DEF SaveHouse, Start
  <2> QED  BY <2>1 DEF TypeOK
<1>2. ASSUME NEW t \in Threads, NEW h \in Houses, UpdateRead(t, h)
      PROVE  <<u, "edit", req'[u].house>> \in Duties
  <2>1. /\ req' = [req EXCEPT ![t] = [phase |-> "edit", house |-> h, status |-> status[h]]]
        /\ <<t, "edit", h>> \in Duties
    BY <1>2 DEF UpdateRead, Start
  <2>2. CASE u = t
    BY <2>1, <2>2 DEF TypeOK
  <2>3. CASE u # t
    BY <2>1, <2>3, <1>k
  <2> QED  BY <2>2, <2>3
<1>3. ASSUME NEW t \in Threads, NEW h \in Houses, NEW op \in HouseOperations,
             StatusRead(t, h, op)
      PROVE  req'[u] = req[u]
  <2>1. req' = [req EXCEPT ![t] =
                  [phase |-> "status", house |-> h, status |-> TargetOf(op)]]
    BY <1>3 DEF StatusRead, Start
  <2> QED  BY <2>1 DEF TypeOK
<1>4. ASSUME NEW t \in Threads, SavePart(t) PROVE req'[u] = req[u]
  <2>1. CASE req' = [req EXCEPT ![t].phase = "picture"]
    BY <2>1 DEF TypeOK, Request
  <2>2. CASE req' = [req EXCEPT ![t].phase = "tag"]
    BY <2>2 DEF TypeOK, Request
  <2> QED  BY <1>4, <1>f, <2>1, <2>2 DEF SavePart
<1>5. ASSUME NEW t \in Threads,
             CallFails(t) \/ UpdateCommit(t) \/ UpdateRefused(t)
             \/ StatusCommit(t) \/ StatusRollback(t)
      PROVE  req'[u] = req[u]
  BY <1>5, <1>f DEF CallFails, UpdateCommit, UpdateRefused, StatusCommit, StatusRollback
<1>6. ASSUME NEW t \in Threads, StatusWrite(t) PROVE req'[u] = req[u]
  <2>1. req' = [req EXCEPT ![t].phase = "sent"]
    BY <1>6 DEF StatusWrite
  <2> QED  BY <2>1 DEF TypeOK, Request
<1>7. CASE Crash
  BY <1>7 DEF Crash, Restart, NoRequest
<1>8. CASE UNCHANGED vars
  BY <1>8, <1>k DEF vars, serviceVars
<1> QED
  BY <1>k, <1>1, <1>2, <1>3, <1>4, <1>5, <1>6, <1>7, <1>8
     DEF Next, ServiceNext, Arrive, Continue

LEMMA FaultsGrow == [Next]_vars => faults' \in {faults, faults + 1}
<1>1. ASSUME NEW kind, Mishap(kind) \/ NoMishap PROVE faults' \in {faults, faults + 1}
  BY <1>1 DEF Mishap, NoMishap
<1>2. ASSUME NEW t \in Threads, Arrive(t) PROVE faults' \in {faults, faults + 1}
  BY <1>2, <1>1 DEF Arrive, SaveHouse, UpdateRead, StatusRead
<1>3. ASSUME NEW t \in Threads, Continue(t) PROVE faults' \in {faults, faults + 1}
  BY <1>3, <1>1 DEF Continue, SavePart, CallFails, UpdateCommit, UpdateRefused,
                    StatusWrite, StatusCommit, StatusRollback
<1>4. CASE Crash
  BY <1>4, <1>1 DEF Crash
<1>5. CASE UNCHANGED vars
  BY <1>5 DEF vars
<1> QED  BY <1>2, <1>3, <1>4, <1>5 DEF Next, ServiceNext

LEMMA MessagesNext == MessagesInv /\ [Next]_vars => MessagesFollowCommits'
<1> SUFFICES ASSUME MessagesInv, [Next]_vars, NEW g \in Houses, Dependable(g)'
             PROVE  LogEndsWith(topic, g, Announced(g))'
  BY DEF MessagesFollowCommits
<1>i. /\ TypeOK /\ TypeOK'
      /\ LocksAreOwned /\ RowsInSaveOrder /\ RequestsHaveRows /\ EditsAreDuties
  BY NextType DEF MessagesInv, RowsInv
\* No mishap of these kinds leaves the budget untouched.
<1>m. ASSUME NEW kind \in {"send", "rollback", "crash"} PROVE ~ Mishap(kind)
  <2>1. faults' = 0 /\ kind \notin Persistent
    BY DEF Dependable
  <2> QED  BY <2>1, <1>i, FaultBudget DEF Mishap, TypeOK
<1>d. faults = 0
  <2>1. faults' \in {faults, faults + 1}
    BY FaultsGrow
  <2> QED  BY <2>1, <1>i, FaultBudget DEF TypeOK, Dependable
<1>t. /\ TypeOK /\ TypeOK'
      /\ LocksAreOwned /\ RowsInSaveOrder /\ RequestsHaveRows /\ EditsAreDuties
      /\ LogEndsWith(topic, g, Announced(g))
  BY <1>i, <1>d DEF MessagesInv, MessagesFollowCommits, Dependable
<1>k. CASE topic' = topic /\ Announced(g)' = Announced(g)
  BY <1>k, <1>t
\* What is announced changes only with the lock, the status, or a lock owner.
<1>a. ASSUME NEW t \in Threads, req[t].phase # "sent",
             \A u \in Threads \ {t} : req'[u] = req[u],
             lock' = lock, status'[g] = status[g]
      PROVE  Announced(g)' = Announced(g)
  <2>1. CASE lock[g] = NoThread
    BY <1>a, <2>1 DEF Announced, Unlocked
  <2>2. CASE lock[g] # NoThread
    <3>1. lock[g] \in Threads \ {t}
      BY <2>2, <1>a, <1>t DEF TypeOK, LocksAreOwned
    <3> QED  BY <1>a, <3>1 DEF Announced, Unlocked
  <2> QED  BY <2>1, <2>2
<1>s. ASSUME NEW t, NEW kind, NEW h, NEW phase, NEW s, Start(t, kind, h, phase, s)
      PROVE  /\ req[t].phase # "sent"
             /\ \A u \in Threads \ {t} : req'[u] = req[u]
  BY <1>s, <1>t DEF Start, TypeOK
<1>1. ASSUME NEW t \in Threads, NEW h \in Houses, SaveHouse(t, h)
      PROVE  topic' = topic /\ Announced(g)' = Announced(g)
  <2>1. /\ rows[h] = {} /\ UNCHANGED <<lock, topic>>
        /\ status' = [status EXCEPT ![h] = NOT_AUDITED]
        /\ Start(t, "save", h, "detail", NOT_AUDITED)
    BY <1>1 DEF SaveHouse
  <2>2. status[h] = NOT_AUDITED
    BY <2>1, <1>t DEF RowsInSaveOrder
  <2>3. status'[g] = status[g]
    BY <2>1, <2>2, <1>t DEF TypeOK
  <2> QED  BY <2>1, <2>3, <1>a, <1>s
<1>2. ASSUME NEW t \in Threads, NEW h \in Houses,
             \/ UpdateRead(t, h)
             \/ \E op \in HouseOperations : StatusRead(t, h, op)
      PROVE  topic' = topic /\ Announced(g)' = Announced(g)
  <2>1. UNCHANGED <<lock, topic, status>>
    BY <1>2 DEF UpdateRead, StatusRead, dbVars
  <2>2. /\ req[t].phase # "sent"
        /\ \A u \in Threads \ {t} : req'[u] = req[u]
    BY <1>2, <1>s DEF UpdateRead, StatusRead
  <2> QED  BY <2>1, <2>2, <1>a
<1>3. ASSUME NEW t \in Threads, SavePart(t) \/ CallFails(t) \/ UpdateRefused(t)
      PROVE  topic' = topic /\ Announced(g)' = Announced(g)
  <2>1. UNCHANGED <<lock, topic, status>> /\ req[t].phase # "sent"
    BY <1>3 DEF SavePart, CallFails, UpdateRefused, dbVars
  <2>2. \A u \in Threads \ {t} : req'[u] = req[u]
    BY <1>3, <1>t DEF SavePart, CallFails, UpdateRefused, Finish, TypeOK
  <2> QED  BY <2>1, <2>2, <1>a
\* Nobody edits g, and an edit of another house does not change its status.
<1>4. ASSUME NEW t \in Threads, UpdateCommit(t)
      PROVE  topic' = topic /\ Announced(g)' = Announced(g)
  <2>1. /\ req[t].house \in Houses /\ req[t].phase = "edit"
        /\ UNCHANGED <<lock, topic>> /\ req' = [req EXCEPT ![t] = NoRequest]
        /\ status' = [status EXCEPT ![req[t].house] = req[t].status]
    BY <1>4, <1>t DEF UpdateCommit, Finish, TypeOK, Request
  <2>2. req[t].house # g
    BY <2>1, <1>t DEF EditsAreDuties, Dependable
  <2>3. status'[g] = status[g] /\ \A u \in Threads \ {t} : req'[u] = req[u]
    BY <2>1, <2>2, <1>t DEF TypeOK
  <2> QED  BY <2>1, <2>3, <1>a
<1>5. ASSUME NEW t \in Threads, StatusWrite(t)
      PROVE  LogEndsWith(topic, g, Announced(g))'
  <2> DEFINE h == req[t].house
             s == req[t].status
             m == Message(h, OperationFor(s), 0)
  <2>1. h \in Houses /\ s \in Statuses
    BY <1>t DEF TypeOK, Request
  <2>2. m \in HouseIndexMessage /\ m.houseId = h
    <3>1. m \in HouseIndexMessage
      <4> HIDE DEF Statuses, h, s
      <4> QED  BY <2>1, MessageType
    <3>2. m.houseId = h
      BY DEF Message
    <3> QED  BY <3>1, <3>2
  <2>3. /\ lock[h] = NoThread
        /\ lock' = [lock EXCEPT ![h] = t]
        /\ req' = [req EXCEPT ![t].phase = "sent"]
        /\ status' = status
        /\ req[t].phase = "status"
    BY <1>5 DEF StatusWrite, Unlocked, dbVars
  <2>4. topic' = Append(topic, m)
    BY <1>5, <1>m DEF StatusWrite
  <2>5. topic \in Seq(HouseIndexMessage)
    BY <1>t DEF TypeOK
  <2>6. CASE g = h
    <3>1. lock'[g] = t /\ req'[t].status = s /\ t # NoThread
      BY <2>1, <2>3, <2>6, <1>t, NoThreadAssumption DEF TypeOK, Request
    <3>2. Announced(g)' = s
      BY <3>1 DEF Announced, Unlocked
    <3>3. LogEndsWith(Append(topic, m), g, s)
      <4> HIDE DEF Statuses, h, s
      <4> QED  BY <2>1, <2>5, <2>6, AppendEnds
    <3>4. LogEndsWith(topic, g, Announced(g))' <=> LogEndsWith(topic', g, Announced(g)')
      BY DEF LogEndsWith
    <3> HIDE DEF m, s, h
    <3> QED  BY <2>4, <3>2, <3>3, <3>4
  <2>7. CASE g # h
    <3>1. lock'[g] = lock[g]
      BY <2>1, <2>3, <2>7, <1>t DEF TypeOK
    <3>2. lock[g] # t
      BY <2>3, <1>t DEF LocksAreOwned
    <3>3. Announced(g)' = Announced(g)
      BY <2>3, <3>1, <3>2, <1>t DEF Announced, Unlocked, TypeOK
    <3>4. LogEndsWith(Append(topic, m), g, Announced(g))
      <4> HIDE DEF m, h
      <4> QED  BY <2>2, <2>5, <2>7, <1>t, AppendOther
    <3>5. LogEndsWith(topic, g, Announced(g))' <=> LogEndsWith(topic', g, Announced(g)')
      BY DEF LogEndsWith
    <3> HIDE DEF m
    <3> QED  BY <2>4, <3>3, <3>4, <3>5
  <2> QED  BY <2>6, <2>7
<1>6. ASSUME NEW t \in Threads, StatusCommit(t)
      PROVE  topic' = topic /\ Announced(g)' = Announced(g)
  <2> DEFINE h == req[t].house
  <2>1. /\ h \in Houses /\ topic' = topic /\ req[t].phase = "sent"
        /\ status' = [status EXCEPT ![h] = req[t].status]
        /\ lock' = [lock EXCEPT ![h] = NoThread]
        /\ req' = [req EXCEPT ![t] = NoRequest]
    BY <1>6, <1>t DEF StatusCommit, Finish, TypeOK, Request
  <2>2. lock[h] = t /\ t # NoThread
    BY <2>1, <1>t, NoThreadAssumption DEF LocksAreOwned
  <2>3. CASE g = h
    <3>1. lock'[g] = NoThread /\ status'[g] = req[t].status
      BY <2>1, <2>3, <1>t DEF TypeOK
    <3>2. Announced(g)' = req[t].status
      BY <3>1 DEF Announced, Unlocked
    <3>3. Announced(g) = req[t].status
      BY <2>2, <2>3 DEF Announced, Unlocked
    <3> QED  BY <2>1, <3>2, <3>3
  <2>4. CASE g # h
    <3>1. lock'[g] = lock[g] /\ status'[g] = status[g]
      BY <2>1, <2>4, <1>t DEF TypeOK
    <3>2. lock[g] # t
      BY <2>4, <1>t DEF LocksAreOwned
    <3> QED  BY <2>1, <3>1, <3>2, <1>t DEF Announced, Unlocked, TypeOK
  <2> QED  BY <2>3, <2>4
<1>7. ASSUME NEW t \in Threads PROVE ~ StatusRollback(t)
  BY <1>m DEF StatusRollback
<1>8. ~ Crash
  BY <1>m DEF Crash
<1>9. CASE UNCHANGED vars
  BY <1>9, <1>k DEF vars, serviceVars, Announced, Unlocked
<1> QED
  BY <1>k, <1>1, <1>2, <1>3, <1>4, <1>5, <1>6, <1>7, <1>8, <1>9
     DEF Next, ServiceNext, Arrive, Continue

(***************************************************************************)
(* As long as no mishap has separated a status from its message, the last  *)
(* message sent for a house nobody edits asks for what its committed       *)
(* status needs, however many administrators race on it (updateStatus,     *)
(* HouseService.java 310-317).                                             *)
(***************************************************************************)
THEOREM CommitOrder == Spec => []MessagesFollowCommits
<1>1. Init => MessagesInv
  <2> SUFFICES ASSUME Init PROVE MessagesInv
    OBVIOUS
  <2>1. RowsInv /\ LocksAreOwned
    BY InitType, RowsInit, LocksInit DEF RowsInv
  <2>2. EditsAreDuties
    BY DEF Init, EditsAreDuties, NoRequest
  <2>3. MessagesFollowCommits
    <3> SUFFICES ASSUME NEW h \in Houses PROVE LogEndsWith(topic, h, Announced(h))
      BY DEF MessagesFollowCommits
    <3>1. Announced(h) = NOT_AUDITED
      BY DEF Init, Announced, Unlocked
    <3>2. topic = <<>> /\ Len(topic) = 0
      BY DEF Init
    <3> QED  BY <3>1, <3>2 DEF LogEndsWith
  <2> QED  BY <2>1, <2>2, <2>3 DEF MessagesInv
<1>2. MessagesInv /\ [Next]_vars => MessagesInv'
  BY NextType, RowsNext, LocksNext, EditsNext, MessagesNext DEF MessagesInv, RowsInv
<1> QED  BY <1>1, <1>2, PTL DEF Spec, MessagesInv

-----------------------------------------------------------------------------
(***************************************************************************)
(* Final statuses.  A save never meets a settled house, as its status      *)
(* shows that it has a row; a status change refuses it; an edit that       *)
(* starts now reads the final status and writes it back.                   *)
(***************************************************************************)
Writers == {"edit", "status", "sent"}

LEMMA SettledNext ==
  ASSUME RowsInv, [Next]_vars, NEW h \in Houses, Settled(h)
  PROVE  Settled(h)' /\ status'[h] = status[h]
<1>t. TypeOK /\ TypeOK'
  BY NextType DEF RowsInv
<1>r. rows[h] # {}
  BY DEF RowsInv, RowsInSaveOrder, Settled, Terminal, NOT_AUDITED, RENTED, DELETED
<1>w. ASSUME NEW t \in Threads, req[t].house = h, req[t].phase \in Writers
      PROVE  req[t].status = status[h]
  BY <1>w DEF Settled, Writers
\* A step of thread t that leaves the status as it is, and after which t
\* writes no other one.
<1>k. ASSUME NEW t \in Threads, status'[h] = status[h],
             \A u \in Threads \ {t} : req'[u] = req[u],
             req'[t].house = h /\ req'[t].phase \in Writers => req'[t].status = status[h]
      PROVE  Settled(h)' /\ status'[h] = status[h]
  <2>1. status'[h] \in Terminal
    BY <1>k DEF Settled
  <2>2. ASSUME NEW u \in Threads, req'[u].house = h, req'[u].phase \in Writers
        PROVE  req'[u].status = status'[h]
    <3>1. CASE u = t
      BY <1>k, <2>2, <3>1
    <3>2. CASE u # t
      BY <1>k, <1>w, <2>2, <3>2
    <3> QED  BY <3>1, <3>2
  <2> QED  BY <2>1, <2>2, <1>k DEF Settled, Writers
<1>s. ASSUME NEW t \in Threads, NEW kind, NEW g \in Houses, NEW phase \in Phases,
             NEW s \in Statuses, Start(t, kind, g, phase, s)
      PROVE  /\ req'[t].phase = phase /\ req'[t].house = g /\ req'[t].status = s
             /\ \A u \in Threads \ {t} : req'[u] = req[u]
  BY <1>s, <1>t DEF Start, TypeOK
<1>f. ASSUME NEW t \in Threads, Finish(t), status'[h] = status[h]
      PROVE  Settled(h)' /\ status'[h] = status[h]
  <2>1. /\ req'[t].phase \notin Writers
        /\ \A u \in Threads \ {t} : req'[u] = req[u]
    BY <1>f, <1>t DEF Finish, NoRequest, TypeOK, Writers
  <2> QED  BY <1>k, <1>f, <2>1
<1>1. ASSUME NEW t \in Threads, NEW g \in Houses, SaveHouse(t, g)
      PROVE  Settled(h)' /\ status'[h] = status[h]
  <2>1. /\ rows[g] = {} /\ status' = [status EXCEPT ![g] = NOT_AUDITED]
        /\ Start(t, "save", g, "detail", NOT_AUDITED)
    BY <1>1 DEF SaveHouse
  <2>2. g # h
    BY <2>1, <1>r
  <2>3. status'[h] = status[h]
    BY <2>1, <2>2, <1>t DEF TypeOK
  <2>4. req'[t].house = g /\ \A u \in Threads \ {t} : req'[u] = req[u]
    BY <2>1, <1>s DEF Phases, Statuses
  <2> QED  BY <1>k, <2>2, <2>3, <2>4
<1>2. ASSUME NEW t \in Threads, SavePart(t)
      PROVE  Settled(h)' /\ status'[h] = status[h]
  <2>1. status' = status /\ req[t] \in Request
    BY <1>2, <1>t DEF SavePart, TypeOK
  <2>2. CASE Finish(t)
    BY <1>f, <2>1, <2>2
  <2>3. ASSUME NEW part \in {"picture", "tag"}, req' = [req EXCEPT ![t].phase = part]
        PROVE  Settled(h)' /\ status'[h] = status[h]
    <3>1. /\ req'[t].phase \notin Writers
          /\ \A u \in Threads \ {t} : req'[u] = req[u]
      BY <2>1, <2>3, <1>t DEF TypeOK, Writers, Request
    <3> QED  BY <1>k, <2>1, <3>1
  <2> QED  BY <1>2, <2>2, <2>3 DEF SavePart
<1>3. ASSUME NEW t \in Threads, CallFails(t) \/ UpdateRefused(t)
      PROVE  Settled(h)' /\ status'[h] = status[h]
  <2>1. Finish(t) /\ status' = status
    BY <1>3 DEF CallFails, UpdateRefused, dbVars
  <2> QED  BY <1>f, <2>1
<1>4. ASSUME NEW t \in Threads, NEW g \in Houses, UpdateRead(t, g)
      PROVE  Settled(h)' /\ status'[h] = status[h]
  <2>1. Start(t, "edit", g, "edit", status[g]) /\ status' = status
    BY <1>4 DEF UpdateRead, dbVars
  <2>2. /\ req'[t].house = g /\ req'[t].status = status[g]
        /\ \A u \in Threads \ {t} : req'[u] = req[u]
    BY <2>1, <1>t DEF Start, TypeOK
  <2>3. status'[h] = status[h]
    BY <2>1
  <2>4. req'[t].house = h => req'[t].status = status[h]
    BY <2>2
  <2> QED  BY <1>k, <2>2, <2>3, <2>4
<1>5. ASSUME NEW t \in Threads, UpdateCommit(t) \/ StatusCommit(t)
      PROVE  Settled(h)' /\ status'[h] = status[h]
  <2>1. /\ status' = [status EXCEPT ![req[t].house] = req[t].status]
        /\ Finish(t) /\ req[t].phase \in Writers
    BY <1>5 DEF UpdateCommit, StatusCommit, Writers
  <2>2. status'[h] = status[h]
    BY <2>1, <1>w, <1>t DEF TypeOK
  <2> QED  BY <1>f, <2>1, <2>2
<1>6. ASSUME NEW t \in Threads, NEW g \in Houses, NEW op \in HouseOperations,
             StatusRead(t, g, op)
      PROVE  Settled(h)' /\ status'[h] = status[h]
  <2>1. /\ Start(t, "status", g, "status", TargetOf(op))
        /\ status' = status /\ status[g] \notin Terminal
    BY <1>6 DEF StatusRead, dbVars
  <2>2. g # h
    BY <2>1 DEF Settled
  <2>3. req'[t].house = g /\ \A u \in Threads \ {t} : req'[u] = req[u]
    <3>1. TargetOf(op) \in Statuses /\ "status" \in Phases
      BY TargetIsStatus DEF Phases
    <3> HIDE DEF Statuses
    <3> QED  BY <2>1, <3>1, <1>s
  <2> QED  BY <1>k, <2>1, <2>2, <2>3
<1>7. ASSUME NEW t \in Threads, StatusWrite(t)
      PROVE  Settled(h)' /\ status'[h] = status[h]
  <2>1. /\ status' = status /\ req[t].phase \in Writers
        /\ req' = [req EXCEPT ![t].phase = "sent"] /\ req[t] \in Request
    BY <1>7, <1>t DEF StatusWrite, dbVars, Writers, TypeOK
  <2>2. /\ req'[t].house = req[t].house /\ req'[t].status = req[t].status
        /\ \A u \in Threads \ {t} : req'[u] = req[u]
    BY <2>1, <1>t DEF TypeOK, Request
  <2> QED  BY <1>k, <1>w, <2>1, <2>2
<1>8. ASSUME NEW t \in Threads, StatusRollback(t)
      PROVE  Settled(h)' /\ status'[h] = status[h]
  <2>1. Finish(t) /\ status' = status
    BY <1>8 DEF StatusRollback, dbVars
  <2> QED  BY <1>f, <2>1
<1>9. CASE Crash
  <2>1. status' = status /\ \A t \in Threads : req'[t].phase = "idle"
    BY <1>9 DEF Crash, Restart, dbVars, NoRequest
  <2> QED  BY <2>1 DEF Settled
<1>10. CASE UNCHANGED vars
  BY <1>10 DEF vars, serviceVars, Settled
<1> QED
  BY <1>1, <1>2, <1>3, <1>4, <1>5, <1>6, <1>7, <1>8, <1>9, <1>10
     DEF Next, ServiceNext, Arrive, Continue

(***************************************************************************)
(* Once the requests that read a house before it was rented or deleted are *)
(* over, it keeps that status for ever, whatever fails and whoever edits   *)
(* it (update, HouseService.java 194-218; updateStatus, 302-310).          *)
(***************************************************************************)
THEOREM SettledIsFinal == Spec => FinalOnceSettled
<1> DEFINE Step == \A h \in Houses : Settled(h) => Settled(h)' /\ status'[h] = status[h]
<1>1. Init => RowsInv
  BY InitType, RowsInit DEF RowsInv
<1>2. RowsInv /\ [Next]_vars => RowsInv'
  BY NextType, RowsNext DEF RowsInv
<1>3. RowsInv /\ [Next]_vars => [Step]_vars
  BY SettledNext
<1>4. Spec => [][Step]_vars
  <2> HIDE DEF Step
  <2> QED  BY <1>1, <1>2, <1>3, PTL DEF Spec
<1> QED  BY <1>4 DEF FinalOnceSettled

=============================================================================
