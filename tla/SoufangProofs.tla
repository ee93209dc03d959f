---------------------------- MODULE SoufangProofs ----------------------------
(***************************************************************************)
(* Theorems about the two services together, for any number of houses,     *)
(* threads and requests: first for every combination of mishaps, then, in  *)
(* the second half, for the index as long as no message is lost or         *)
(* overtaken.                                                              *)
(***************************************************************************)
EXTENDS Soufang, FiniteSetTheorems, TLAPS

-----------------------------------------------------------------------------
(***************************************************************************)
(* What the house service keeps true of the rows it shares with the        *)
(* listener.                                                               *)
(***************************************************************************)
SharedTypes ==
  /\ rows \in [Houses -> SUBSET HS!Tables]
  /\ status \in [Houses -> HS!Statuses]
  /\ rev \in [Houses -> Nat]
  /\ req \in [Threads -> HS!Request]
  /\ faults \in 0 .. MaxFaults

\* Contents need a row, and so does an edit.
ContentsHaveRows ==
  /\ \A h \in Houses : rows[h] = {} => rev[h] = 0
  /\ \A t \in Threads : req[t].phase = "edit" => rows[req[t].house] # {}

Shared == SharedTypes /\ ContentsHaveRows

LEMMA NoRequestType == HS!NoRequest \in HS!Request /\ HS!NoRequest.phase = "idle"
BY HousesAssumption
   DEF HS!NoRequest, HS!AnyHouse, HS!Request, HS!Phases, HS!Statuses, HS!NOT_AUDITED

LEMMA FaultsGrow ==
  ASSUME faults \in 0 .. MaxFaults,
         HS!NoMishap \/ \E kind : HS!Mishap(kind)
  PROVE  faults' \in faults .. MaxFaults
BY FaultBudget DEF HS!NoMishap, HS!Mishap

LEMMA ListenerFaultsGrow ==
  ASSUME faults \in 0 .. MaxFaults,
         SS!NoMishap \/ \E kind : SS!Mishap(kind)
  PROVE  faults' \in faults .. MaxFaults
BY FaultBudget DEF SS!NoMishap, SS!Mishap

LEMMA TargetIsStatus ==
  ASSUME NEW operation \in HS!HouseOperations
  PROVE  HS!TargetOf(operation) \in HS!Statuses
BY DEF HS!HouseOperations, HS!TargetOf, HS!Statuses,
       HS!NOT_AUDITED, HS!PASSES, HS!RENTED, HS!DELETED

-----------------------------------------------------------------------------
(***************************************************************************)
(* The three kinds of steps of the house service, as the listener sees     *)
(* them: rows move on, a message is sent, nothing.                         *)
(***************************************************************************)
RowsMoveOn ==
  /\ rows' \in [Houses -> SUBSET HS!Tables]
  /\ rev' \in [Houses -> Nat]
  /\ \A h \in Houses : rows[h] \subseteq rows'[h] /\ rev[h] <= rev'[h]
  /\ UNCHANGED topic

Sends ==
  /\ \E h \in Houses, operation \in {SS!INDEX, SS!REMOVE} :
       topic' = Append(topic, SS!Message(h, operation, 0))
  /\ UNCHANGED <<rows, rev, faults>>

Visible ==
  /\ req' \in [Threads -> HS!Request]
  /\ ContentsHaveRows'
  /\ faults' \in faults .. MaxFaults
  /\ RowsMoveOn \/ Sends

LEMMA StatusType ==
  ASSUME SharedTypes, NEW t \in Threads, HS!Arrive(t) \/ HS!Continue(t)
  PROVE  status' \in [Houses -> HS!Statuses]
<1>1. /\ req[t].house \in Houses /\ req[t].status \in HS!Statuses
      /\ status \in [Houses -> HS!Statuses]
  BY DEF SharedTypes, HS!Request
<1>2. ASSUME NEW h \in Houses, NEW s \in HS!Statuses, status' = [status EXCEPT ![h] = s]
      PROVE  status' \in [Houses -> HS!Statuses]
  BY <1>1, <1>2
<1>3. CASE UNCHANGED status
  BY <1>1, <1>3
<1>4. HS!NOT_AUDITED \in HS!Statuses
  BY DEF HS!Statuses
<1>5. ASSUME NEW h \in Houses, HS!SaveHouse(t, h)
      PROVE  status' = [status EXCEPT ![h] = HS!NOT_AUDITED]
  BY <1>5 DEF HS!SaveHouse
<1>6. HS!UpdateCommit(t) \/ HS!StatusCommit(t) =>
        status' = [status EXCEPT ![req[t].house] = req[t].status]
  BY DEF HS!UpdateCommit, HS!StatusCommit
<1>7. ASSUME NEW h \in Houses, NEW operation \in HS!HouseOperations,
             HS!StatusRead(t, h, operation)
      PROVE  UNCHANGED status
  BY <1>7 DEF HS!StatusRead, HS!dbVars
<1>8. ASSUME NEW h \in Houses, HS!UpdateRead(t, h) PROVE UNCHANGED status
  BY <1>8 DEF HS!UpdateRead, HS!dbVars
<1>9. HS!SavePart(t) \/ HS!CallFails(t) \/ HS!UpdateRefused(t)
        \/ HS!StatusWrite(t) \/ HS!StatusRollback(t) => UNCHANGED status
  BY DEF HS!SavePart, HS!CallFails, HS!UpdateRefused, HS!StatusWrite, HS!StatusRollback,
         HS!dbVars
<1>10. CASE HS!Arrive(t)
  BY <1>10, <1>2, <1>3, <1>4, <1>5, <1>7, <1>8 DEF HS!Arrive
<1>11. CASE HS!Continue(t)
  BY <1>11, <1>1, <1>2, <1>3, <1>6, <1>9 DEF HS!Continue
<1> QED  BY <1>10, <1>11

LEMMA ServiceVisible ==
  ASSUME Shared, NEW t \in Threads, HS!Arrive(t) \/ HS!Continue(t)
  PROVE  Visible
<1>s. /\ rows \in [Houses -> SUBSET HS!Tables]
      /\ status \in [Houses -> HS!Statuses]
      /\ rev \in [Houses -> Nat]
      /\ req \in [Threads -> HS!Request]
      /\ faults \in 0 .. MaxFaults
      /\ \A h \in Houses : rows[h] = {} => rev[h] = 0
      /\ \A u \in Threads : req[u].phase = "edit" => rows[req[u].house] # {}
  BY DEF Shared, SharedTypes, ContentsHaveRows
<1>r. req[t] \in HS!Request /\ req[t].house \in Houses /\ req[t].status \in HS!Statuses
  BY <1>s DEF HS!Request
<1>f. ASSUME HS!NoMishap \/ \E kind : HS!Mishap(kind) PROVE faults' \in faults .. MaxFaults
  BY <1>s, <1>f, FaultsGrow
<1>same. ASSUME UNCHANGED <<rows, rev, topic>> PROVE RowsMoveOn
  BY <1>same, <1>s DEF RowsMoveOn
\* A request ends: no edit is new.
<1>done. ASSUME HS!Finish(t)
         PROVE  /\ req' \in [Threads -> HS!Request]
                /\ \A u \in Threads : req'[u].phase = "edit" =>
                     req[u].phase = "edit" /\ req'[u].house = req[u].house
  BY <1>done, <1>s, NoRequestType DEF HS!Finish
\* A request goes on, not to an edit.
<1>goto. ASSUME NEW phase \in HS!Phases \ {"edit"}, req' = [req EXCEPT ![t].phase = phase]
         PROVE  /\ req' \in [Threads -> HS!Request]
                /\ \A u \in Threads : req'[u].phase = "edit" =>
                     req[u].phase = "edit" /\ req'[u].house = req[u].house
  BY <1>goto, <1>s, <1>r DEF HS!Request
\* A request starts.
<1>start. ASSUME NEW kind, NEW h \in Houses, NEW phase \in HS!Phases, NEW s \in HS!Statuses,
                 HS!Start(t, kind, h, phase, s)
          PROVE  /\ req' \in [Threads -> HS!Request]
                 /\ \A u \in Threads : req'[u].phase = "edit" =>
                      \/ req[u].phase = "edit" /\ req'[u].house = req[u].house
                      \/ phase = "edit" /\ req'[u].house = h
  <2>1. req' = [req EXCEPT ![t] = [phase |-> phase, house |-> h, status |-> s]]
    BY <1>start DEF HS!Start
  <2> QED  BY <2>1, <1>s, <1>start DEF HS!Request
\* Rows and contents as they were, or more.
<1>keep. ASSUME RowsMoveOn, \A h \in Houses : rows'[h] = {} => rev'[h] = rev[h],
                \A u \in Threads : req'[u].phase = "edit" =>
                  req'[u].house \in Houses /\ rows[req'[u].house] # {}
         PROVE  ContentsHaveRows'
  BY <1>keep, <1>s DEF RowsMoveOn, ContentsHaveRows
\* The houses of the edits going on are the houses of req.
<1>old. ASSUME NEW u \in Threads, req[u].phase = "edit"
        PROVE  req[u].house \in Houses /\ rows[req[u].house] # {}
  BY <1>old, <1>s DEF HS!Request
\* A step after which no row and no content is other than before.
<1>quiet. ASSUME UNCHANGED <<rows, rev, topic>>,
                 req' \in [Threads -> HS!Request],
                 \A u \in Threads : req'[u].phase = "edit" =>
                   req[u].phase = "edit" /\ req'[u].house = req[u].house,
                 HS!NoMishap \/ \E kind : HS!Mishap(kind)
          PROVE  Visible
  BY <1>quiet, <1>same, <1>old, <1>keep, <1>f DEF Visible
<1>1. ASSUME NEW h \in Houses, HS!SaveHouse(t, h) PROVE Visible
  <2>1. /\ req' \in [Threads -> HS!Request]
        /\ \A u \in Threads : req'[u].phase = "edit" =>
             req[u].phase = "edit" /\ req'[u].house = req[u].house
    <3>1. HS!Start(t, "save", h, "detail", HS!NOT_AUDITED)
      BY <1>1 DEF HS!SaveHouse
    <3> QED  BY <3>1, <1>start DEF HS!Phases, HS!Statuses
  <2>2. /\ rows[h] = {} /\ rev[h] = 0
        /\ rows' = [rows EXCEPT ![h] = {"house"}]
        /\ rev' = [rev EXCEPT ![h] = 1]
        /\ UNCHANGED topic
    BY <1>1, <1>s DEF HS!SaveHouse
  <2>3. RowsMoveOn
    BY <2>2, <1>s DEF RowsMoveOn, HS!Tables
  <2>4. \A g \in Houses : rows'[g] = {} => rev'[g] = rev[g]
    BY <2>2, <1>s
  <2>5. faults' \in faults .. MaxFaults
    BY <1>1, <1>f DEF HS!SaveHouse
  <2> QED  BY <2>1, <2>3, <2>4, <2>5, <1>old, <1>keep DEF Visible
<1>2. ASSUME HS!SavePart(t) PROVE Visible
  <2>1. /\ req' \in [Threads -> HS!Request]
        /\ \A u \in Threads : req'[u].phase = "edit" =>
             req[u].phase = "edit" /\ req'[u].house = req[u].house
    <3>1. \/ HS!Finish(t)
          \/ \E phase \in {"picture", "tag"} : req' = [req EXCEPT ![t].phase = phase]
      BY <1>2 DEF HS!SavePart
    <3> QED  BY <3>1, <1>done, <1>goto DEF HS!Phases
  <2>2. rows' = [rows EXCEPT ![req[t].house] = @ \cup {req[t].phase}]
        /\ UNCHANGED <<rev, topic>>
    BY <1>2 DEF HS!SavePart
  <2>3. req[t].phase \in HS!Tables
    BY <1>2 DEF HS!SavePart, HS!Tables
  <2>4. RowsMoveOn
    BY <2>2, <2>3, <1>s, <1>r DEF RowsMoveOn
  <2>5. faults' \in faults .. MaxFaults
    BY <1>2, <1>f DEF HS!SavePart
  <2> QED  BY <2>1, <2>2, <2>4, <2>5, <1>old, <1>keep DEF Visible
<1>3. ASSUME HS!CallFails(t) \/ HS!UpdateRefused(t) \/ HS!StatusCommit(t) \/ HS!StatusRollback(t)
      PROVE  Visible
  <2>1. HS!Finish(t) /\ UNCHANGED <<rows, rev, topic>>
    BY <1>3 DEF HS!CallFails, HS!UpdateRefused, HS!StatusCommit, HS!StatusRollback, HS!dbVars
  <2>2. HS!NoMishap \/ \E kind : HS!Mishap(kind)
    BY <1>3 DEF HS!CallFails, HS!UpdateRefused, HS!StatusCommit, HS!StatusRollback
  <2> QED  BY <2>1, <2>2, <1>done, <1>quiet
<1>4. ASSUME NEW h \in Houses, HS!UpdateRead(t, h) PROVE Visible
  <2>1. HS!Start(t, "edit", h, "edit", status[h]) /\ rows[h] # {}
    BY <1>4 DEF HS!UpdateRead
  <2>2. UNCHANGED <<rows, rev, topic>> /\ HS!NoMishap
    BY <1>4 DEF HS!UpdateRead, HS!dbVars
  <2>3. faults' \in faults .. MaxFaults
    BY <2>2, <1>f
  <2>4. /\ req' \in [Threads -> HS!Request]
        /\ \A u \in Threads : req'[u].phase = "edit" =>
             \/ req[u].phase = "edit" /\ req'[u].house = req[u].house
             \/ req'[u].house = h
    <3>1. "edit" \in HS!Phases /\ status[h] \in HS!Statuses
      BY <1>s DEF HS!Phases
    <3> QED  BY <2>1, <3>1, <1>start
  <2>5. RowsMoveOn
    BY <2>2, <1>same
  <2> QED  BY <2>1, <2>2, <2>3, <2>4, <2>5, <1>old, <1>keep DEF Visible
<1>5. ASSUME HS!UpdateCommit(t) PROVE Visible
  <2>1. PICK photos \in SUBSET {"picture"} :
          rows' = [rows EXCEPT ![req[t].house] = @ \cup photos]
    BY <1>5 DEF HS!UpdateCommit
  <2>2. /\ rev' = [rev EXCEPT ![req[t].house] = @ + 1]
        /\ UNCHANGED topic /\ HS!Finish(t) /\ req[t].phase = "edit"
    BY <1>5 DEF HS!UpdateCommit
  <2>3. RowsMoveOn
    <3>1. photos \subseteq HS!Tables
      BY DEF HS!Tables
    <3>2. rows' \in [Houses -> SUBSET HS!Tables]
      BY <2>1, <3>1, <1>s, <1>r
    <3>3. \A h \in Houses : rows[h] \subseteq rows'[h]
      BY <2>1, <1>s, <1>r
    <3>4. rev' \in [Houses -> Nat] /\ \A h \in Houses : rev[h] <= rev'[h]
      BY <2>2, <1>s, <1>r
    <3> QED  BY <2>2, <3>2, <3>3, <3>4 DEF RowsMoveOn
  <2>4. \A g \in Houses : rows'[g] = {} => rev'[g] = rev[g]
    <3>1. rows[req[t].house] # {}
      BY <2>2, <1>s
    <3> QED  BY <2>1, <2>2, <3>1, <1>s, <1>r
  <2>5. faults' \in faults .. MaxFaults
    BY <1>5, <1>f DEF HS!UpdateCommit
  <2> QED  BY <2>2, <2>3, <2>4, <2>5, <1>done, <1>old, <1>keep DEF Visible
<1>6. ASSUME NEW h \in Houses, NEW operation \in HS!HouseOperations,
             HS!StatusRead(t, h, operation)
      PROVE  Visible
  <2>1. HS!Start(t, "status", h, "status", HS!TargetOf(operation))
    BY <1>6 DEF HS!StatusRead
  <2>2. UNCHANGED <<rows, rev, topic>> /\ HS!NoMishap
    BY <1>6 DEF HS!StatusRead, HS!dbVars
  <2>3. /\ req' \in [Threads -> HS!Request]
        /\ \A u \in Threads : req'[u].phase = "edit" =>
             req[u].phase = "edit" /\ req'[u].house = req[u].house
    BY <2>1, TargetIsStatus, <1>start DEF HS!Phases
  <2> QED  BY <2>2, <2>3, <1>quiet
<1>7. ASSUME HS!StatusWrite(t) PROVE Visible
  <2> DEFINE m == HS!Message(req[t].house, HS!OperationFor(req[t].status), 0)
  <2>1. req' = [req EXCEPT ![t].phase = "sent"] /\ UNCHANGED <<rows, rev>>
    BY <1>7 DEF HS!StatusWrite, HS!dbVars
  <2>2. /\ req' \in [Threads -> HS!Request]
        /\ \A u \in Threads : req'[u].phase = "edit" =>
             req[u].phase = "edit" /\ req'[u].house = req[u].house
    BY <2>1, <1>goto DEF HS!Phases
  <2>3. CASE HS!Mishap("send") /\ UNCHANGED topic
    BY <2>1, <2>2, <2>3, <1>quiet
  <2>4. CASE HS!NoMishap /\ topic' = Append(topic, m)
    <3>1. m = SS!Message(req[t].house, HS!OperationFor(req[t].status), 0)
      BY DEF HS!Message, SS!Message
    <3>2. HS!OperationFor(req[t].status) \in {SS!INDEX, SS!REMOVE}
      BY DEF HS!OperationFor, HS!INDEX, HS!REMOVE, SS!INDEX, SS!REMOVE
    <3>3. Sends
      <4> HIDE DEF m
      <4> QED  BY <2>1, <2>4, <3>1, <3>2, <1>r DEF Sends, HS!NoMishap
    <3>4. ContentsHaveRows'
      <4>1. UNCHANGED <<rows, rev>>
        BY <2>1
      <4> QED  BY <4>1, <2>2, <1>s DEF ContentsHaveRows
    <3>5. faults' \in faults .. MaxFaults
      BY <2>4, <1>f
    <3> QED  BY <2>2, <3>3, <3>4, <3>5 DEF Visible
  <2> QED  BY <1>7, <2>3, <2>4 DEF HS!StatusWrite
<1> QED
  BY <1>1, <1>2, <1>3, <1>4, <1>5, <1>6, <1>7 DEF HS!Arrive, HS!Continue

-----------------------------------------------------------------------------
(***************************************************************************)
(* The three kinds of steps of the composition.                            *)
(***************************************************************************)
LEMMA ServiceIsEnvironment ==
  ASSUME Shared, ServiceStep
  PROVE  Shared' /\ SS!Env
<1>1. Visible /\ status' \in [Houses -> HS!Statuses] /\ UNCHANGED listenerLocals
  BY ServiceVisible, StatusType DEF ServiceStep, HS!ServiceNext, Shared
<1>2. faults \in 0 .. MaxFaults
  BY DEF Shared, SharedTypes
<1>3. faults' \in 0 .. MaxFaults
  BY <1>1, <1>2, FaultBudget DEF Visible
<1>4. CASE RowsMoveOn
  <2>1. Shared'
    BY <1>1, <1>3, <1>4 DEF Visible, RowsMoveOn, Shared, SharedTypes
  <2>2. SS!EnvRows
    BY <1>1, <1>4
       DEF Visible, RowsMoveOn, SS!EnvRows, listenerLocals, SS!listenerVars, HS!Tables, SS!Tables
  <2> QED  BY <2>1, <2>2 DEF SS!Env
<1>5. CASE Sends
  <2>1. Shared'
    BY <1>1, <1>3, <1>5 DEF Visible, Sends, Shared, SharedTypes
  <2>2. SS!EnvSend
    BY <1>1, <1>5 DEF Sends, SS!EnvSend, SS!NoMishap, listenerLocals, SS!listenerVars
  <2> QED  BY <2>1, <2>2 DEF SS!Env
<1> QED  BY <1>1, <1>4, <1>5 DEF Visible

LEMMA ListenerKeepsShared ==
  ASSUME Shared, ListenerStep
  PROVE  Shared'
<1>1. UNCHANGED <<rows, status, rev, req>>
  BY DEF ListenerStep, SS!ListenerNext, serviceLocals
<1>2. SS!NoMishap \/ \E kind : SS!Mishap(kind)
  <2>1. SS!Poll \/ SS!AutoCommit \/ SS!Refresh => SS!NoMishap
    BY DEF SS!Poll, SS!AutoCommit, SS!Refresh
  <2>2. SS!LoadHouse \/ SS!LoadDetail \/ SS!Search \/ SS!WriteNone \/ SS!WriteOne
          \/ SS!WriteMany \/ SS!CreateAfterDelete \/ SS!Delete => SS!NoMishap
    BY DEF SS!LoadHouse, SS!LoadDetail, SS!Search, SS!WriteNone, SS!WriteOne,
           SS!WriteMany, SS!CreateAfterDelete, SS!Delete
  <2>3. SS!Geocode \/ SS!Upload \/ SS!Unload \/ SS!HandlerThrows =>
          SS!NoMishap \/ \E kind : SS!Mishap(kind)
    BY DEF SS!Geocode, SS!Upload, SS!Unload, SS!HandlerThrows, SS!Retry
  <2> QED  BY <2>1, <2>2, <2>3 DEF ListenerStep, SS!ListenerNext, SS!Handle
<1>3. faults \in 0 .. MaxFaults
  BY DEF Shared, SharedTypes
<1>4. faults' \in 0 .. MaxFaults
  <2>1. faults' \in faults .. MaxFaults
    BY <1>2, <1>3, ListenerFaultsGrow
  <2> QED  BY <1>3, <2>1, FaultBudget
<1> QED  BY <1>1, <1>4 DEF Shared, SharedTypes, ContentsHaveRows

LEMMA CrashKeepsShared ==
  ASSUME Shared, Crash
  PROVE  Shared'
<1>1. /\ UNCHANGED <<rows, status, rev>>
      /\ req' = [t \in Threads |-> HS!NoRequest]
      /\ SS!Mishap("crash")
  BY DEF Crash, SS!Crash, HS!Restart, HS!dbVars
<1>2. req' \in [Threads -> HS!Request] /\ \A t \in Threads : req'[t].phase # "edit"
  BY <1>1, NoRequestType
<1>3. faults \in 0 .. MaxFaults
  BY DEF Shared, SharedTypes
<1>4. faults' \in 0 .. MaxFaults
  <2>1. faults' \in faults .. MaxFaults
    BY <1>1, <1>3, ListenerFaultsGrow
  <2> QED  BY <1>3, <2>1, FaultBudget
<1> QED  BY <1>1, <1>2, <1>4 DEF Shared, SharedTypes, ContentsHaveRows

LEMMA InitShared == Init => Shared /\ SS!Init
<1> SUFFICES ASSUME Init PROVE Shared /\ SS!Init
  OBVIOUS
<1>1. /\ rows = [h \in Houses |-> IF h \in Stored THEN HS!Tables \ {"tag"} ELSE {}]
      /\ status = [h \in Houses |-> HS!NOT_AUDITED]
      /\ rev = [h \in Houses |-> IF h \in Stored THEN 1 ELSE 0]
      /\ req = [t \in Threads |-> HS!NoRequest]
      /\ topic = <<>> /\ faults = 0
      /\ SS!ListenerInit
  BY DEF Init, HS!Init
<1>2. SharedTypes
  <2>1. rows \in [Houses -> SUBSET HS!Tables] /\ rev \in [Houses -> Nat]
    BY <1>1
  <2>2. status \in [Houses -> HS!Statuses]
    BY <1>1 DEF HS!Statuses
  <2>3. req \in [Threads -> HS!Request] /\ faults \in 0 .. MaxFaults
    BY <1>1, NoRequestType, FaultBudget
  <2> QED  BY <2>1, <2>2, <2>3 DEF SharedTypes
<1>3. ContentsHaveRows
  <2>1. ASSUME NEW h \in Houses, rows[h] = {} PROVE rev[h] = 0
    BY <1>1, <2>1 DEF HS!Tables
  <2>2. \A t \in Threads : req[t].phase = "idle"
    BY <1>1, NoRequestType
  <2> QED  BY <2>1, <2>2 DEF ContentsHaveRows
<1>4. SS!Init
  BY <1>1, <1>2 DEF SharedTypes, SS!Init, HS!Tables, SS!Tables
<1> QED  BY <1>2, <1>3, <1>4 DEF Shared

LEMMA SharedNext ==
  Shared /\ [Next]_vars => Shared' /\ [SS!Next]_SS!searchVars
<1> SUFFICES ASSUME Shared, [Next]_vars PROVE Shared' /\ [SS!Next]_SS!searchVars
  OBVIOUS
<1>1. CASE ServiceStep
  BY <1>1, ServiceIsEnvironment DEF SS!Next
<1>2. CASE ListenerStep
  BY <1>2, ListenerKeepsShared DEF ListenerStep, SS!Next
<1>3. CASE Crash
  BY <1>3, CrashKeepsShared DEF Crash, SS!Next
<1>4. CASE UNCHANGED vars
  BY <1>4 DEF vars, SS!searchVars, Shared, SharedTypes, ContentsHaveRows
<1> QED  BY <1>1, <1>2, <1>3, <1>4 DEF Next

(***************************************************************************)
(* The house service, however many administrators drive it and whatever    *)
(* fails in it, is an environment the listener can live with, and a crash  *)
(* of the process is a crash of the listener (HouseService.java 72-114,    *)
(* 193-224 and 290-319): every behaviour of the two services together is   *)
(* one of the listener as it is specified alone.                           *)
(***************************************************************************)
THEOREM ServiceRespectsListener == Spec => ListenerSpec
<1>1. Init => Shared /\ SS!Init
  BY InitShared
<1>2. Shared /\ [Next]_vars => Shared' /\ [SS!Next]_SS!searchVars
  BY SharedNext
<1> QED  BY <1>1, <1>2, PTL DEF Spec, ListenerSpec, SS!Spec

-----------------------------------------------------------------------------
(***************************************************************************)
(* What is proved of the listener by itself holds of it here: SP are the   *)
(* theorems of SearchServiceProofs about the variables of this module.     *)
(***************************************************************************)
SP == INSTANCE SearchServiceProofs WITH Revisions <- Nat

LEMMA SameListener ==
  /\ SP!Init <=> SS!Init
  /\ SP!Next <=> SS!Next
  /\ SP!OneDocument <=> SS!OneDocument
  /\ SP!MirrorsAgree <=> SS!MirrorsAgree
BY DEF SP!Next, SS!Next, SP!Tables, SS!Tables, SP!Message, SS!Message, SP!INDEX, SS!INDEX,
       SP!REMOVE, SS!REMOVE, SP!MAX_RETRY, SS!MAX_RETRY, SP!Mishap, SS!Mishap, SP!NoMishap,
       SS!NoMishap, SP!searchVars, SS!searchVars, SP!listenerVars, SS!listenerVars,
       SP!indexVars, SS!indexVars, SP!NoMessage, SS!NoMessage, SP!At, SS!At, SP!Goto,
       SS!Goto, SP!Done, SS!Done, SP!Requeue, SS!Requeue, SP!Retry, SS!Retry, SP!View,
       SS!View, SP!Write, SS!Write, SP!Of, SS!Of, SP!Deleted, SS!Deleted, SP!UsedIds,
       SS!UsedIds, SP!Template, SS!Template, SP!NewDocument, SS!NewDocument, SP!Poll,
       SS!Poll, SP!AutoCommit, SS!AutoCommit, SP!LoadHouse, SS!LoadHouse, SP!LoadDetail,
       SS!LoadDetail, SP!Geocode, SS!Geocode, SP!Search, SS!Search, SP!WriteNone,
       SS!WriteNone, SP!WriteOne, SS!WriteOne, SP!WriteMany, SS!WriteMany,
       SP!CreateAfterDelete, SS!CreateAfterDelete, SP!Upload, SS!Upload, SP!Delete,
       SS!Delete, SP!Unload, SS!Unload, SP!HandlerThrows, SS!HandlerThrows, SP!Refresh,
       SS!Refresh, SP!Restart, SS!Restart, SP!Handle, SS!Handle, SP!ListenerNext,
       SS!ListenerNext, SP!Crash, SS!Crash, SP!EnvRows, SS!EnvRows, SP!EnvSend, SS!EnvSend,
       SP!Env, SS!Env, SP!Cardinality, SS!Cardinality, SP!IsFiniteSet, SS!IsFiniteSet,
       SP!Init, SS!Init, SP!ListenerInit, SS!ListenerInit, SP!OneDocument, SS!OneDocument,
       SP!MirrorsAgree, SS!MirrorsAgree

LEMMA ListenerByItself == Spec => SP!Spec
<1>1. SS!Init => SP!Init
  BY SameListener
<1>2. [SS!Next]_SS!searchVars => [SP!Next]_SP!searchVars
  BY SameListener DEF SS!searchVars, SP!searchVars
<1> QED  BY <1>1, <1>2, ServiceRespectsListener, PTL DEF ListenerSpec, SS!Spec, SP!Spec

(***************************************************************************)
(* Whatever the administrators do and whatever fails, a house never has    *)
(* two documents, as long as searches see every write                      *)
(* (SearchService.java 165-179).                                           *)
(***************************************************************************)
THEOREM SingleDocument == Spec => []OneDocument
<1>1. SP!Spec => []SP!OneDocument
  BY SP!SingleDocument, HousesAssumption, FaultBudget, DocIdsAssumption, RefreshLagAssumption
<1>2. SP!OneDocument => OneDocument
  BY SameListener DEF OneDocument
<1> QED  BY <1>1, <1>2, ListenerByItself, PTL

(***************************************************************************)
(* Index and LBS table hold the same houses whenever every message is      *)
(* handled: crashes between the two calls, lost sends, rollbacks, failed   *)
(* look-ups and as many failures of the geocoder as there are retries      *)
(* leave no house in one of them only (SearchService.java 113-129 and      *)
(* 181-200).                                                               *)
(***************************************************************************)
THEOREM MirrorsStayTogether ==
  SP!Repairable => (Spec => []MirrorsAgree)
<1>1. SP!Repairable => (SP!Spec => []SP!MirrorsAgree)
  BY SP!MirrorsStayTogether, HousesAssumption, FaultBudget, DocIdsAssumption,
     RefreshLagAssumption
<1>2. SP!MirrorsAgree => MirrorsAgree
  BY SameListener DEF MirrorsAgree
<1> QED  BY <1>1, <1>2, ListenerByItself, PTL

-----------------------------------------------------------------------------
(***************************************************************************)
(* What is proved of the house service by itself holds of it here: HP are  *)
(* the theorems of HouseServiceProofs about the variables of this module.  *)
(* The listener takes messages from the topic and puts some back, which    *)
(* rows, locks and requests do not notice.                                 *)
(***************************************************************************)
HP == INSTANCE HouseServiceProofs

LEMMA SameService ==
  /\ HP!Init <=> HS!Init
  /\ HP!ServiceNext <=> HS!ServiceNext
  /\ HP!Crash <=> HS!Mishap("crash") /\ HS!Restart
  /\ HP!RowsInSaveOrder <=> HS!RowsInSaveOrder
BY DEF HP!Init, HS!Init, HP!ServiceNext, HS!ServiceNext, HP!Crash, HP!Restart, HS!Restart,
       HP!RowsInSaveOrder, HS!RowsInSaveOrder,
       HP!Arrive, HS!Arrive, HP!Continue, HS!Continue, HP!SaveHouse, HS!SaveHouse,
       HP!SavePart, HS!SavePart, HP!CallFails, HS!CallFails, HP!UpdateRead, HS!UpdateRead,
       HP!UpdateCommit, HS!UpdateCommit, HP!UpdateRefused, HS!UpdateRefused,
       HP!StatusRead, HS!StatusRead, HP!StatusWrite, HS!StatusWrite, HP!StatusCommit,
       HS!StatusCommit, HP!StatusRollback, HS!StatusRollback, HP!Start, HS!Start,
       HP!Finish, HS!Finish, HP!Unlocked, HS!Unlocked, HP!NoRequest, HS!NoRequest,
       HP!AnyHouse, HS!AnyHouse, HP!dbVars, HS!dbVars, HP!Mishap, HS!Mishap, HP!NoMishap,
       HS!NoMishap, HP!Message, HS!Message, HP!TargetOf, HS!TargetOf, HP!OperationFor,
       HS!OperationFor, HP!HouseOperations, HS!HouseOperations, HP!Phases, HS!Phases,
       HP!Tables, HS!Tables, HP!Terminal, HS!Terminal, HP!NOT_AUDITED, HS!NOT_AUDITED,
       HP!PASSES, HS!PASSES, HP!RENTED, HS!RENTED, HP!DELETED, HS!DELETED,
       HP!INDEX, HS!INDEX, HP!REMOVE, HS!REMOVE

HouseInv == HP!RowsInv /\ HP!LocksAreOwned

LEMMA HouseInit == Init => HouseInv
<1>1. HP!Init => HP!TypeOK
  BY HP!InitType, HousesAssumption, FaultBudget, NoThreadAssumption, StoredAssumption,
     MaxRequestsAssumption, DutiesAssumption DEF HS!Kinds, HP!Kinds
<1>2. HP!Init => HP!LocksAreOwned
  BY HP!LocksInit, HousesAssumption, FaultBudget, NoThreadAssumption, StoredAssumption,
     MaxRequestsAssumption, DutiesAssumption DEF HS!Kinds, HP!Kinds
<1>3. HP!Init => HP!RowsInSaveOrder /\ HP!RequestsHaveRows
  BY HP!RowsInit, HousesAssumption, FaultBudget, NoThreadAssumption, StoredAssumption,
     MaxRequestsAssumption, DutiesAssumption DEF HS!Kinds, HP!Kinds
<1> QED  BY <1>1, <1>2, <1>3, SameService DEF Init, HouseInv, HP!RowsInv

LEMMA HouseNext == HouseInv /\ HP!Next => HouseInv'
<1>1. HP!TypeOK /\ HP!Next => HP!TypeOK'
  BY HP!NextType, HousesAssumption, FaultBudget, NoThreadAssumption, StoredAssumption,
     MaxRequestsAssumption, DutiesAssumption DEF HS!Kinds, HP!Kinds
<1>2. HP!TypeOK /\ HP!LocksAreOwned /\ HP!Next => HP!LocksAreOwned'
  BY HP!LocksNext, HousesAssumption, FaultBudget, NoThreadAssumption, StoredAssumption,
     MaxRequestsAssumption, DutiesAssumption DEF HS!Kinds, HP!Kinds
<1>3. HP!RowsInv /\ HP!Next => HP!RowsInSaveOrder' /\ HP!RequestsHaveRows'
  BY HP!RowsNext, HousesAssumption, FaultBudget, NoThreadAssumption, StoredAssumption,
     MaxRequestsAssumption, DutiesAssumption DEF HS!Kinds, HP!Kinds
<1> QED  BY <1>1, <1>2, <1>3 DEF HouseInv, HP!RowsInv

\* The steps of the listener leave everything the requests work on alone.
LEMMA HouseInvKept ==
  ASSUME HouseInv, UNCHANGED <<rows, rev, status, req, lock, requests>>,
         topic' \in Seq(SS!HouseIndexMessage), faults' \in 0 .. MaxFaults
  PROVE  HouseInv'
<1>1. SS!HouseIndexMessage = HP!HouseIndexMessage
  BY DEF SS!HouseIndexMessage, HP!HouseIndexMessage, SS!INDEX, HP!INDEX, SS!REMOVE, HP!REMOVE,
         SS!MAX_RETRY, HP!MAX_RETRY
<1>2. HP!TypeOK'
  BY <1>1 DEF HouseInv, HP!RowsInv, HP!TypeOK
<1>3. HP!RowsInSaveOrder' /\ HP!RequestsHaveRows'
  BY DEF HouseInv, HP!RowsInv, HP!RowsInSaveOrder, HP!RequestsHaveRows
<1>4. HP!LocksAreOwned'
  BY DEF HouseInv, HP!LocksAreOwned
<1> QED  BY <1>2, <1>3, <1>4 DEF HouseInv, HP!RowsInv

LEMMA HouseStep ==
  ASSUME HouseInv, SP!TypeOK', [Next]_vars
  PROVE  HouseInv'
<1>t. topic' \in Seq(SS!HouseIndexMessage) /\ faults' \in 0 .. MaxFaults
  BY DEF SP!TypeOK, SP!HouseIndexMessage, SS!HouseIndexMessage, SS!INDEX, SP!INDEX,
         SS!REMOVE, SP!REMOVE, SS!MAX_RETRY, SP!MAX_RETRY
<1>1. CASE ServiceStep
  <2>1. HP!Next
    BY <1>1, SameService DEF ServiceStep, HP!Next
  <2> QED  BY <2>1, HouseNext
<1>2. CASE ListenerStep
  BY <1>2, <1>t, HouseInvKept DEF ListenerStep, SS!ListenerNext, serviceLocals
<1>3. CASE Crash
  <2>1. HS!Mishap("crash") /\ HS!Restart
    BY <1>3 DEF Crash, SS!Crash, SS!Mishap, HS!Mishap
  <2>2. HP!Next
    BY <2>1, SameService DEF HP!Next
  <2> QED  BY <2>2, HouseNext
<1>4. CASE UNCHANGED vars
  BY <1>4, <1>t, HouseInvKept DEF vars
<1> QED  BY <1>1, <1>2, <1>3, <1>4 DEF Next

LEMMA ListenerTyped == Spec => []SP!TypeOK
<1>1. SP!Spec => []SP!TypeOK
  BY SP!TypeCorrect, HousesAssumption, FaultBudget, DocIdsAssumption, RefreshLagAssumption
<1> QED  BY <1>1, ListenerByItself, PTL

(***************************************************************************)
(* The rows of a house appear in the order save writes them, whatever the  *)
(* listener does with the topic meanwhile and though a crash takes both    *)
(* services down (HouseService.java 86-110).                               *)
(***************************************************************************)
THEOREM HouseServiceUndisturbed == Spec => []HS!RowsInSaveOrder
<1>1. HouseInv /\ SP!TypeOK' /\ [Next]_vars => HouseInv'
  BY HouseStep
<1>2. HouseInv => HS!RowsInSaveOrder
  BY SameService DEF HouseInv, HP!RowsInv
<1> QED  BY <1>1, <1>2, HouseInit, ListenerTyped, PTL DEF Spec

(***************************************************************************)
(* No message is about a house without a row.                              *)
(***************************************************************************)
\* A message about h waits in the topic or is being handled.
About(h) ==
  \/ \E i \in 1 .. Len(topic) : topic[i].houseId = h
  \/ handler.phase # "idle" /\ handler.houseId = h

\* The listener starts on no house but by a message, and what it sends again
\* is about the house it works on.
LEMMA ListenerNamesNoHouse ==
  ASSUME SP!TypeOK, SS!ListenerNext \/ SS!Crash, NEW h \in Houses, About(h)'
  PROVE  About(h)
<1>t. /\ topic \in Seq(SS!HouseIndexMessage) /\ Len(topic) \in Nat
      /\ position \in 0 .. Len(topic)
  BY DEF SP!TypeOK, SP!HouseIndexMessage, SS!HouseIndexMessage, SS!INDEX, SP!INDEX,
         SS!REMOVE, SP!REMOVE, SS!MAX_RETRY, SP!MAX_RETRY
<1>n. SS!NoMessage.phase = "idle"
  BY DEF SS!NoMessage
\* The messages stay, and the handler stays with its house or is done.
<1>keep. ASSUME UNCHANGED topic,
                handler'.phase # "idle" =>
                  handler.phase # "idle" /\ handler'.houseId = handler.houseId
         PROVE  About(h)
  BY <1>keep DEF About
\* The message being handled is over, and perhaps sent again.
<1>over. ASSUME handler.phase # "idle", handler' = SS!NoMessage,
                \/ UNCHANGED topic
                \/ \E operation : SS!Requeue(operation)
         PROVE  About(h)
  <2>1. CASE UNCHANGED topic
    BY <1>n, <1>over, <2>1, <1>keep
  <2>2. ASSUME NEW operation, SS!Requeue(operation)
        PROVE  About(h)
    <3>1. CASE UNCHANGED topic
      BY <2>1, <3>1
    <3> DEFINE m == SS!Message(handler.houseId, operation, handler.retry + 1)
    <3>2. CASE topic' = Append(topic, m)
      <4>1. PICK i \in 1 .. Len(topic') : topic'[i].houseId = h
        BY <1>n, <1>over DEF About
      <4>2. m.houseId = handler.houseId
        BY DEF SS!Message
      <4> HIDE DEF m
      <4>3. (i \in 1 .. Len(topic) /\ topic'[i] = topic[i]) \/ topic'[i] = m
        BY <1>t, <3>2, <4>1
      <4> QED  BY <1>over, <4>1, <4>2, <4>3 DEF About
    <3> QED  BY <2>2, <3>1, <3>2 DEF SS!Requeue
  <2> QED  BY <1>over, <2>1, <2>2
<1>1. CASE SS!Poll
  <2>1. /\ UNCHANGED topic /\ position + 1 \in 1 .. Len(topic)
        /\ handler'.houseId = topic[position + 1].houseId
    BY <1>1, <1>t DEF SS!Poll, SS!NoMessage
  <2> QED  BY <2>1 DEF About
<1>2. CASE SS!AutoCommit
  <2>1. /\ topic' = SubSeq(topic, position + 1, Len(topic)) /\ UNCHANGED handler
        /\ position + 1 \in 1 .. Len(topic) + 1
    BY <1>2, <1>t DEF SS!AutoCommit
  <2>2. /\ Len(topic') = Len(topic) - position
        /\ \A i \in 1 .. Len(topic') : topic'[i] = topic[position + i]
    BY <1>t, <2>1
  <2>3. \A i \in 1 .. Len(topic') : position + i \in 1 .. Len(topic)
    BY <1>t, <2>2
  <2> QED  BY <2>1, <2>2, <2>3 DEF About
<1>3. CASE SS!Refresh
  BY <1>3, <1>keep DEF SS!Refresh
<1>4. CASE SS!Crash
  BY <1>4, <1>keep, <1>n DEF SS!Crash, SS!Restart
<1>5. CASE SS!Handle
  <2>h. handler \in SP!Handler
    BY DEF SP!TypeOK
  <2>1. CASE SS!LoadHouse
    BY <2>1, <2>h, <1>n, <1>keep DEF SS!LoadHouse, SS!At, SS!Done, SP!Handler
  <2>2. CASE SS!LoadDetail
    BY <2>2, <2>h, <1>n, <1>keep DEF SS!LoadDetail, SS!At, SS!Done, SP!Handler
  <2>3. CASE SS!Geocode
    <3>1. handler.phase = "geocode"
      BY <2>3 DEF SS!Geocode, SS!At
    <3>2. CASE SS!Goto("search") /\ UNCHANGED topic
      BY <2>h, <3>1, <3>2, <1>keep DEF SS!Goto, SP!Handler
    <3>3. CASE SS!Requeue(SS!INDEX) /\ SS!Done
      BY <3>1, <3>3, <1>over DEF SS!Done
    <3> QED  BY <2>3, <3>2, <3>3 DEF SS!Geocode
  <2>4. CASE SS!Search
    BY <2>4, <2>h, <1>keep DEF SS!Search, SS!At, SP!Handler
  <2>5. CASE SS!WriteNone
    BY <2>5, <2>h, <1>keep DEF SS!WriteNone, SS!At, SS!Goto, SP!Handler
  <2>6. CASE SS!WriteOne
    BY <2>6, <2>h, <1>n, <1>keep DEF SS!WriteOne, SS!At, SS!Goto, SS!Done, SP!Handler
  <2>7. CASE SS!WriteMany
    BY <2>7, <2>h, <1>keep DEF SS!WriteMany, SS!At, SP!Handler
  <2>8. CASE SS!CreateAfterDelete
    BY <2>8, <2>h, <1>keep DEF SS!CreateAfterDelete, SS!At, SS!Goto, SP!Handler
  <2>9. CASE SS!Upload
    BY <2>9, <1>over DEF SS!Upload, SS!At, SS!Done, SS!Retry
  <2>10. CASE SS!Delete
    BY <2>10, <2>h, <1>keep DEF SS!Delete, SS!At, SP!Handler
  <2>11. CASE SS!Unload
    BY <2>11, <1>over DEF SS!Unload, SS!At, SS!Done, SS!Retry
  <2>12. CASE SS!HandlerThrows
    BY <2>12, <1>over DEF SS!HandlerThrows, SS!At, SS!Done
  <2> QED
    BY <1>5, <2>1, <2>2, <2>3, <2>4, <2>5, <2>6, <2>7, <2>8, <2>9, <2>10, <2>11, <2>12
       DEF SS!Handle
<1> QED  BY <1>1, <1>2, <1>3, <1>4, <1>5 DEF SS!ListenerNext

LEMMA RowsStay ==
  ASSUME [SS!Next]_SS!searchVars, NEW h \in Houses
  PROVE  rows[h] \subseteq rows'[h]
<1>1. UNCHANGED rows \/ SS!EnvRows
  BY DEF SS!Next, SS!ListenerNext, SS!Crash, SS!Env, SS!EnvSend, SS!searchVars
<1> QED  BY <1>1 DEF SS!EnvRows

\* A request names the house it has looked up.
LEMMA ServiceNamesItsHouse ==
  ASSUME HouseInv, SP!TypeOK, ServiceStep, NEW h \in Houses, About(h)'
  PROVE  About(h) \/ "house" \in rows[h]
<1>t. topic \in Seq(SS!HouseIndexMessage) /\ Len(topic) \in Nat
  BY DEF SP!TypeOK, SP!HouseIndexMessage, SS!HouseIndexMessage, SS!INDEX, SP!INDEX,
         SS!REMOVE, SP!REMOVE, SS!MAX_RETRY, SP!MAX_RETRY
<1>1. PICK t \in Threads : HS!Arrive(t) \/ HS!Continue(t)
  BY DEF ServiceStep, HS!ServiceNext
<1>2. UNCHANGED handler
  BY DEF ServiceStep, listenerLocals
<1>3. CASE UNCHANGED topic
  BY <1>2, <1>3 DEF About
<1>4. CASE HS!StatusWrite(t)
  <2> DEFINE m == HS!Message(req[t].house, HS!OperationFor(req[t].status), 0)
  <2>1. req[t].phase = "status" /\ (topic' = Append(topic, m) \/ UNCHANGED topic)
    BY <1>4 DEF HS!StatusWrite
  <2>2. "house" \in rows[req[t].house]
    BY <2>1 DEF HouseInv, HP!RowsInv, HP!RequestsHaveRows, HP!Needs
  <2>3. m.houseId = req[t].house
    BY DEF HS!Message
  <2> HIDE DEF m
  <2>4. CASE topic' = Append(topic, m)
    <3>1. \A i \in 1 .. Len(topic') :
            (i \in 1 .. Len(topic) /\ topic'[i] = topic[i]) \/ topic'[i] = m
      BY <1>t, <2>4
    <3> QED  BY <1>2, <2>2, <2>3, <3>1 DEF About
  <2> QED  BY <1>3, <2>1, <2>4
<1>5. HS!StatusWrite(t) \/ UNCHANGED topic
  BY <1>1 DEF HS!Arrive, HS!Continue, HS!SaveHouse, HS!UpdateRead, HS!StatusRead, HS!SavePart,
       HS!CallFails, HS!UpdateCommit, HS!UpdateRefused, HS!StatusCommit, HS!StatusRollback,
       HS!dbVars
<1> QED  BY <1>3, <1>4, <1>5

(***************************************************************************)
(* Whatever fails, no message is about a house the database does not have, *)
(* so the listener never drops one because of that (HouseService.java      *)
(* 290-319, SearchService.java 131-137).                                   *)
(***************************************************************************)
THEOREM MessagesAreOfHouses == Spec => []MessagesHaveHouses
<1> DEFINE Inv == \A h \in Houses : About(h) => "house" \in rows[h]
<1>1. Init => Inv
  <2>1. Init => topic = <<>> /\ handler.phase = "idle"
    BY DEF Init, HS!Init, SS!ListenerInit, SS!NoMessage
  <2> QED  BY <2>1 DEF About
<1>2. ASSUME Inv, HouseInv, SP!TypeOK, Shared, [Next]_vars
      PROVE  Inv'
  <2> SUFFICES ASSUME NEW h \in Houses, About(h)' PROVE "house" \in rows'[h]
    OBVIOUS
  <2>1. rows[h] \subseteq rows'[h]
    BY <1>2, SharedNext, RowsStay
  <2>2. CASE ServiceStep
    BY <1>2, <2>1, <2>2, ServiceNamesItsHouse
  <2>3. CASE ListenerStep \/ Crash
    BY <1>2, <2>1, <2>3, ListenerNamesNoHouse DEF ListenerStep, Crash
  <2>4. CASE UNCHANGED vars
    BY <1>2, <2>1, <2>4 DEF vars, About
  <2> QED  BY <1>2, <2>2, <2>3, <2>4 DEF Next
<1>3. ASSUME Inv, SP!TypeOK PROVE MessagesHaveHouses
  <2>1. topic \in Seq(SP!HouseIndexMessage) /\ handler \in SP!Handler
    BY <1>3 DEF SP!TypeOK
  <2>2. \A i \in 1 .. Len(topic) : topic[i] \in SP!HouseIndexMessage
    BY <2>1
  <2>3. /\ \A i \in 1 .. Len(topic) : topic[i].houseId \in Houses
        /\ handler.houseId \in Houses
    BY <2>1, <2>2 DEF SP!HouseIndexMessage, SP!Handler
  <2> QED  BY <1>3, <2>3 DEF MessagesHaveHouses, About, SS!At
<1> HIDE DEF Inv
<1> QED
  BY <1>1, <1>2, <1>3, HouseInit, HouseStep, InitShared, SharedNext, ListenerTyped, PTL
     DEF Spec

-----------------------------------------------------------------------------
(***************************************************************************)
(* Who works on what.  A request that edits a house writes back the status *)
(* it read: where the editor of a house is its only administrator, that is *)
(* the status the house has (HouseService.java 193-224).                   *)
(***************************************************************************)
EditorsAlone ==
  \A t, u \in Threads, k \in HS!Kinds, h \in Houses :
    <<t, "edit", h>> \in Duties /\ <<u, k, h>> \in Duties => t = u

OneAdministrator ==
  \A t, u \in Threads, k, l \in HS!Kinds, h \in Houses :
    <<t, k, h>> \in Duties /\ <<u, l, h>> \in Duties => t = u

OnDuty ==
  \A t \in Threads :
    /\ req[t].phase # "idle" => \E k \in HS!Kinds : <<t, k, req[t].house>> \in Duties
    /\ req[t].phase = "edit" => <<t, "edit", req[t].house>> \in Duties

EditsCurrent ==
  \A t \in Threads : req[t].phase = "edit" => req[t].status = status[req[t].house]

StatusHasRow ==
  /\ \A h \in Houses : rows[h] = {} => status[h] = HS!NOT_AUDITED
  /\ \A t \in Threads :
       req[t].phase \in {"edit", "status", "sent"} => rows[req[t].house] # {}

Duly == OnDuty /\ EditsCurrent /\ StatusHasRow

\* Thread t is not about to change the status of a rented or deleted house.
Open(t) == req[t].phase \in {"status", "sent"} => status[req[t].house] \notin HS!Terminal

\* Thread t does a step about house g that leaves it serving r.
Turn(t, g, r) ==
  /\ req' = [req EXCEPT ![t] = r]
  /\ \E k \in HS!Kinds : <<t, k, g>> \in Duties
  /\ \A h \in Houses : h # g => status'[h] = status[h] /\ rows'[h] = rows[h]
  /\ rows[g] \subseteq rows'[g]
  /\ rows'[g] = {} => status'[g] = HS!NOT_AUDITED
  /\ r.phase # "idle" => r.house = g
  /\ r.phase = "edit" => <<t, "edit", g>> \in Duties /\ r.status = status'[g]
  /\ r.phase \in {"edit", "status", "sent"} => rows'[g] # {}
  /\ Open(t) => /\ r.phase \in {"status", "sent"} => status'[g] \notin HS!Terminal
                /\ status[g] \in HS!Terminal => status'[g] = status[g]

LEMMA EditorsAreAlone == OneAdministrator => EditorsAlone
BY DEF OneAdministrator, EditorsAlone, HS!Kinds

LEMMA TurnKeepsDuly ==
  ASSUME EditorsAlone, Shared, Duly, NEW t \in Threads, NEW g \in Houses, NEW r \in HS!Request,
         Turn(t, g, r)
  PROVE  Duly'
<1>1. /\ req'[t] = r
      /\ \A u \in Threads : u # t => req'[u] = req[u]
      /\ \A u \in Threads : req[u].house \in Houses
  BY DEF Turn, Shared, SharedTypes, HS!Request
<1>2. OnDuty'
  <2> SUFFICES ASSUME NEW u \in Threads
               PROVE  /\ req'[u].phase # "idle" =>
                           \E k \in HS!Kinds : <<u, k, req'[u].house>> \in Duties
                      /\ req'[u].phase = "edit" => <<u, "edit", req'[u].house>> \in Duties
    BY DEF OnDuty
  <2>1. CASE u = t
    BY <1>1, <2>1 DEF Turn
  <2>2. CASE u # t
    BY <1>1, <2>2 DEF Duly, OnDuty
  <2> QED  BY <2>1, <2>2
<1>3. EditsCurrent'
  <2> SUFFICES ASSUME NEW u \in Threads, req'[u].phase = "edit"
               PROVE  req'[u].status = status'[req'[u].house]
    BY DEF EditsCurrent
  <2>1. CASE u = t
    BY <1>1, <2>1 DEF Turn
  <2>2. CASE u # t
    <3>1. req[u].phase = "edit" /\ <<u, "edit", req[u].house>> \in Duties
      BY <1>1, <2>2 DEF Duly, OnDuty
    <3>2. req[u].house # g
      BY <1>1, <2>2, <3>1 DEF Turn, EditorsAlone
    <3> QED  BY <1>1, <2>2, <3>1, <3>2 DEF Turn, Duly, EditsCurrent
  <2> QED  BY <2>1, <2>2
<1>4. StatusHasRow'
  <2>1. ASSUME NEW h \in Houses, rows'[h] = {} PROVE status'[h] = HS!NOT_AUDITED
    BY <2>1 DEF Turn, Duly, StatusHasRow
  <2>2. ASSUME NEW u \in Threads, req'[u].phase \in {"edit", "status", "sent"}
        PROVE  rows'[req'[u].house] # {}
    <3>1. CASE u = t
      BY <1>1, <2>2, <3>1 DEF Turn
    <3>2. CASE u # t
      <4>1. req'[u] = req[u] /\ rows[req[u].house] # {} /\ req[u].house \in Houses
        BY <1>1, <2>2, <3>2 DEF Duly, StatusHasRow
      <4>2. rows[req[u].house] \subseteq rows'[req[u].house]
        BY <4>1 DEF Turn
      <4> QED  BY <4>1, <4>2
    <3> QED  BY <3>1, <3>2
  <2> QED  BY <2>1, <2>2 DEF StatusHasRow
<1> QED  BY <1>2, <1>3, <1>4 DEF Duly

LEMMA ServiceTurn ==
  ASSUME Shared, Duly, NEW t \in Threads, HS!Arrive(t) \/ HS!Continue(t)
  PROVE  \E g \in Houses, r \in HS!Request : Turn(t, g, r)
<1>s. /\ rows \in [Houses -> SUBSET HS!Tables]
      /\ status \in [Houses -> HS!Statuses]
      /\ req \in [Threads -> HS!Request]
      /\ req[t].house \in Houses /\ req[t].status \in HS!Statuses
  BY DEF Shared, SharedTypes, HS!Request
<1>d. req[t].phase # "idle" => \E k \in HS!Kinds : <<t, k, req[t].house>> \in Duties
  BY DEF Duly, OnDuty
<1>e. req[t].phase \in {"edit", "status", "sent"} => rows[req[t].house] # {}
  BY DEF Duly, StatusHasRow
<1>n. \A h \in Houses : rows[h] = {} => status[h] = HS!NOT_AUDITED
  BY DEF Duly, StatusHasRow
<1>k. {"save", "edit", "status"} = HS!Kinds
  BY DEF HS!Kinds
\* A request ends without having written a status.
<1>f. ASSUME req[t].phase # "idle", HS!Finish(t), UNCHANGED <<rows, status>>
      PROVE  Turn(t, req[t].house, HS!NoRequest)
  BY <1>f, <1>d, <1>n, <1>s, NoRequestType DEF Turn, HS!Finish
<1>1. ASSUME NEW h \in Houses, HS!SaveHouse(t, h) PROVE \E r \in HS!Request : Turn(t, h, r)
  <2> DEFINE r == [phase |-> "detail", house |-> h, status |-> HS!NOT_AUDITED]
  <2>1. /\ rows[h] = {} /\ <<t, "save", h>> \in Duties /\ req' = [req EXCEPT ![t] = r]
        /\ rows' = [rows EXCEPT ![h] = {"house"}]
        /\ status' = [status EXCEPT ![h] = HS!NOT_AUDITED]
    BY <1>1 DEF HS!SaveHouse, HS!Start
  <2>2. r \in HS!Request /\ r.phase = "detail" /\ r.house = h
    BY DEF HS!Request, HS!Phases, HS!Statuses
  <2>3. status[h] = HS!NOT_AUDITED /\ UNCHANGED status
    BY <1>s, <1>n, <2>1
  <2>4. /\ rows'[h] = {"house"} /\ \A g \in Houses : g # h => rows'[g] = rows[g]
    BY <1>s, <2>1
  <2> HIDE DEF r
  <2> QED  BY <1>k, <2>1, <2>2, <2>3, <2>4 DEF Turn
<1>2. ASSUME HS!SavePart(t) PROVE \E r \in HS!Request : Turn(t, req[t].house, r)
  <2>1. /\ rows' = [rows EXCEPT ![req[t].house] = @ \cup {req[t].phase}]
        /\ req[t].phase \in {"detail", "picture", "tag"}
        /\ UNCHANGED status
    BY <1>2 DEF HS!SavePart
  <2>2. PICK r \in HS!Request :
          /\ req' = [req EXCEPT ![t] = r]
          /\ r.phase \in {"idle", "picture", "tag"}
          /\ r.phase # "idle" => r.house = req[t].house
    <3>1. CASE HS!Finish(t)
      BY <3>1, NoRequestType DEF HS!Finish
    <3>2. ASSUME NEW phase \in {"picture", "tag"}, req' = [req EXCEPT ![t].phase = phase]
          PROVE  \E r \in HS!Request :
                   /\ req' = [req EXCEPT ![t] = r]
                   /\ r.phase \in {"idle", "picture", "tag"}
                   /\ r.phase # "idle" => r.house = req[t].house
      <4> DEFINE r == [req[t] EXCEPT !.phase = phase]
      <4>1. r \in HS!Request /\ r.phase = phase /\ r.house = req[t].house
        BY <1>s DEF HS!Request, HS!Phases
      <4>2. req' = [req EXCEPT ![t] = r]
        BY <3>2
      <4> HIDE DEF r
      <4> QED  BY <4>1, <4>2
    <3> QED  BY <1>2, <3>1, <3>2 DEF HS!SavePart
  <2>3. /\ rows[req[t].house] \subseteq rows'[req[t].house] /\ rows'[req[t].house] # {}
        /\ \A h \in Houses : h # req[t].house => rows'[h] = rows[h]
    BY <1>s, <2>1
  <2> QED  BY <1>d, <2>1, <2>2, <2>3 DEF Turn
<1>3. ASSUME HS!CallFails(t) \/ HS!UpdateRefused(t) \/ HS!StatusRollback(t)
      PROVE  Turn(t, req[t].house, HS!NoRequest)
  BY <1>3, <1>f DEF HS!CallFails, HS!UpdateRefused, HS!StatusRollback, HS!dbVars, HS!Phases
<1>4. ASSUME NEW h \in Houses, HS!UpdateRead(t, h) PROVE \E r \in HS!Request : Turn(t, h, r)
  <2> DEFINE r == [phase |-> "edit", house |-> h, status |-> status[h]]
  <2>1. /\ rows[h] # {} /\ <<t, "edit", h>> \in Duties /\ req' = [req EXCEPT ![t] = r]
        /\ UNCHANGED <<rows, status>>
    BY <1>4 DEF HS!UpdateRead, HS!Start, HS!dbVars
  <2>2. r \in HS!Request /\ r.phase = "edit" /\ r.house = h /\ r.status = status[h]
    BY <1>s DEF HS!Request, HS!Phases
  <2> HIDE DEF r
  <2> QED  BY <1>k, <2>1, <2>2 DEF Turn
<1>5. ASSUME HS!UpdateCommit(t) PROVE Turn(t, req[t].house, HS!NoRequest)
  <2>1. PICK photos \in SUBSET {"picture"} :
          rows' = [rows EXCEPT ![req[t].house] = @ \cup photos]
    BY <1>5 DEF HS!UpdateCommit
  <2>2. /\ req[t].phase = "edit" /\ req' = [req EXCEPT ![t] = HS!NoRequest]
        /\ status' = [status EXCEPT ![req[t].house] = req[t].status]
    BY <1>5 DEF HS!UpdateCommit, HS!Finish
  <2>3. UNCHANGED status
    BY <1>s, <2>2 DEF Duly, EditsCurrent
  <2>4. /\ rows[req[t].house] \subseteq rows'[req[t].house]
        /\ rows'[req[t].house] # {}
        /\ \A h \in Houses : h # req[t].house => rows'[h] = rows[h]
    BY <1>s, <1>e, <2>1, <2>2
  <2> QED  BY <1>d, <2>2, <2>3, <2>4, NoRequestType DEF Turn
<1>6. ASSUME NEW h \in Houses, NEW operation \in HS!HouseOperations,
             HS!StatusRead(t, h, operation)
      PROVE  \E r \in HS!Request : Turn(t, h, r)
  <2> DEFINE r == [phase |-> "status", house |-> h, status |-> HS!TargetOf(operation)]
  <2>1. /\ rows[h] # {} /\ <<t, "status", h>> \in Duties /\ req' = [req EXCEPT ![t] = r]
        /\ status[h] \notin HS!Terminal
        /\ UNCHANGED <<rows, status>>
    BY <1>6 DEF HS!StatusRead, HS!Start, HS!dbVars
  <2>2. r \in HS!Request /\ r.phase = "status" /\ r.house = h
    BY TargetIsStatus DEF HS!Request, HS!Phases
  <2> HIDE DEF r
  <2> QED  BY <1>k, <2>1, <2>2 DEF Turn
<1>7. ASSUME HS!StatusWrite(t) PROVE \E r \in HS!Request : Turn(t, req[t].house, r)
  <2> DEFINE r == [req[t] EXCEPT !.phase = "sent"]
  <2>1. /\ req[t].phase = "status" /\ req' = [req EXCEPT ![t] = r]
        /\ UNCHANGED <<rows, status>>
    BY <1>7 DEF HS!StatusWrite, HS!dbVars
  <2>2. r \in HS!Request /\ r.phase = "sent" /\ r.house = req[t].house
    BY <1>s DEF HS!Request, HS!Phases
  <2> HIDE DEF r
  <2> QED  BY <1>d, <1>e, <2>1, <2>2 DEF Turn, Open
<1>8. ASSUME HS!StatusCommit(t) PROVE Turn(t, req[t].house, HS!NoRequest)
  <2>1. /\ req[t].phase = "sent" /\ req' = [req EXCEPT ![t] = HS!NoRequest]
        /\ status' = [status EXCEPT ![req[t].house] = req[t].status]
        /\ UNCHANGED rows
    BY <1>8 DEF HS!StatusCommit, HS!Finish
  <2>2. \A h \in Houses : h # req[t].house => status'[h] = status[h]
    BY <1>s, <2>1
  <2> QED  BY <1>d, <1>e, <2>1, <2>2, NoRequestType DEF Turn, Open
<1> QED
  BY <1>1, <1>2, <1>3, <1>4, <1>5, <1>6, <1>7, <1>8, <1>s, NoRequestType
     DEF HS!Arrive, HS!Continue

LEMMA DulyNext ==
  ASSUME EditorsAlone, Shared, Duly, [Next]_vars
  PROVE  Duly'
<1>1. CASE ServiceStep
  BY <1>1, ServiceTurn, TurnKeepsDuly DEF ServiceStep, HS!ServiceNext
<1>2. CASE UNCHANGED <<rows, status, req>>
  BY <1>2 DEF Duly, OnDuty, EditsCurrent, StatusHasRow
<1>3. CASE Crash
  <2>1. UNCHANGED <<rows, status>> /\ \A t \in Threads : req'[t].phase = "idle"
    BY <1>3, NoRequestType DEF Crash, SS!Crash, HS!Restart, HS!dbVars
  <2> QED  BY <2>1 DEF Duly, OnDuty, EditsCurrent, StatusHasRow
<1>4. ListenerStep \/ UNCHANGED vars => UNCHANGED <<rows, status, req>>
  BY DEF ListenerStep, SS!ListenerNext, serviceLocals, vars
<1> QED  BY <1>1, <1>2, <1>3, <1>4 DEF Next

LEMMA DulyInit == Init => Duly
<1> SUFFICES ASSUME Init PROVE Duly
  OBVIOUS
<1>1. /\ \A t \in Threads : req[t].phase = "idle"
      /\ \A h \in Houses : status[h] = HS!NOT_AUDITED
  BY NoRequestType DEF Init, HS!Init
<1> QED  BY <1>1 DEF Duly, OnDuty, EditsCurrent, StatusHasRow

\* What a step of any kind does to a rented or deleted house.
LEMMA TerminalSteps ==
  ASSUME OneAdministrator, Shared, Duly, \A t \in Threads : Open(t), [Next]_vars
  PROVE  /\ \A t \in Threads : Open(t)'
         /\ \A h \in Houses : status[h] \in HS!Terminal => status'[h] = status[h]
<1>t. \A u \in Threads : req[u].house \in Houses
  BY DEF Shared, SharedTypes, HS!Request
<1>1. CASE ServiceStep
  <2>1. PICK t \in Threads, g \in Houses, r \in HS!Request : Turn(t, g, r)
    BY <1>1, ServiceTurn DEF ServiceStep, HS!ServiceNext
  <2>2. req'[t] = r /\ \A u \in Threads : u # t => req'[u] = req[u]
    BY <2>1 DEF Turn, Shared, SharedTypes
  <2>3. ASSUME NEW u \in Threads PROVE Open(u)'
    <3>1. CASE u = t
      BY <2>1, <2>2, <3>1 DEF Turn, Open
    <3>2. CASE u # t /\ req[u].phase # "idle"
      <4>1. req[u].house # g
        BY <2>1, <3>2, <1>t DEF Turn, Duly, OnDuty, OneAdministrator
      <4> QED  BY <2>1, <2>2, <3>2, <4>1, <1>t DEF Turn, Open
    <3>3. CASE u # t /\ req[u].phase = "idle"
      BY <2>2, <3>3 DEF Open
    <3> QED  BY <3>1, <3>2, <3>3
  <2> QED  BY <2>1, <2>3 DEF Turn
<1>2. CASE UNCHANGED <<rows, status, req>>
  BY <1>2 DEF Open
<1>3. CASE Crash
  <2>1. UNCHANGED status /\ \A t \in Threads : req'[t].phase = "idle"
    BY <1>3, NoRequestType DEF Crash, SS!Crash, HS!Restart, HS!dbVars
  <2> QED  BY <2>1 DEF Open
<1>4. ListenerStep \/ UNCHANGED vars => UNCHANGED <<rows, status, req>>
  BY DEF ListenerStep, SS!ListenerNext, serviceLocals, vars
<1> QED  BY <1>1, <1>2, <1>3, <1>4 DEF Next

(***************************************************************************)
(* Where each house has a single administrator, a rented or deleted house  *)
(* stays so, whatever fails: the check of updateStatus is made on a        *)
(* snapshot (HouseService.java 294-308), but nobody else moves the row     *)
(* between the check and the write, and an edit writes back the status     *)
(* there is.                                                               *)
(***************************************************************************)
THEOREM TerminalIsFinal ==
  OneAdministrator => (Spec => TerminalStays)
<1> SUFFICES ASSUME OneAdministrator PROVE Spec => TerminalStays
  OBVIOUS
<1> DEFINE Inv == Shared /\ Duly /\ \A t \in Threads : Open(t)
           Step == \A h \in Houses : status[h] \in HS!Terminal => status'[h] = status[h]
<1>1. Init => Inv
  <2> SUFFICES ASSUME Init PROVE Inv
    OBVIOUS
  <2>1. \A t \in Threads : req[t].phase = "idle"
    BY NoRequestType DEF Init, HS!Init
  <2> QED  BY <2>1, InitShared, DulyInit DEF Open
<1>2. Inv /\ [Next]_vars => Inv' /\ Step
  <2> SUFFICES ASSUME Inv, [Next]_vars PROVE Inv' /\ Step
    OBVIOUS
  <2>1. Shared' /\ Duly'
    BY SharedNext, DulyNext, EditorsAreAlone
  <2>2. (\A t \in Threads : Open(t)') /\ Step
    BY TerminalSteps
  <2> QED  BY <2>1, <2>2
<1> HIDE DEF Inv
<1>3. Spec => [][Step]_HS!vars
  <2>1. Step => [Step]_HS!vars
    OBVIOUS
  <2> HIDE DEF Step
  <2> QED  BY <1>1, <1>2, <2>1, PTL DEF Spec
<1> QED  BY <1>3 DEF TerminalStays, HS!TerminalStays

-----------------------------------------------------------------------------
(***************************************************************************)
(* What has to go well: database calls and the look-up of LBS entries may  *)
(* fail, but no send, commit or other call of the listener, the process    *)
(* does not die and searches see every write; and since an edit writes     *)
(* back a status without a message (HouseService.java 218), the editor of  *)
(* a house is its only administrator.                                      *)
(***************************************************************************)
Calm ==
  /\ FaultKinds \cup Persistent \subseteq {"database", "lookup"}
  /\ RefreshLag = FALSE
  /\ EditorsAlone

LEMMA CalmMishaps ==
  ASSUME Calm, NEW kind, kind \notin {"database", "lookup"}
  PROVE  ~ HS!Mishap(kind) /\ ~ SS!Mishap(kind)
BY DEF Calm, HS!Mishap, SS!Mishap

-----------------------------------------------------------------------------
(***************************************************************************)
(* The house service: who holds a lock, and what the requests know.        *)
(***************************************************************************)
LocksTyped == lock \in [Houses -> Threads \cup {NoThread}]

LocksOwned ==
  \A t \in Threads, h \in Houses :
    lock[h] = t <=> req[t].phase = "sent" /\ req[t].house = h

Locks == LocksTyped /\ LocksOwned

ServiceInv == Locks /\ Duly

LEMMA NoThreadKnown == \A t \in Threads : t # NoThread
BY NoThreadAssumption

\* The status the last message about h stands for changes by a send only, in
\* which it is the status of the message.
Announces(h) ==
  \/ UNCHANGED topic /\ HS!Announced(h)' = HS!Announced(h)
  \/ \E g \in Houses, s \in HS!Statuses :
       /\ topic' = Append(topic, HS!Message(g, HS!OperationFor(s), 0))
       /\ HS!Announced(h)' = IF g = h THEN s ELSE HS!Announced(h)

\* Nothing of a request that is not about to commit is in Announced.
LEMMA AnnouncedElsewhere ==
  ASSUME Shared, ServiceInv, NEW t \in Threads, req[t].phase # "sent",
         NEW r, req' = [req EXCEPT ![t] = r], UNCHANGED <<lock, status>>,
         NEW h \in Houses
  PROVE  HS!Announced(h)' = HS!Announced(h)
<1>1. lock[h] # t
  BY DEF ServiceInv, Locks, LocksOwned
<1>2. req \in [Threads -> HS!Request]
  BY DEF Shared, SharedTypes
<1>3. lock[h] \in Threads \cup {NoThread}
  BY DEF ServiceInv, Locks, LocksTyped
<1>4. ASSUME lock[h] # NoThread PROVE req'[lock[h]] = req[lock[h]]
  BY <1>1, <1>2, <1>3, <1>4
<1> QED  BY <1>4 DEF HS!Announced, HS!Unlocked

\* Locks and statuses stay, and the request does not hold a lock.
LEMMA RequestMoves ==
  ASSUME Shared, ServiceInv, NEW t \in Threads, req[t].phase # "sent",
         NEW r \in HS!Request, r.phase # "sent",
         req' = [req EXCEPT ![t] = r], UNCHANGED <<lock, status, topic>>
  PROVE  Locks' /\ \A h \in Houses : Announces(h)
<1>1. req \in [Threads -> HS!Request]
  BY DEF Shared, SharedTypes
<1>2. req'[t] = r /\ \A u \in Threads : u # t => req'[u] = req[u]
  BY <1>1
<1>3. LocksTyped' /\ LocksOwned'
  BY <1>2 DEF ServiceInv, Locks, LocksTyped, LocksOwned
<1>4. ASSUME NEW h \in Houses PROVE Announces(h)
  BY AnnouncedElsewhere DEF Announces
<1> QED  BY <1>3, <1>4 DEF Locks

LEMMA WriteAnnounces ==
  ASSUME Calm, Shared, ServiceInv, NEW t \in Threads, HS!StatusWrite(t)
  PROVE  Locks' /\ \A h \in Houses : Announces(h)
<1> DEFINE g == req[t].house
           s == req[t].status
<1>1. /\ req \in [Threads -> HS!Request] /\ g \in Houses /\ s \in HS!Statuses
      /\ \A u \in Threads : req[u].house \in Houses
  BY DEF Shared, SharedTypes, HS!Request
<1>2. /\ req[t].phase = "status" /\ lock[g] = NoThread
      /\ lock' = [lock EXCEPT ![g] = t]
      /\ req' = [req EXCEPT ![t].phase = "sent"]
      /\ UNCHANGED <<rows, status>>
  BY DEF HS!StatusWrite, HS!Unlocked, HS!dbVars
<1>3. topic' = Append(topic, HS!Message(g, HS!OperationFor(s), 0))
  BY CalmMishaps DEF HS!StatusWrite
<1>4. /\ lock \in [Houses -> Threads \cup {NoThread}]
      /\ \A u \in Threads, h \in Houses :
           lock[h] = u <=> req[u].phase = "sent" /\ req[u].house = h
  BY DEF ServiceInv, Locks, LocksTyped, LocksOwned
<1> HIDE DEF g, s
<1>5. /\ req'[t].phase = "sent" /\ req'[t].house = g /\ req'[t].status = s
      /\ \A u \in Threads : u # t => req'[u] = req[u]
  BY <1>1, <1>2 DEF g, s, HS!Request
<1>6. /\ lock'[g] = t
      /\ \A h \in Houses : h # g => lock'[h] = lock[h]
  BY <1>1, <1>2, <1>4
<1>7. LocksTyped'
  BY <1>1, <1>2, <1>4 DEF LocksTyped
<1>8. LocksOwned'
  <2> SUFFICES ASSUME NEW u \in Threads, NEW h \in Houses
               PROVE  lock'[h] = u <=> req'[u].phase = "sent" /\ req'[u].house = h
    BY DEF LocksOwned
  <2>1. t # NoThread /\ u # NoThread
    BY NoThreadKnown
  <2>2. CASE u = t
    BY <1>2, <1>4, <1>5, <1>6, <2>1, <2>2
  <2>3. CASE u # t
    BY <1>2, <1>4, <1>5, <1>6, <2>1, <2>3
  <2> QED  BY <2>2, <2>3
<1>9. ASSUME NEW h \in Houses PROVE Announces(h)
  <2>t. t # NoThread
    BY NoThreadKnown
  <2>1. CASE h = g
    <3>1. HS!Announced(h)' = s
      BY <1>5, <1>6, <2>1, <2>t DEF HS!Announced, HS!Unlocked
    <3> QED  BY <1>1, <1>3, <2>1, <3>1 DEF Announces, g
  <2>2. CASE h # g
    <3>1. lock'[h] = lock[h] /\ lock[h] # t
      BY <1>2, <1>4, <1>6, <2>2
    <3>2. ASSUME lock[h] # NoThread PROVE req'[lock[h]] = req[lock[h]]
      BY <1>4, <1>5, <3>1, <3>2
    <3>3. HS!Announced(h)' = HS!Announced(h)
      BY <1>2, <3>1, <3>2 DEF HS!Announced, HS!Unlocked
    <3> QED  BY <1>1, <1>3, <2>2, <3>3 DEF Announces
  <2> QED  BY <2>1, <2>2
<1> QED  BY <1>7, <1>8, <1>9 DEF Locks

LEMMA CommitAnnounces ==
  ASSUME Shared, ServiceInv, NEW t \in Threads, HS!StatusCommit(t)
  PROVE  Locks' /\ \A h \in Houses : Announces(h)
<1> DEFINE g == req[t].house
           s == req[t].status
<1>1. /\ req \in [Threads -> HS!Request] /\ g \in Houses /\ s \in HS!Statuses
      /\ status \in [Houses -> HS!Statuses]
  BY DEF Shared, SharedTypes, HS!Request
<1>2. /\ req[t].phase = "sent"
      /\ status' = [status EXCEPT ![g] = s]
      /\ lock' = [lock EXCEPT ![g] = NoThread]
      /\ req' = [req EXCEPT ![t] = HS!NoRequest]
      /\ UNCHANGED <<rows, topic>>
  BY DEF HS!StatusCommit, HS!Finish
<1>3. /\ lock \in [Houses -> Threads \cup {NoThread}]
      /\ \A u \in Threads, h \in Houses :
           lock[h] = u <=> req[u].phase = "sent" /\ req[u].house = h
  BY DEF ServiceInv, Locks, LocksTyped, LocksOwned
<1>4. lock[g] = t
  BY <1>1, <1>2, <1>3
<1>s. s = req[t].status
  OBVIOUS
<1>g. g = req[t].house
  OBVIOUS
<1> HIDE DEF g, s
<1>5. /\ req'[t].phase = "idle"
      /\ \A u \in Threads : u # t => req'[u] = req[u]
  BY <1>1, <1>2, NoRequestType
<1>6. /\ lock'[g] = NoThread
      /\ status'[g] = s
      /\ \A h \in Houses : h # g => lock'[h] = lock[h] /\ status'[h] = status[h]
  BY <1>1, <1>2, <1>3
<1>7. LocksTyped'
  BY <1>1, <1>2, <1>3 DEF LocksTyped
<1>8. LocksOwned'
  <2> SUFFICES ASSUME NEW u \in Threads, NEW h \in Houses
               PROVE  lock'[h] = u <=> req'[u].phase = "sent" /\ req'[u].house = h
    BY DEF LocksOwned
  <2>1. u # NoThread
    BY NoThreadKnown
  <2>2. CASE u = t
    BY <1>2, <1>3, <1>g, <1>5, <1>6, <2>1, <2>2
  <2>3. CASE u # t
    BY <1>3, <1>4, <1>5, <1>6, <2>1, <2>3
  <2> QED  BY <2>2, <2>3
<1>9. ASSUME NEW h \in Houses PROVE Announces(h)
  <2>t. t # NoThread
    BY NoThreadKnown
  <2>1. CASE h = g
    BY <1>2, <1>s, <1>4, <1>6, <2>1, <2>t DEF Announces, HS!Announced, HS!Unlocked
  <2>2. CASE h # g
    <3>1. lock'[h] = lock[h] /\ lock[h] # t
      BY <1>3, <1>g, <1>6, <2>2
    <3>2. ASSUME lock[h] # NoThread PROVE req'[lock[h]] = req[lock[h]]
      BY <1>3, <1>5, <3>1, <3>2
    <3> QED  BY <1>2, <1>6, <2>2, <3>1, <3>2 DEF Announces, HS!Announced, HS!Unlocked
  <2> QED  BY <2>1, <2>2
<1> QED  BY <1>7, <1>8, <1>9 DEF Locks

LEMMA ServiceAnnounces ==
  ASSUME Calm, Shared, ServiceInv, NEW t \in Threads, HS!Arrive(t) \/ HS!Continue(t)
  PROVE  ServiceInv' /\ \A h \in Houses : Announces(h)
<1> DEFINE Good == Locks' /\ \A h \in Houses : Announces(h)
<1>s. /\ status \in [Houses -> HS!Statuses]
      /\ req \in [Threads -> HS!Request]
      /\ req[t] \in HS!Request
      /\ req[t].house \in Houses
  BY DEF Shared, SharedTypes, HS!Request
<1>d. Duly'
  <2>1. \E g \in Houses, r \in HS!Request : Turn(t, g, r)
    BY ServiceTurn DEF ServiceInv
  <2> QED  BY <2>1, TurnKeepsDuly DEF Calm, ServiceInv
<1>f. ASSUME HS!Finish(t), req[t].phase # "sent", UNCHANGED <<lock, status, topic>>
      PROVE  Good
  BY <1>f, NoRequestType, RequestMoves DEF HS!Finish
\* A request starts.
<1>r. ASSUME NEW kind, NEW h \in Houses, NEW phase \in HS!Phases \ {"sent"},
             NEW s \in HS!Statuses, HS!Start(t, kind, h, phase, s),
             UNCHANGED <<lock, status, topic>>
      PROVE  Good
  <2> DEFINE r == [phase |-> phase, house |-> h, status |-> s]
  <2>1. req[t].phase = "idle" /\ req' = [req EXCEPT ![t] = r]
    BY <1>r DEF HS!Start
  <2>2. r \in HS!Request /\ r.phase # "sent"
    BY <1>r DEF HS!Request
  <2> HIDE DEF r
  <2> QED  BY <1>r, <2>1, <2>2, RequestMoves
<1>1. ASSUME NEW h \in Houses, HS!SaveHouse(t, h) PROVE Good
  <2>1. /\ rows[h] = {} /\ HS!Start(t, "save", h, "detail", HS!NOT_AUDITED)
        /\ status' = [status EXCEPT ![h] = HS!NOT_AUDITED]
        /\ UNCHANGED <<lock, topic>>
    BY <1>1 DEF HS!SaveHouse
  <2>2. status[h] = HS!NOT_AUDITED
    BY <2>1 DEF ServiceInv, Duly, StatusHasRow
  <2>3. UNCHANGED status
    BY <1>s, <2>1, <2>2
  <2> QED  BY <1>r, <2>1, <2>3 DEF HS!Phases, HS!Statuses
<1>2. ASSUME HS!SavePart(t) PROVE Good
  <2>1. /\ req[t].phase \in {"detail", "picture", "tag"}
        /\ UNCHANGED <<lock, status, topic>>
    BY <1>2 DEF HS!SavePart
  <2>2. CASE HS!Finish(t)
    BY <1>f, <2>1, <2>2
  <2>3. ASSUME NEW phase \in {"picture", "tag"}, req' = [req EXCEPT ![t].phase = phase]
        PROVE  Good
    <3> DEFINE r == [req[t] EXCEPT !.phase = phase]
    <3>1. r \in HS!Request /\ r.phase = phase
      BY <1>s DEF HS!Request, HS!Phases
    <3>2. req' = [req EXCEPT ![t] = r]
      BY <2>3
    <3> HIDE DEF r
    <3> QED  BY <2>1, <3>1, <3>2, RequestMoves
  <2> QED  BY <1>2, <2>2, <2>3 DEF HS!SavePart
<1>3. ASSUME HS!CallFails(t) \/ HS!UpdateRefused(t) PROVE Good
  BY <1>3, <1>f DEF HS!CallFails, HS!UpdateRefused, HS!dbVars
<1>4. ASSUME NEW h \in Houses, HS!UpdateRead(t, h) PROVE Good
  BY <1>4, <1>r, <1>s DEF HS!UpdateRead, HS!dbVars, HS!Phases
\* An edit writes back the status there is.
<1>5. ASSUME HS!UpdateCommit(t) PROVE Good
  <2>1. /\ req[t].phase = "edit" /\ HS!Finish(t) /\ UNCHANGED <<lock, topic>>
        /\ status' = [status EXCEPT ![req[t].house] = req[t].status]
    BY <1>5 DEF HS!UpdateCommit
  <2>2. UNCHANGED status
    BY <1>s, <2>1 DEF ServiceInv, Duly, EditsCurrent
  <2> QED  BY <1>f, <2>1, <2>2
<1>6. ASSUME NEW h \in Houses, NEW operation \in HS!HouseOperations,
             HS!StatusRead(t, h, operation)
      PROVE  Good
  BY <1>6, <1>r, TargetIsStatus DEF HS!StatusRead, HS!dbVars, HS!Phases
<1>7. ~ HS!StatusRollback(t)
  BY CalmMishaps DEF HS!StatusRollback
<1> QED
  BY <1>d, <1>1, <1>2, <1>3, <1>4, <1>5, <1>6, <1>7, WriteAnnounces, CommitAnnounces
     DEF HS!Arrive, HS!Continue, ServiceInv

-----------------------------------------------------------------------------
(***************************************************************************)
(* The listener: its types, and that it finds one document at most, so that*)
(* no INDEX is ever sent again (SearchService.java 165-179).               *)
(***************************************************************************)
USE DEF SS!INDEX, SS!REMOVE, SS!MAX_RETRY

ListenerTypes ==
  /\ topic \in Seq(SS!HouseIndexMessage)
  /\ position \in 0 .. Len(topic)
  /\ handler \in SS!Handler
  /\ live \subseteq SS!Document

\* The phases of an INDEX message.
Indexing == {"house", "detail", "geocode", "search", "write", "upload"}

AtMostOne == \A d, e \in live : d.houseId = e.houseId => d = e

FoundIsCurrent ==
  handler.phase = "write" =>
    handler.found = {d.id : d \in SS!Of(live, handler.houseId)}

IndexingGoesWell ==
  /\ handler.phase # "create"
  /\ handler.phase \in Indexing => handler.ok

ListenerInv == ListenerTypes /\ AtMostOne /\ FoundIsCurrent /\ IndexingGoesWell

\* House h is in the index, or about to be.
MayBeIndexed(h) == Indexed(h) \/ (handler.phase \in Indexing /\ handler.houseId = h)

\* A step of the handler indexes no house but the one it works on, removes the
\* one it is to remove, and sends nothing but a REMOVE again.
Moves ==
  /\ ListenerInv'
  /\ position' = position
  /\ \/ UNCHANGED topic
     \/ \E m \in SS!HouseIndexMessage :
          m.operation = SS!REMOVE /\ topic' = Append(topic, m)
  /\ \A h \in Houses : MayBeIndexed(h)' => MayBeIndexed(h)
  /\ \A h \in Houses :
       handler.phase = "delete" /\ handler.houseId = h => ~ MayBeIndexed(h)'

LEMMA NoMessageType == SS!NoMessage \in SS!Handler /\ SS!NoMessage.phase = "idle"
<1>1. (CHOOSE h \in Houses : TRUE) \in Houses
  BY HousesAssumption
<1> QED  BY <1>1 DEF SS!NoMessage, SS!Handler, SS!HandlerPhases

LEMMA SameCardinality == ASSUME NEW S PROVE SS!Cardinality(S) = Cardinality(S)
BY DEF SS!Cardinality, Cardinality

LEMMA FoundOneAtMost ==
  ASSUME Calm, ListenerInv, handler.phase = "write"
  PROVE  SS!Cardinality(handler.found) \in {0, 1}
<1> DEFINE docs == SS!Of(live, handler.houseId)
<1>1. handler.found = {d.id : d \in docs}
  BY DEF ListenerInv, FoundIsCurrent
<1>2. \A d, e \in docs : d = e
  BY DEF ListenerInv, AtMostOne, SS!Of
<1> HIDE DEF docs
<1>3. CASE docs = {}
  <2>1. handler.found = {}
    BY <1>1, <1>3
  <2>2. Cardinality({}) = 0
    BY FS_EmptySet
  <2> QED  BY <2>1, <2>2, SameCardinality
<1>4. CASE docs # {}
  <2>1. PICK d : d \in docs
    BY <1>4
  <2>2. handler.found = {d.id}
    BY <1>1, <1>2, <2>1
  <2>3. Cardinality({d.id}) = 1
    BY FS_Singleton
  <2> QED  BY <2>2, <2>3, SameCardinality
<1> QED  BY <1>3, <1>4

LEMMA HandleMoves ==
  ASSUME Calm, Shared, ListenerInv, SS!Handle
  PROVE  Moves
<1>h. /\ handler \in SS!Handler
      /\ handler.houseId \in Houses /\ handler.retry \in 0 .. 3
      /\ handler.hrev \in Nat /\ handler.drev \in Nat
      /\ handler.found \subseteq DocIds /\ handler.ok \in BOOLEAN
  BY DEF ListenerInv, ListenerTypes, SS!Handler
<1>l. /\ topic \in Seq(SS!HouseIndexMessage) /\ position \in 0 .. Len(topic)
      /\ live \subseteq SS!Document
  BY DEF ListenerInv, ListenerTypes
<1>i. AtMostOne /\ FoundIsCurrent /\ IndexingGoesWell
  BY DEF ListenerInv
<1>r. rev[handler.houseId] \in Nat
  BY <1>h DEF Shared, SharedTypes
<1>m. ~ SS!Mishap("geocode") /\ ~ SS!Mishap("lbs") /\ ~ SS!Mishap("send")
        /\ ~ SS!Mishap("exception")
  BY CalmMishaps
<1>v. SS!View = live /\ \A docs : SS!Write(docs) => live' = docs
  BY DEF Calm, SS!View, SS!Write
\* A message is done with, and was not about to be removed.
<1>done. ASSUME SS!Done, handler.phase # "delete", UNCHANGED <<live, position>>,
                \/ UNCHANGED topic
                \/ \E m \in SS!HouseIndexMessage :
                     m.operation = SS!REMOVE /\ topic' = Append(topic, m)
         PROVE  Moves
  <2>1. handler' \in SS!Handler /\ handler'.phase = "idle"
    BY <1>done, NoMessageType DEF SS!Done
  <2>2. topic' \in Seq(SS!HouseIndexMessage) /\ position' \in 0 .. Len(topic')
    BY <1>l, <1>done
  <2>3. ListenerInv'
    BY <1>done, <1>i, <1>l, <2>1, <2>2
       DEF ListenerInv, ListenerTypes, AtMostOne, FoundIsCurrent, IndexingGoesWell, Indexing
  <2>4. \A h \in Houses : MayBeIndexed(h)' => MayBeIndexed(h)
    BY <1>done, <2>1 DEF MayBeIndexed, Indexed, SS!Of, Indexing
  <2>5. \A h \in Houses : handler.phase = "delete" /\ handler.houseId = h => ~ MayBeIndexed(h)'
    BY <1>done
  <2> QED  BY <1>done, <2>3, <2>4, <2>5 DEF Moves
\* An INDEX message goes on, to a phase other than write.
<1>on. ASSUME handler' \in SS!Handler, handler'.houseId = handler.houseId,
              handler'.ok = handler.ok,
              handler.phase \in Indexing, handler'.phase \in Indexing \ {"write"},
              live' \subseteq SS!Document, AtMostOne',
              \A h \in Houses \ {handler.houseId} : Indexed(h)' => Indexed(h),
              UNCHANGED <<topic, position>>
       PROVE  Moves
  <2>1. ListenerInv'
    BY <1>on, <1>i, <1>l
       DEF ListenerInv, ListenerTypes, FoundIsCurrent, IndexingGoesWell, Indexing
  <2>2. \A h \in Houses : MayBeIndexed(h)' => MayBeIndexed(h)
    BY <1>on DEF MayBeIndexed
  <2>3. handler.phase # "delete"
    BY <1>on DEF Indexing
  <2> QED  BY <1>on, <2>1, <2>2, <2>3 DEF Moves
<1>same. ASSUME UNCHANGED live
         PROVE  /\ live' \subseteq SS!Document /\ AtMostOne'
                /\ \A h \in Houses : Indexed(h)' => Indexed(h)
  BY <1>same, <1>i, <1>l DEF AtMostOne, Indexed, SS!Of
<1>1. CASE SS!LoadHouse
  <2>1. handler.phase = "house" /\ UNCHANGED <<topic, position, live>>
    BY <1>1 DEF SS!LoadHouse, SS!At, SS!indexVars
  <2>2. CASE SS!Done
    BY <1>done, <2>1, <2>2
  <2>3. CASE handler' = [handler EXCEPT !.phase = "detail", !.hrev = rev[handler.houseId]]
    <3>1. /\ handler' \in SS!Handler /\ handler'.houseId = handler.houseId
          /\ handler'.ok = handler.ok /\ handler'.phase = "detail"
      BY <1>h, <1>r, <2>3 DEF SS!Handler, SS!HandlerPhases
    <3> QED  BY <1>on, <1>same, <2>1, <3>1 DEF Indexing
  <2> QED  BY <1>1, <2>2, <2>3 DEF SS!LoadHouse
<1>2. CASE SS!LoadDetail
  <2>1. handler.phase = "detail" /\ UNCHANGED <<topic, position, live>>
    BY <1>2 DEF SS!LoadDetail, SS!At, SS!indexVars
  <2>2. CASE SS!Done
    BY <1>done, <2>1, <2>2
  <2>3. CASE handler' = [handler EXCEPT !.phase = "geocode", !.drev = rev[handler.houseId]]
    <3>1. /\ handler' \in SS!Handler /\ handler'.houseId = handler.houseId
          /\ handler'.ok = handler.ok /\ handler'.phase = "geocode"
      BY <1>h, <1>r, <2>3 DEF SS!Handler, SS!HandlerPhases
    <3> QED  BY <1>on, <1>same, <2>1, <3>1 DEF Indexing
  <2> QED  BY <1>2, <2>2, <2>3 DEF SS!LoadDetail
<1>goto. ASSUME NEW phase \in SS!HandlerPhases, SS!Goto(phase)
         PROVE  /\ handler' \in SS!Handler /\ handler'.houseId = handler.houseId
                /\ handler'.ok = handler.ok /\ handler'.phase = phase
  BY <1>h, <1>goto DEF SS!Goto, SS!Handler
<1>3. CASE SS!Geocode
  <2>1. /\ handler.phase = "geocode" /\ SS!Goto("search")
        /\ UNCHANGED <<topic, position, live>>
    BY <1>3, <1>m DEF SS!Geocode, SS!At, SS!indexVars
  <2>2. /\ handler' \in SS!Handler /\ handler'.houseId = handler.houseId
        /\ handler'.ok = handler.ok /\ handler'.phase = "search"
    BY <1>goto, <2>1 DEF SS!HandlerPhases
  <2> QED  BY <1>on, <1>same, <2>1, <2>2 DEF Indexing
<1>4. CASE SS!Search
  <2> DEFINE ids == {d.id : d \in SS!Of(live, handler.houseId)}
  <2>1. /\ handler.phase = "search" /\ UNCHANGED <<topic, position, live>>
        /\ handler' = [handler EXCEPT !.phase = "write", !.found = ids]
    BY <1>4, <1>v DEF SS!Search, SS!At, SS!indexVars
  <2>2. ids \subseteq DocIds
    BY <1>l DEF SS!Of, SS!Document
  <2>3. /\ handler' \in SS!Handler /\ handler'.houseId = handler.houseId
        /\ handler'.ok = handler.ok /\ handler'.phase = "write" /\ handler'.found = ids
    <3> HIDE DEF ids
    <3> QED  BY <1>h, <2>1, <2>2 DEF SS!Handler, SS!HandlerPhases
  <2>4. FoundIsCurrent'
    BY <2>1, <2>3 DEF FoundIsCurrent, SS!Of
  <2>5. handler.ok
    BY <1>i, <2>1 DEF IndexingGoesWell, Indexing
  <2>6. ListenerInv'
    BY <1>l, <1>same, <2>1, <2>3, <2>4, <2>5
       DEF ListenerInv, ListenerTypes, IndexingGoesWell
  <2>7. \A h \in Houses : MayBeIndexed(h)' => MayBeIndexed(h)
    BY <1>same, <2>1, <2>3 DEF MayBeIndexed, Indexing
  <2> QED  BY <2>1, <2>6, <2>7 DEF Moves
\* A document of the house in work is written, the only one of it.
<1>write. ASSUME NEW id \in DocIds, NEW rest \in SUBSET live,
                 live' = rest \cup {SS!Template(id)},
                 SS!Of(rest, handler.houseId) = {},
                 handler.phase = "write", SS!Goto("upload"),
                 UNCHANGED <<topic, position>>
          PROVE  Moves
  <2>1. SS!Template(id) \in SS!Document /\ SS!Template(id).houseId = handler.houseId
    BY <1>h DEF SS!Template, SS!Document
  <2>2. live' \subseteq SS!Document
    BY <1>l, <1>write, <2>1
  <2>3. AtMostOne'
    BY <1>i, <1>write, <2>1 DEF AtMostOne, SS!Of
  <2>4. \A h \in Houses \ {handler.houseId} : Indexed(h)' => Indexed(h)
    BY <1>write, <2>1 DEF Indexed, SS!Of
  <2>5. /\ handler' \in SS!Handler /\ handler'.houseId = handler.houseId
        /\ handler'.ok = handler.ok /\ handler'.phase = "upload"
    BY <1>goto, <1>write DEF SS!HandlerPhases
  <2> QED  BY <1>on, <1>write, <2>2, <2>3, <2>4, <2>5 DEF Indexing
<1>5. CASE SS!WriteNone
  <2> DEFINE id == CHOOSE i \in DocIds \ SS!UsedIds : TRUE
  <2>1. /\ handler.phase = "write" /\ handler.found = {} /\ SS!Goto("upload")
        /\ DocIds \ SS!UsedIds # {} /\ UNCHANGED <<topic, position>>
    BY <1>5 DEF SS!WriteNone, SS!At
  <2>2. live' = live \cup {SS!Template(id)}
    BY <1>5, <1>v DEF SS!WriteNone, SS!NewDocument
  <2>3. id \in DocIds
    BY <2>1
  <2>4. SS!Of(live, handler.houseId) = {}
    BY <1>i, <2>1 DEF FoundIsCurrent
  <2> HIDE DEF id
  <2> QED  BY <1>write, <2>1, <2>2, <2>3, <2>4
<1>6. CASE SS!WriteOne
  <2>1. PICK id \in DocIds :
          /\ handler.found = {id}
          /\ \/ /\ SS!Write({d \in live : d.id # id} \cup {SS!Template(id)})
                /\ SS!Goto("upload")
             \/ SS!Done /\ UNCHANGED SS!indexVars
    BY <1>6 DEF SS!WriteOne
  <2>2. handler.phase = "write" /\ UNCHANGED <<topic, position>>
    BY <1>6 DEF SS!WriteOne, SS!At
  <2>3. CASE SS!Done /\ UNCHANGED SS!indexVars
    BY <1>done, <2>2, <2>3 DEF SS!indexVars
  <2>4. CASE /\ SS!Write({d \in live : d.id # id} \cup {SS!Template(id)})
             /\ SS!Goto("upload")
    <3> DEFINE rest == {d \in live : d.id # id}
    <3>1. live' = rest \cup {SS!Template(id)} /\ rest \in SUBSET live
      BY <1>v, <2>4
    <3>2. \A d \in live : d.houseId = handler.houseId => d.id = id
      BY <1>i, <2>1, <2>2 DEF FoundIsCurrent, SS!Of
    <3>3. SS!Of(rest, handler.houseId) = {}
      BY <3>2 DEF SS!Of
    <3> HIDE DEF rest
    <3> QED  BY <1>write, <2>2, <2>4, <3>1, <3>3
  <2> QED  BY <2>1, <2>3, <2>4
<1>7. ~ SS!WriteMany
  <2>1. SS!WriteMany => handler.phase = "write" /\ SS!Cardinality(handler.found) > 1
    BY DEF SS!WriteMany, SS!At
  <2>2. handler.phase = "write" => SS!Cardinality(handler.found) \in {0, 1}
    BY FoundOneAtMost
  <2> QED  BY <2>1, <2>2
<1>8. ~ SS!CreateAfterDelete
  BY <1>i DEF SS!CreateAfterDelete, SS!At, IndexingGoesWell
<1>9. CASE SS!Upload
  <2>1. handler.phase = "upload" /\ SS!Done /\ UNCHANGED <<position, live>>
    BY <1>9 DEF SS!Upload, SS!At, SS!indexVars
  <2>2. handler.ok
    BY <1>i, <2>1 DEF IndexingGoesWell, Indexing
  <2>3. UNCHANGED topic
    BY <1>9, <1>m, <2>2 DEF SS!Upload
  <2> QED  BY <1>done, <2>1, <2>3
<1>10. CASE SS!Delete
  <2> DEFINE some == SS!Deleted(handler.houseId) # {}
  <2>1. /\ handler.phase = "delete" /\ UNCHANGED <<topic, position>>
        /\ live' = live \ SS!Deleted(handler.houseId)
        /\ handler' = [handler EXCEPT !.phase = "unload", !.ok = some]
    BY <1>10, <1>v DEF SS!Delete, SS!At
  <2>2. handler' \in SS!Handler /\ handler'.phase = "unload"
    <3>1. some \in BOOLEAN
      OBVIOUS
    <3> HIDE DEF some
    <3> QED  BY <1>h, <2>1, <3>1 DEF SS!Handler, SS!HandlerPhases
  <2>3. live' \subseteq live /\ SS!Of(live', handler.houseId) = {}
    BY <1>v, <2>1 DEF SS!Deleted, SS!Of
  <2>4. ListenerInv'
    BY <1>i, <1>l, <2>1, <2>2, <2>3
       DEF ListenerInv, ListenerTypes, AtMostOne, FoundIsCurrent, IndexingGoesWell, Indexing
  <2>5. \A h \in Houses : MayBeIndexed(h)' => Indexed(h)' /\ Indexed(h)
    BY <2>2, <2>3 DEF MayBeIndexed, Indexing, Indexed, SS!Of
  <2>7. \A h \in Houses : MayBeIndexed(h)' => MayBeIndexed(h)
    BY <2>5 DEF MayBeIndexed
  <2>8. \A h \in Houses : handler.houseId = h => ~ MayBeIndexed(h)'
    BY <2>2, <2>3 DEF MayBeIndexed, Indexing, Indexed, SS!Of
  <2> QED  BY <2>1, <2>4, <2>7, <2>8 DEF Moves
<1>11. CASE SS!Unload
  <2>1. handler.phase = "unload" /\ SS!Done /\ UNCHANGED <<position, live>>
    BY <1>11 DEF SS!Unload, SS!At, SS!indexVars
  <2>2. UNCHANGED topic \/ SS!Requeue(SS!REMOVE)
    BY <1>11, <1>m DEF SS!Unload, SS!Retry
  <2>3. \/ UNCHANGED topic
        \/ \E m \in SS!HouseIndexMessage :
             m.operation = SS!REMOVE /\ topic' = Append(topic, m)
    <3> DEFINE m == SS!Message(handler.houseId, SS!REMOVE, handler.retry + 1)
    <3>1. CASE handler.retry + 1 > 3
      BY <2>2, <3>1 DEF SS!Requeue
    <3>2. CASE handler.retry + 1 <= 3
      <4>1. UNCHANGED topic \/ topic' = Append(topic, m)
        BY <1>h, <2>2, <3>2 DEF SS!Requeue
      <4>2. m \in SS!HouseIndexMessage /\ m.operation = SS!REMOVE
        BY <1>h, <3>2 DEF SS!Message, SS!HouseIndexMessage
      <4> HIDE DEF m
      <4> QED  BY <4>1, <4>2
    <3> QED  BY <1>h, <3>1, <3>2
  <2> QED  BY <1>done, <2>1, <2>3
<1>12. ~ SS!HandlerThrows
  BY <1>m DEF SS!HandlerThrows
<1> QED
  BY <1>1, <1>2, <1>3, <1>4, <1>5, <1>6, <1>7, <1>8, <1>9, <1>10, <1>11, <1>12
     DEF SS!Handle

-----------------------------------------------------------------------------
(***************************************************************************)
(* The inductive invariant: a house that is not listed, or is about to be  *)
(* committed as not listed, stays out of the index or is about to leave    *)
(* it, and behind each INDEX message that is pending for it comes a REMOVE.*)
(***************************************************************************)
RemovedAfter(h, i) ==
  \E k \in 1 .. Len(topic) :
    i < k /\ topic[k].houseId = h /\ topic[k].operation = SS!REMOVE

AboutToGo(h) ==
  (handler.phase = "delete" /\ handler.houseId = h) \/ RemovedAfter(h, position)

StaysOut(h) ==
  /\ MayBeIndexed(h) => AboutToGo(h)
  /\ \A i \in 1 .. Len(topic) :
       position < i /\ topic[i].houseId = h /\ topic[i].operation = SS!INDEX =>
         RemovedAfter(h, i)

UnlistedInv == \A h \in Houses : HS!Announced(h) # HS!PASSES => StaysOut(h)

LEMMA AppendKeepsRemoves ==
  ASSUME ListenerInv, NEW h \in Houses, NEW i \in Nat, RemovedAfter(h, i),
         \/ UNCHANGED topic
         \/ \E m \in SS!HouseIndexMessage : topic' = Append(topic, m)
  PROVE  \E k \in 1 .. Len(topic') :
           i < k /\ topic'[k].houseId = h /\ topic'[k].operation = SS!REMOVE
<1>1. topic \in Seq(SS!HouseIndexMessage)
  BY DEF ListenerInv, ListenerTypes
<1>2. PICK k \in 1 .. Len(topic) :
        i < k /\ topic[k].houseId = h /\ topic[k].operation = SS!REMOVE
  BY DEF RemovedAfter
<1>3. k \in 1 .. Len(topic') /\ topic'[k] = topic[k]
  BY <1>1
<1> QED  BY <1>2, <1>3

LEMMA StaysOutKept ==
  ASSUME ListenerInv, NEW h \in Houses, StaysOut(h), position' = position,
         \/ UNCHANGED topic
         \/ \E m \in SS!HouseIndexMessage :
              ~ (m.houseId = h /\ m.operation = SS!INDEX) /\ topic' = Append(topic, m),
         MayBeIndexed(h)' => MayBeIndexed(h),
         handler.phase = "delete" /\ handler.houseId = h =>
           handler' = handler \/ ~ MayBeIndexed(h)'
  PROVE  StaysOut(h)'
<1>1. topic \in Seq(SS!HouseIndexMessage) /\ position \in 0 .. Len(topic)
  BY DEF ListenerInv, ListenerTypes
<1>2. \/ UNCHANGED topic
      \/ \E m \in SS!HouseIndexMessage : topic' = Append(topic, m)
  OBVIOUS
<1>3. ASSUME NEW i \in Nat, RemovedAfter(h, i)
      PROVE  \E k \in 1 .. Len(topic') :
               i < k /\ topic'[k].houseId = h /\ topic'[k].operation = SS!REMOVE
  BY <1>2, <1>3, AppendKeepsRemoves
<1>4. ASSUME MayBeIndexed(h)' PROVE AboutToGo(h)'
  <2>1. \/ handler.phase = "delete" /\ handler.houseId = h
        \/ RemovedAfter(h, position)
    BY <1>4 DEF StaysOut, AboutToGo
  <2>2. CASE handler.phase = "delete" /\ handler.houseId = h
    BY <1>4, <2>2 DEF AboutToGo
  <2>3. CASE RemovedAfter(h, position)
    <3>1. \E k \in 1 .. Len(topic') :
            position < k /\ topic'[k].houseId = h /\ topic'[k].operation = SS!REMOVE
      BY <1>1, <1>3, <2>3
    <3> QED  BY <3>1 DEF AboutToGo, RemovedAfter
  <2> QED  BY <2>1, <2>2, <2>3
<1>5. ASSUME NEW i \in 1 .. Len(topic'), position' < i, topic'[i].houseId = h,
             topic'[i].operation = SS!INDEX
      PROVE  \E k \in 1 .. Len(topic') :
               i < k /\ topic'[k].houseId = h /\ topic'[k].operation = SS!REMOVE
  <2>1. i \in 1 .. Len(topic) /\ topic'[i] = topic[i]
    BY <1>1, <1>5
  <2>2. RemovedAfter(h, i)
    BY <1>5, <2>1 DEF StaysOut
  <2> QED  BY <1>3, <2>1, <2>2
<1> QED  BY <1>4, <1>5 DEF StaysOut, RemovedAfter

\* A status other than passes sends a REMOVE.
LEMMA AnnouncedRemove ==
  ASSUME ListenerInv, NEW h \in Houses, NEW s \in HS!Statuses, s # HS!PASSES,
         topic' = Append(topic, HS!Message(h, HS!OperationFor(s), 0)),
         position' = position
  PROVE  StaysOut(h)'
<1>1. topic \in Seq(SS!HouseIndexMessage) /\ position \in 0 .. Len(topic)
  BY DEF ListenerInv, ListenerTypes
<1> DEFINE m == HS!Message(h, HS!OperationFor(s), 0)
           last == Len(topic) + 1
<1>2. m \in SS!HouseIndexMessage /\ m.houseId = h /\ m.operation = SS!REMOVE
  BY DEF HS!Message, HS!OperationFor, HS!REMOVE, SS!HouseIndexMessage
<1>m. topic' = Append(topic, m)
  OBVIOUS
<1> HIDE DEF m
<1>3. /\ Len(topic') = last /\ last \in 1 .. Len(topic')
      /\ topic'[last].houseId = h /\ topic'[last].operation = SS!REMOVE
  BY <1>1, <1>2, <1>m
<1>4. RemovedAfter(h, position)'
  BY <1>1, <1>3 DEF RemovedAfter
<1>5. ASSUME NEW i \in 1 .. Len(topic'), topic'[i].operation = SS!INDEX
      PROVE  \E k \in 1 .. Len(topic') :
               i < k /\ topic'[k].houseId = h /\ topic'[k].operation = SS!REMOVE
  <2>1. i # last
    BY <1>3, <1>5
  <2>2. i < last
    BY <1>1, <1>3, <2>1
  <2> QED  BY <1>3, <2>2
<1> QED  BY <1>4, <1>5 DEF StaysOut, AboutToGo, RemovedAfter

\* A step of the house service appends a message of its type.
LEMMA ServiceKeepsListener ==
  ASSUME ListenerInv, NEW h \in Houses, Announces(h), UNCHANGED listenerLocals
  PROVE  /\ ListenerInv'
         /\ \/ UNCHANGED topic
            \/ \E m \in SS!HouseIndexMessage : topic' = Append(topic, m)
<1>1. topic \in Seq(SS!HouseIndexMessage) /\ position \in 0 .. Len(topic)
  BY DEF ListenerInv, ListenerTypes
<1>2. \A g \in Houses, s \in HS!Statuses :
        HS!Message(g, HS!OperationFor(s), 0) \in SS!HouseIndexMessage
  BY DEF HS!Message, HS!OperationFor, HS!INDEX, HS!REMOVE, SS!HouseIndexMessage
<1>3. \/ UNCHANGED topic
      \/ \E m \in SS!HouseIndexMessage : topic' = Append(topic, m)
  BY <1>2 DEF Announces
<1>4. topic' \in Seq(SS!HouseIndexMessage) /\ position' \in 0 .. Len(topic')
  BY <1>1, <1>3 DEF listenerLocals
<1> QED
  BY <1>3, <1>4
     DEF ListenerInv, ListenerTypes, AtMostOne, FoundIsCurrent, IndexingGoesWell, listenerLocals

LEMMA ServiceKeepsUnlisted ==
  ASSUME ListenerInv, UnlistedInv, \A h \in Houses : Announces(h),
         UNCHANGED listenerLocals
  PROVE  UnlistedInv'
<1> SUFFICES ASSUME NEW h \in Houses, HS!Announced(h)' # HS!PASSES
             PROVE  StaysOut(h)'
  BY DEF UnlistedInv
<1>u. handler' = handler /\ live' = live /\ position' = position
  BY DEF listenerLocals
<1>k. MayBeIndexed(h)' => MayBeIndexed(h)
  BY <1>u DEF MayBeIndexed, Indexed, SS!Of
<1>1. CASE UNCHANGED topic /\ HS!Announced(h)' = HS!Announced(h)
  BY <1>1, <1>u, <1>k, StaysOutKept DEF UnlistedInv
<1>2. ASSUME NEW g \in Houses, NEW s \in HS!Statuses,
             topic' = Append(topic, HS!Message(g, HS!OperationFor(s), 0)),
             HS!Announced(h)' = IF g = h THEN s ELSE HS!Announced(h)
      PROVE  StaysOut(h)'
  <2>1. CASE g = h
    BY <1>2, <1>u, <2>1, AnnouncedRemove
  <2>2. CASE g # h
    <3> DEFINE m == HS!Message(g, HS!OperationFor(s), 0)
    <3>1. m \in SS!HouseIndexMessage /\ m.houseId = g
      BY DEF HS!Message, HS!OperationFor, HS!INDEX, HS!REMOVE, SS!HouseIndexMessage
    <3>2. topic' = Append(topic, m)
      BY <1>2
    <3> HIDE DEF m
    <3>3. StaysOut(h)
      BY <1>2, <2>2 DEF UnlistedInv
    <3> QED  BY <1>u, <1>k, <2>2, <3>1, <3>2, <3>3, StaysOutKept
  <2> QED  BY <2>1, <2>2
<1> QED  BY <1>1, <1>2 DEF Announces

-----------------------------------------------------------------------------
\* The steps of the listener outside the handling of a message.
LEMMA PollKeeps ==
  ASSUME ListenerInv, SS!Poll
  PROVE  ListenerInv' /\ \A h \in Houses : StaysOut(h) => StaysOut(h)'
<1> DEFINE m == topic[position + 1]
           next == [SS!NoMessage EXCEPT
                      !.phase = IF m.operation = SS!INDEX THEN "house" ELSE "delete",
                      !.houseId = m.houseId, !.retry = m.retry]
<1>1. topic \in Seq(SS!HouseIndexMessage) /\ position \in 0 .. Len(topic)
  BY DEF ListenerInv, ListenerTypes
<1>2. /\ handler.phase = "idle" /\ position < Len(topic) /\ position' = position + 1
      /\ handler' = next /\ UNCHANGED <<topic, live>>
  BY DEF SS!Poll, SS!At, SS!indexVars
<1>3. position + 1 \in 1 .. Len(topic) /\ m \in SS!HouseIndexMessage
  BY <1>1, <1>2
<1>4. /\ m.houseId \in Houses /\ m.retry \in 0 .. 3
      /\ m.operation \in {SS!INDEX, SS!REMOVE}
  BY <1>3 DEF SS!HouseIndexMessage
<1>5. SS!NoMessage \in SS!Handler /\ SS!NoMessage.ok
  BY NoMessageType DEF SS!NoMessage
<1>6. /\ next \in SS!Handler /\ next.ok /\ next.houseId = m.houseId
      /\ next.phase = IF m.operation = SS!INDEX THEN "house" ELSE "delete"
  <2> HIDE DEF m
  <2> QED  BY <1>4, <1>5 DEF SS!Handler, SS!HandlerPhases
<1> HIDE DEF next
<1>7. ListenerInv'
  BY <1>1, <1>2, <1>6
     DEF ListenerInv, ListenerTypes, AtMostOne, FoundIsCurrent, IndexingGoesWell, Indexing
<1>8. ASSUME NEW h \in Houses, StaysOut(h) PROVE StaysOut(h)'
  <2>r. ASSUME NEW i, RemovedAfter(h, i)
        PROVE  \E k \in 1 .. Len(topic') :
                 i < k /\ topic'[k].houseId = h /\ topic'[k].operation = SS!REMOVE
    BY <1>2, <2>r DEF RemovedAfter
  <2>1. ASSUME NEW i \in 1 .. Len(topic'), position' < i, topic'[i].houseId = h,
               topic'[i].operation = SS!INDEX
        PROVE  \E k \in 1 .. Len(topic') :
                 i < k /\ topic'[k].houseId = h /\ topic'[k].operation = SS!REMOVE
    <3>1. RemovedAfter(h, i)
      BY <1>1, <1>2, <1>8, <2>1 DEF StaysOut
    <3> QED  BY <2>r, <3>1
  <2>2. ASSUME MayBeIndexed(h)' PROVE AboutToGo(h)'
    <3>1. CASE m.houseId = h /\ m.operation = SS!INDEX
      <4>1. RemovedAfter(h, position + 1)
        BY <1>1, <1>3, <1>8, <3>1 DEF StaysOut
      <4> QED  BY <1>2, <2>r, <4>1 DEF AboutToGo, RemovedAfter
    <3>2. CASE m.houseId = h /\ m.operation = SS!REMOVE
      BY <1>2, <1>6, <3>2 DEF AboutToGo
    <3>3. CASE m.houseId # h
      <4>1. MayBeIndexed(h)
        BY <1>2, <1>6, <2>2, <3>3 DEF MayBeIndexed, Indexed, SS!Of
      <4>2. RemovedAfter(h, position)
        BY <1>2, <1>8, <4>1 DEF StaysOut, AboutToGo
      <4>3. PICK k \in 1 .. Len(topic) :
              position < k /\ topic[k].houseId = h /\ topic[k].operation = SS!REMOVE
        BY <4>2 DEF RemovedAfter
      <4>4. position + 1 < k
        BY <1>1, <3>3, <4>3
      <4> QED  BY <1>2, <4>3, <4>4 DEF AboutToGo, RemovedAfter
    <3> QED  BY <1>4, <3>1, <3>2, <3>3
  <2> QED  BY <2>1, <2>2 DEF StaysOut, RemovedAfter
<1> QED  BY <1>7, <1>8

LEMMA AutoCommitKeeps ==
  ASSUME ListenerInv, SS!AutoCommit
  PROVE  ListenerInv' /\ \A h \in Houses : StaysOut(h) => StaysOut(h)'
<1>1. topic \in Seq(SS!HouseIndexMessage) /\ position \in 0 .. Len(topic)
  BY DEF ListenerInv, ListenerTypes
<1>2. /\ handler.phase = "idle" /\ position > 0 /\ position' = 0
      /\ topic' = SubSeq(topic, position + 1, Len(topic)) /\ UNCHANGED <<handler, live>>
  BY DEF SS!AutoCommit, SS!At, SS!indexVars
<1>3. /\ topic' \in Seq(SS!HouseIndexMessage)
      /\ Len(topic') = Len(topic) - position
      /\ \A i \in 1 .. Len(topic') : topic'[i] = topic[position + i]
  <2>1. position + 1 \in 1 .. Len(topic) + 1
    BY <1>1
  <2> QED  BY <1>1, <1>2, <2>1
<1>4. ListenerInv'
  BY <1>1, <1>2, <1>3
     DEF ListenerInv, ListenerTypes, AtMostOne, FoundIsCurrent, IndexingGoesWell
\* What comes after a message comes after it in the part that is left.
<1>r. ASSUME NEW h \in Houses, NEW i \in 0 .. Len(topic'), RemovedAfter(h, position + i)
      PROVE  \E k \in 1 .. Len(topic') :
               i < k /\ topic'[k].houseId = h /\ topic'[k].operation = SS!REMOVE
  <2>1. PICK k \in 1 .. Len(topic) :
          position + i < k /\ topic[k].houseId = h /\ topic[k].operation = SS!REMOVE
    BY <1>r DEF RemovedAfter
  <2>2. k - position \in 1 .. Len(topic') /\ i < k - position
    BY <1>1, <1>3, <2>1
  <2>3. topic'[k - position] = topic[k]
    <3>1. position + (k - position) = k
      BY <1>1
    <3> QED  BY <1>3, <2>2, <3>1
  <2> QED  BY <2>1, <2>2, <2>3
<1>5. ASSUME NEW h \in Houses, StaysOut(h) PROVE StaysOut(h)'
  <2>1. ASSUME MayBeIndexed(h)' PROVE AboutToGo(h)'
    <3>1. MayBeIndexed(h)
      BY <1>2, <2>1 DEF MayBeIndexed, Indexed, SS!Of
    <3>2. RemovedAfter(h, position)
      BY <1>2, <1>5, <3>1 DEF StaysOut, AboutToGo
    <3>3. RemovedAfter(h, position + 0) /\ 0 \in 0 .. Len(topic')
      BY <1>1, <1>3, <3>2
    <3>4. \E k \in 1 .. Len(topic') :
            0 < k /\ topic'[k].houseId = h /\ topic'[k].operation = SS!REMOVE
      BY <1>r, <3>3
    <3> QED  BY <1>2, <3>4 DEF AboutToGo, RemovedAfter
  <2>2. ASSUME NEW i \in 1 .. Len(topic'), topic'[i].houseId = h,
               topic'[i].operation = SS!INDEX
        PROVE  \E k \in 1 .. Len(topic') :
                 i < k /\ topic'[k].houseId = h /\ topic'[k].operation = SS!REMOVE
    <3>1. position + i \in 1 .. Len(topic) /\ position < position + i
      BY <1>1, <1>3
    <3>2. topic'[i] = topic[position + i]
      BY <1>3
    <3>3. RemovedAfter(h, position + i)
      BY <1>5, <2>2, <3>1, <3>2 DEF StaysOut
    <3> QED  BY <1>r, <3>3
  <2> QED  BY <2>1, <2>2 DEF StaysOut, RemovedAfter
<1> QED  BY <1>4, <1>5

\* A step of the listener does not touch what the house service announced.
LEMMA ListenerKeepsUnlisted ==
  ASSUME Calm, Shared, ListenerInv, UnlistedInv, ListenerStep
  PROVE  ListenerInv' /\ UnlistedInv'
<1>1. /\ UNCHANGED <<status, req, lock>>
      /\ SS!Poll \/ SS!AutoCommit \/ SS!Handle \/ SS!Refresh
  BY DEF ListenerStep, SS!ListenerNext, serviceLocals
<1>2. \A h \in Houses : HS!Announced(h)' = HS!Announced(h)
  BY <1>1 DEF HS!Announced, HS!Unlocked
<1>3. SUFFICES ListenerInv' /\ \A h \in Houses : StaysOut(h) => StaysOut(h)'
  BY <1>2 DEF UnlistedInv
<1>4. CASE SS!Poll
  BY <1>4, PollKeeps
<1>5. CASE SS!AutoCommit
  BY <1>5, AutoCommitKeeps
<1>6. CASE SS!Refresh
  <2>1. UNCHANGED <<topic, position, handler, live>>
    BY <1>6 DEF SS!Refresh
  <2>2. ListenerInv'
    BY <2>1 DEF ListenerInv, ListenerTypes, AtMostOne, FoundIsCurrent, IndexingGoesWell
  <2>3. \A h \in Houses : MayBeIndexed(h)' => MayBeIndexed(h)
    BY <2>1 DEF MayBeIndexed, Indexed, SS!Of
  <2> QED  BY <2>1, <2>2, <2>3, StaysOutKept
<1>7. CASE SS!Handle
  <2>1. Moves
    BY <1>7, HandleMoves
  <2>2. ASSUME NEW h \in Houses, StaysOut(h) PROVE StaysOut(h)'
    <3>1. position' = position /\ (MayBeIndexed(h)' => MayBeIndexed(h))
      BY <2>1 DEF Moves
    <3>2. handler.phase = "delete" /\ handler.houseId = h => ~ MayBeIndexed(h)'
      BY <2>1 DEF Moves
    <3>3. \/ UNCHANGED topic
          \/ \E m \in SS!HouseIndexMessage :
               ~ (m.houseId = h /\ m.operation = SS!INDEX) /\ topic' = Append(topic, m)
      BY <2>1 DEF Moves
    <3> QED  BY <2>2, <3>1, <3>2, <3>3, StaysOutKept
  <2> QED  BY <2>1, <2>2 DEF Moves
<1> QED  BY <1>1, <1>4, <1>5, <1>6, <1>7

-----------------------------------------------------------------------------
CalmInv == Shared /\ ServiceInv /\ ListenerInv /\ UnlistedInv

LEMMA CalmInit == Init => CalmInv
<1> SUFFICES ASSUME Init PROVE CalmInv
  OBVIOUS
<1>1. Shared
  BY InitShared
<1>2. /\ status = [h \in Houses |-> HS!NOT_AUDITED]
      /\ req = [t \in Threads |-> HS!NoRequest]
      /\ lock = [h \in Houses |-> NoThread]
      /\ topic = <<>> /\ position = 0 /\ handler = SS!NoMessage /\ live = {}
  BY DEF Init, HS!Init, SS!ListenerInit
<1>3. \A t \in Threads : req[t].phase = "idle"
  BY <1>2, NoRequestType
<1>4. \A t \in Threads, h \in Houses : lock[h] # t
  BY <1>2, NoThreadKnown
<1>5. ServiceInv
  BY <1>2, <1>3, <1>4, DulyInit DEF ServiceInv, Locks, LocksTyped, LocksOwned
<1>6. handler \in SS!Handler /\ handler.phase = "idle"
  BY <1>2, NoMessageType
<1>7. topic \in Seq(SS!HouseIndexMessage) /\ position \in 0 .. Len(topic) /\ Len(topic) = 0
  BY <1>2
<1>8. ListenerInv
  BY <1>2, <1>6, <1>7
     DEF ListenerInv, ListenerTypes, AtMostOne, FoundIsCurrent, IndexingGoesWell, Indexing
<1>9. UnlistedInv
  BY <1>2, <1>6, <1>7 DEF UnlistedInv, StaysOut, MayBeIndexed, Indexed, SS!Of, Indexing
<1> QED  BY <1>1, <1>5, <1>8, <1>9 DEF CalmInv

LEMMA CalmStep ==
  ASSUME Calm, CalmInv, [Next]_vars
  PROVE  CalmInv'
<1>d. Duly'
  BY DulyNext DEF Calm, CalmInv, ServiceInv
<1>1. CASE ServiceStep
  <2>1. Shared'
    BY <1>1, ServiceIsEnvironment DEF CalmInv
  <2>2. PICK t \in Threads : HS!Arrive(t) \/ HS!Continue(t)
    BY <1>1 DEF ServiceStep, HS!ServiceNext
  <2>3. ServiceInv' /\ \A h \in Houses : Announces(h)
    BY <2>2, ServiceAnnounces DEF CalmInv
  <2>4. UNCHANGED listenerLocals
    BY <1>1 DEF ServiceStep
  <2>5. ListenerInv'
    BY <2>3, <2>4, HousesAssumption, ServiceKeepsListener DEF CalmInv
  <2>6. UnlistedInv'
    BY <2>3, <2>4, ServiceKeepsUnlisted DEF CalmInv
  <2> QED  BY <2>1, <2>3, <2>5, <2>6 DEF CalmInv
<1>2. CASE ListenerStep
  <2>1. Shared'
    BY <1>2, ListenerKeepsShared DEF CalmInv
  <2>2. UNCHANGED <<rows, status, req, lock>>
    BY <1>2 DEF ListenerStep, SS!ListenerNext, serviceLocals
  <2>3. ServiceInv'
    BY <1>d, <2>2 DEF CalmInv, ServiceInv, Locks, LocksTyped, LocksOwned
  <2>4. ListenerInv' /\ UnlistedInv'
    BY <1>2, ListenerKeepsUnlisted DEF CalmInv
  <2> QED  BY <2>1, <2>3, <2>4 DEF CalmInv
<1>3. ~ Crash
  BY CalmMishaps DEF Crash, SS!Crash
<1>4. CASE UNCHANGED vars
  <2>1. Shared'
    BY <1>4 DEF vars, CalmInv, Shared, SharedTypes, ContentsHaveRows
  <2>2. ServiceInv'
    BY <1>4, <1>d DEF vars, CalmInv, ServiceInv, Locks, LocksTyped, LocksOwned
  <2>3. ListenerInv'
    BY <1>4
       DEF vars, CalmInv, ListenerInv, ListenerTypes, AtMostOne, FoundIsCurrent, IndexingGoesWell
  <2>4. UnlistedInv'
    BY <1>4
       DEF vars, CalmInv, UnlistedInv, StaysOut, AboutToGo, RemovedAfter, MayBeIndexed,
           Indexed, SS!Of, HS!Announced, HS!Unlocked
  <2> QED  BY <2>1, <2>2, <2>3, <2>4 DEF CalmInv
<1> QED  BY <1>1, <1>2, <1>3, <1>4 DEF Next

\* With nobody at work no house is locked, and nothing is about to go.
LEMMA CalmEnough ==
  ASSUME CalmInv
  PROVE  UnlistedAbsent
<1> SUFFICES ASSUME Quiescent, NEW h \in Houses, status[h] # PASSES
             PROVE  ~ Indexed(h)
  BY DEF UnlistedAbsent
<1>1. /\ \A t \in Threads : req[t].phase = "idle"
      /\ handler.phase = "idle" /\ position = Len(topic)
  BY DEF Quiescent, SS!At
<1>2. lock[h] = NoThread
  BY <1>1 DEF CalmInv, ServiceInv, Locks, LocksTyped, LocksOwned
<1>3. HS!Announced(h) # HS!PASSES
  BY <1>2 DEF HS!Announced, HS!Unlocked, PASSES, HS!PASSES
<1>4. StaysOut(h)
  BY <1>3 DEF CalmInv, UnlistedInv
<1>5. ~ AboutToGo(h)
  BY <1>1 DEF AboutToGo, RemovedAfter
<1> QED  BY <1>4, <1>5 DEF StaysOut, MayBeIndexed

(***************************************************************************)
(* However many administrators list and unlist houses at once, though      *)
(* database calls and LBS look-ups fail and removals are retried, a house  *)
(* that is not listed is not in the index once all messages are handled    *)
(* (updateStatus, HouseService.java 310-317; handleMessage,                *)
(* SearchService.java 93-190): the row lock orders the messages of a house *)
(* as its commits, so the last one stands, and an INDEX never fails and    *)
(* comes back behind a later REMOVE.                                       *)
(***************************************************************************)
THEOREM UnlistedStaysOut ==
  ASSUME Calm
  PROVE  Spec => []UnlistedAbsent
<1>1. Init => CalmInv
  BY CalmInit
<1>2. CalmInv /\ [Next]_vars => CalmInv'
  BY CalmStep
<1>3. CalmInv => UnlistedAbsent
  BY CalmEnough
<1> QED  BY <1>1, <1>2, <1>3, PTL DEF Spec

=============================================================================
