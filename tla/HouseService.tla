----------------------------- MODULE HouseService -----------------------------
(***************************************************************************)
(* HouseService.java as the administration pages drive it: house rows are  *)
(* created by save, edited by update and moved between statuses by         *)
(* updateStatus, each in a request thread of its own against one MySQL.    *)
(*                                                                         *)
(* save is not transactional: each repository call commits by itself.      *)
(* update and updateStatus are transactions: their plain reads see a       *)
(* committed snapshot and take no lock, an UPDATE takes the row lock and   *)
(* keeps it to the commit.  updateStatus hands its index message to Kafka  *)
(* inside the transaction, before the commit.                              *)
(***************************************************************************)
EXTENDS HouseVocabulary, Mishaps

CONSTANTS
  Threads,         \* request threads of the servlet container
  NoThread,        \* not a thread
  Duties,          \* which thread may start which kind of request on which house
  Stored,          \* houses completely saved before the run starts
  MaxRequests      \* bound on the requests started

Kinds == {"save", "edit", "status"}

ASSUME DutiesAssumption == Duties \subseteq Threads \X Kinds \X Houses
ASSUME NoThreadAssumption == NoThread \notin Threads
ASSUME StoredAssumption == Stored \subseteq Houses
ASSUME MaxRequestsAssumption == MaxRequests \in Nat

VARIABLES
  rows,            \* rows[h]: the tables with a committed row for house h
  status,          \* status[h]: the committed column house.status
  rev,             \* rev[h]: number of committed contents of house h
  req,             \* req[t]: the request thread t is serving
  lock,            \* lock[h]: the transaction holding the row lock of h
  topic,           \* the messages of house_build, oldest first
  requests         \* requests started, a bound only

dbVars      == <<rows, status, rev>>
serviceVars == <<rows, status, rev, req, lock, topic, requests>>
vars        == <<serviceVars, faults>>

Phases == {"idle", "detail", "picture", "tag", "edit", "status", "sent"}

\* house and status are what the thread works on; while it only edits, status
\* is the value it read, to be written back with the rest of the row.
Request == [phase : Phases, house : Houses, status : Statuses]

AnyHouse == CHOOSE h \in Houses : TRUE
NoRequest == [phase |-> "idle", house |-> AnyHouse, status |-> NOT_AUDITED]

TypeOK ==
  /\ rows \in [Houses -> SUBSET Tables]
  /\ status \in [Houses -> Statuses]
  /\ rev \in [Houses -> Nat]
  /\ req \in [Threads -> Request]
  /\ lock \in [Houses -> Threads \cup {NoThread}]
  /\ topic \in Seq(HouseIndexMessage)
  /\ requests \in 0 .. MaxRequests
  /\ faults \in 0 .. MaxFaults

Init ==
  /\ rows = [h \in Houses |-> IF h \in Stored THEN Tables \ {"tag"} ELSE {}]
  /\ status = [h \in Houses |-> NOT_AUDITED]
  /\ rev = [h \in Houses |-> IF h \in Stored THEN 1 ELSE 0]
  /\ req = [t \in Threads |-> NoRequest]
  /\ lock = [h \in Houses |-> NoThread]
  /\ topic = <<>>
  /\ requests = 0
  /\ faults = 0

-----------------------------------------------------------------------------
\* A request reaches an idle thread and gets as far as phase.
Start(t, kind, h, phase, s) ==
  /\ req[t].phase = "idle"
  /\ <<t, kind, h>> \in Duties
  /\ requests < MaxRequests
  /\ requests' = requests + 1
  /\ req' = [req EXCEPT ![t] = [phase |-> phase, house |-> h, status |-> s]]

Finish(t) == req' = [req EXCEPT ![t] = NoRequest]

\* The UPDATE of a row waits while another transaction holds its lock.
Unlocked(h) == lock[h] = NoThread

-----------------------------------------------------------------------------
(* save: one commit per table.                                             *)

\* A variant with a bug: the detail row is forgotten.
SaveHouse_NoDetail(t, h) ==
  /\ rows[h] = {}
  /\ Start(t, "save", h, "picture", NOT_AUDITED)
  /\ rows' = [rows EXCEPT ![h] = {"house"}]
  /\ rev' = [rev EXCEPT ![h] = 1]
  /\ status' = [status EXCEPT ![h] = NOT_AUDITED]
  /\ NoMishap
  /\ UNCHANGED <<lock, topic>>

SaveHouse(t, h) ==
  /\ rows[h] = {}
  /\ Start(t, "save", h, "detail", NOT_AUDITED)
  /\ rows' = [rows EXCEPT ![h] = {"house"}]
  /\ rev' = [rev EXCEPT ![h] = 1]
  /\ status' = [status EXCEPT ![h] = NOT_AUDITED]
  /\ NoMishap
  /\ UNCHANGED <<lock, topic>>

\* Each remaining table in turn; a form without tags ends at the pictures.
SavePart(t) ==
  LET h == req[t].house
      part == req[t].phase
  IN /\ part \in {"detail", "picture", "tag"}
     /\ rows' = [rows EXCEPT ![h] = @ \cup {part}]
     /\ \/ part = "detail" /\ req' = [req EXCEPT ![t].phase = "picture"]
        \/ part = "picture" /\ req' = [req EXCEPT ![t].phase = "tag"]
        \/ part # "detail" /\ Finish(t)
     /\ NoMishap
     /\ UNCHANGED <<status, rev, lock, topic, requests>>

\* A repository call throws: save keeps what is committed so far, a
\* transaction that has written nothing leaves nothing.
CallFails(t) ==
  /\ req[t].phase \in Phases \ {"idle", "sent"}
  /\ Mishap("database")
  /\ Finish(t)
  /\ UNCHANGED <<dbVars, lock, topic, requests>>

-----------------------------------------------------------------------------
(* update: one transaction around a read of both rows and a write of both. *)

\* A variant with a bug: the form is mapped onto a new house, not onto the row.
UpdateRead_NewHouse(t, h) ==
  /\ {"house", "detail"} \subseteq rows[h]
  /\ Start(t, "edit", h, "edit", NOT_AUDITED)
  /\ NoMishap
  /\ UNCHANGED <<dbVars, lock, topic>>

UpdateRead(t, h) ==
  /\ {"house", "detail"} \subseteq rows[h]
  /\ Start(t, "edit", h, "edit", status[h])
  /\ NoMishap
  /\ UNCHANGED <<dbVars, lock, topic>>

\* A variant with a bug: the photos of the form replace those there are.
UpdateCommit_Replacing(t) ==
  LET h == req[t].house
  IN /\ req[t].phase = "edit"
     /\ Unlocked(h)
     /\ status' = [status EXCEPT ![h] = req[t].status]
     /\ rev' = [rev EXCEPT ![h] = @ + 1]
     /\ \E photos \in SUBSET {"picture"} :
          rows' = [rows EXCEPT ![h] = (@ \ {"picture"}) \cup photos]
     /\ Finish(t)
     /\ NoMishap
     /\ UNCHANGED <<lock, topic, requests>>

\* Hibernate writes every column of house, the status as it was read.  New
\* photos of the form become picture rows.
UpdateCommit(t) ==
  LET h == req[t].house
  IN /\ req[t].phase = "edit"
     /\ Unlocked(h)
     /\ status' = [status EXCEPT ![h] = req[t].status]
     /\ rev' = [rev EXCEPT ![h] = @ + 1]
     /\ \E photos \in SUBSET {"picture"} :
          rows' = [rows EXCEPT ![h] = @ \cup photos]
     /\ Finish(t)
     /\ NoMishap
     /\ UNCHANGED <<lock, topic, requests>>

\* wrapperDetailInfo does not accept the subway line or station.
UpdateRefused(t) ==
  /\ req[t].phase = "edit"
  /\ Finish(t)
  /\ NoMishap
  /\ UNCHANGED <<dbVars, lock, topic, requests>>

-----------------------------------------------------------------------------
(* operateHouse and updateStatus: check on a snapshot, then write, send    *)
(* the index message, commit.                                              *)

\* A variant with a bug: the terminal statuses are not checked.
StatusRead_Unchecked(t, h, operation) ==
  LET target == TargetOf(operation)
  IN /\ "house" \in rows[h]
     /\ status[h] # target
     /\ Start(t, "status", h, "status", target)
     /\ NoMishap
     /\ UNCHANGED <<dbVars, lock, topic>>

\* A variant with a bug: a house may be asked for the status it has.
StatusRead_SameToo(t, h, operation) ==
  LET target == TargetOf(operation)
  IN /\ "house" \in rows[h]
     /\ status[h] \notin Terminal
     /\ Start(t, "status", h, "status", target)
     /\ NoMishap
     /\ UNCHANGED <<dbVars, lock, topic>>

\* A variant with a bug: the row is updated without being looked up.
StatusRead_Blind(t, h, operation) ==
  /\ Start(t, "status", h, "status", TargetOf(operation))
  /\ NoMishap
  /\ UNCHANGED <<dbVars, lock, topic>>

StatusRead(t, h, operation) ==
  LET target == TargetOf(operation)
  IN /\ "house" \in rows[h]
     /\ status[h] # target
     /\ status[h] \notin Terminal
     /\ Start(t, "status", h, "status", target)
     /\ NoMishap
     /\ UNCHANGED <<dbVars, lock, topic>>

\* A variant with a bug: the message is sent without waiting for the row.
StatusWrite_Waitless(t) ==
  LET h == req[t].house
      m == Message(h, OperationFor(req[t].status), 0)
  IN /\ req[t].phase = "status"
     /\ lock' = [lock EXCEPT ![h] = t]
     /\ \/ NoMishap /\ topic' = Append(topic, m)
        \/ Mishap("send") /\ UNCHANGED topic
     /\ req' = [req EXCEPT ![t].phase = "sent"]
     /\ UNCHANGED <<dbVars, requests>>

\* The result of kafkaTemplate.send is not looked at: it may be lost.
StatusWrite(t) ==
  LET h == req[t].house
      m == Message(h, OperationFor(req[t].status), 0)
  IN /\ req[t].phase = "status"
     /\ Unlocked(h)
     /\ lock' = [lock EXCEPT ![h] = t]
     /\ \/ NoMishap /\ topic' = Append(topic, m)
        \/ Mishap("send") /\ UNCHANGED topic
     /\ req' = [req EXCEPT ![t].phase = "sent"]
     /\ UNCHANGED <<dbVars, requests>>

StatusCommit(t) ==
  LET h == req[t].house
  IN /\ req[t].phase = "sent"
     /\ status' = [status EXCEPT ![h] = req[t].status]
     /\ lock' = [lock EXCEPT ![h] = NoThread]
     /\ Finish(t)
     /\ NoMishap
     /\ UNCHANGED <<rows, rev, topic, requests>>

StatusRollback(t) ==
  /\ req[t].phase = "sent"
  /\ Mishap("rollback")
  /\ lock' = [lock EXCEPT ![req[t].house] = NoThread]
  /\ Finish(t)
  /\ UNCHANGED <<dbVars, topic, requests>>

-----------------------------------------------------------------------------
\* The process dies: open transactions roll back, requests are forgotten.
Restart ==
  /\ req' = [t \in Threads |-> NoRequest]
  /\ lock' = [h \in Houses |-> NoThread]
  /\ UNCHANGED <<dbVars, topic, requests>>

Crash == Mishap("crash") /\ Restart

\* What a request already being served does next.
Continue(t) ==
  \/ SavePart(t)
  \/ CallFails(t)
  \/ UpdateCommit(t)
  \/ UpdateRefused(t)
  \/ StatusWrite(t)
  \/ StatusCommit(t)
  \/ StatusRollback(t)

Arrive(t) ==
  \E h \in Houses :
    \/ SaveHouse(t, h)
    \/ UpdateRead(t, h)
    \/ \E operation \in HouseOperations : StatusRead(t, h, operation)

ServiceNext == \E t \in Threads : Arrive(t) \/ Continue(t)

Next == ServiceNext \/ Crash

Spec == Init /\ [][Next]_vars

-----------------------------------------------------------------------------
(***************************************************************************)
(* Properties.  Here topic is never consumed: it is the log of everything  *)
(* the service ever sent.                                                  *)
(***************************************************************************)

\* The operation of the last message of the log for h is OperationFor(s);
\* with no message at all, h was never listed.
LogEndsWith(log, h, s) ==
  \/ \E i \in 1 .. Len(log) :
       /\ log[i].houseId = h
       /\ log[i].operation = OperationFor(s)
       /\ \A j \in (i + 1) .. Len(log) : log[j].houseId # h
  \/ /\ s # PASSES
     /\ \A i \in 1 .. Len(log) : log[i].houseId # h

\* The status the last message about h stands for.
Announced(h) == IF Unlocked(h) THEN status[h] ELSE req[lock[h]].status

\* Nothing has separated a status of h from the message announcing it: no
\* mishap but database errors yet, and nobody edits h.
Dependable(h) ==
  /\ faults = 0
  /\ Persistent \subseteq {"database"}
  /\ \A t \in Threads : <<t, "edit", h>> \notin Duties

(***************************************************************************)
(* However many administrators race on a house, the message that will be   *)
(* handled last for it asks for what its committed status needs: messages  *)
(* are sent under the row lock, so they are logged in commit order         *)
(* (updateStatus, HouseService.java 310-317).  While a transaction is      *)
(* between its send and its commit, the log is ahead by exactly that one.  *)
(***************************************************************************)
MessagesFollowCommits ==
  \A h \in Houses : Dependable(h) => LogEndsWith(topic, h, Announced(h))

(***************************************************************************)
(* A house is written table by table (save, HouseService.java 86-110) and  *)
(* whatever fails in between, no picture is stored without the detail row, *)
(* nor anything without the house row: an edit or a status change never    *)
(* reaches a house with no row, and an edited house always has the detail  *)
(* row the edit rewrites.                                                  *)
(***************************************************************************)
RowsInSaveOrder ==
  \A h \in Houses :
    /\ rows[h] # {} => "house" \in rows[h]
    /\ "picture" \in rows[h] => "detail" \in rows[h]
    /\ rev[h] > 1 => "detail" \in rows[h]
    /\ status[h] # NOT_AUDITED => "house" \in rows[h]

(***************************************************************************)
(* updateStatus says a rented house may not change its status ("...",      *)
(* HouseService.java 302-304) nor a deleted one be operated on (306-308).  *)
(***************************************************************************)
TerminalStays ==
  [][\A h \in Houses : status[h] \in Terminal => status'[h] = status[h]]_vars

\* h has a terminal status, and no request at work on h will write another.
Settled(h) ==
  /\ status[h] \in Terminal
  /\ \A t \in Threads :
       req[t].house = h /\ req[t].phase \in {"edit", "status", "sent"} =>
         req[t].status = status[h]

(***************************************************************************)
(* A rented or deleted house can lose its status only to a request that    *)
(* read the row before that status was committed.  Once those are over, no *)
(* number of racing administrators and no edit brings another one back,    *)
(* though update writes the status along with the rest of the row          *)
(* (HouseService.java 194-218) and updateStatus writes it without a        *)
(* condition (310).                                                        *)
(***************************************************************************)
FinalOnceSettled ==
  [][\A h \in Houses : Settled(h) => Settled(h)' /\ status'[h] = status[h]]_vars

=============================================================================
