-------------------------- MODULE SoufangListingProofs --------------------------
(***************************************************************************)
(* The two services implement the abstract listing, for any number of      *)
(* houses, administrators and messages: every step of theirs is a change   *)
(* of the listing, the application of the oldest pending change of a house *)
(* to the index, or nothing.  What the abstract listing promises then      *)
(* holds of them.                                                          *)
(***************************************************************************)
EXTENDS SoufangProofs, SequenceTheorems

USE DEF INDEX, REMOVE, SS!INDEX, SS!REMOVE, SS!MAX_RETRY

-----------------------------------------------------------------------------
(***************************************************************************)
(* What has to go well: nothing fails but look-ups of LBS entries, so no   *)
(* message is lost and none announces a status that is rolled back;        *)
(* searches see every write; and each house has a single administrator.    *)
(* Two of them can both send REMOVE for a house that is listed once, and   *)
(* the second finds nothing and comes back behind a later INDEX.           *)
(***************************************************************************)
Undisturbed ==
  /\ FaultKinds \cup Persistent \subseteq {"lookup"}
  /\ RefreshLag = FALSE
  /\ OneAdministrator

LEMMA UndisturbedIsCalm == Undisturbed => Calm
BY EditorsAreAlone DEF Undisturbed, Calm

LEMMA UndisturbedMishaps ==
  ASSUME Undisturbed, NEW kind, kind # "lookup"
  PROVE  ~ HS!Mishap(kind) /\ ~ SS!Mishap(kind)
BY DEF Undisturbed, HS!Mishap, SS!Mishap

-----------------------------------------------------------------------------
(***************************************************************************)
(* The house service: a house that is moved between statuses has all the   *)
(* rows its document is built from, and its status does change.            *)
(***************************************************************************)
Whole(h) == {"house", "detail"} \subseteq rows[h]

Saved ==
  /\ \A h \in Houses :
       \/ rows[h] = {}
       \/ Whole(h)
       \/ \E t \in Threads : req[t].phase = "detail" /\ req[t].house = h
  /\ \A t \in Threads : req[t].phase # "idle" => "house" \in rows[req[t].house]

\* The status change of thread t is one, of a house the index can take.
Moving(t) ==
  /\ Whole(req[t].house)
  /\ status[req[t].house] \notin HS!Terminal
  /\ req[t].status # status[req[t].house]

Ready == \A t \in Threads : req[t].phase = "status" => Moving(t)

\* What a step of thread t does to its own request.
LEMMA OwnStep ==
  ASSUME Undisturbed, Shared, Duly, Saved,
         NEW t \in Threads, HS!Arrive(t) \/ HS!Continue(t)
  PROVE  /\ req'[t].phase # "idle" => "house" \in rows'[req'[t].house]
         /\ req'[t].phase = "status" => Moving(t)'
         /\ req[t].phase = "detail" => {"house", "detail"} \subseteq rows'[req[t].house]
         /\ \A h \in Houses :
              rows'[h] # {} => \/ rows[h] # {}
                               \/ req'[t].phase = "detail" /\ req'[t].house = h
<1>s. /\ rows \in [Houses -> SUBSET HS!Tables]
      /\ status \in [Houses -> HS!Statuses]
      /\ req \in [Threads -> HS!Request]
      /\ req[t].house \in Houses /\ req[t].status \in HS!Statuses
  BY DEF Shared, SharedTypes, HS!Request
<1>h. req[t].phase # "idle" => "house" \in rows[req[t].house]
  BY DEF Saved
\* A request ends, its house rows being left alone or added to.
<1>f. ASSUME HS!Finish(t), req[t].phase \notin {"idle", "detail"},
             \E more : rows' = [rows EXCEPT ![req[t].house] = @ \cup more]
      PROVE  /\ req'[t].phase = "idle"
             /\ \A h \in Houses : rows'[h] # {} => rows[h] # {}
  <2>1. PICK more : rows' = [rows EXCEPT ![req[t].house] = @ \cup more]
    BY <1>f
  <2>2. req'[t].phase = "idle"
    BY <1>s, <1>f, NoRequestType DEF HS!Finish
  <2>3. \A h \in Houses : rows'[h] # {} => rows[h] # {}
    BY <1>s, <1>h, <1>f, <2>1
  <2> QED  BY <2>2, <2>3
<1>u. ASSUME UNCHANGED rows
      PROVE  \E more : rows' = [rows EXCEPT ![req[t].house] = @ \cup more]
  <2>1. rows' = [rows EXCEPT ![req[t].house] = @ \cup {}]
    BY <1>s, <1>u
  <2> QED  BY <2>1
<1>1. ASSUME NEW h \in Houses, HS!SaveHouse(t, h)
      PROVE  /\ req[t].phase = "idle"
             /\ req'[t].phase = "detail" /\ req'[t].house = h
             /\ rows' = [rows EXCEPT ![h] = {"house"}]
  BY <1>1, <1>s DEF HS!SaveHouse, HS!Start
<1>2. ASSUME HS!SavePart(t)
      PROVE  /\ \/ req[t].phase = "detail" /\ req'[t].phase # "detail"
                \/ req[t].phase \in {"picture", "tag"}
             /\ req'[t].phase \in {"idle", "picture", "tag"}
             /\ req'[t].phase # "idle" => req'[t].house = req[t].house
             /\ rows' = [rows EXCEPT ![req[t].house] = @ \cup {req[t].phase}]
  <2>1. /\ req[t].phase \in {"detail", "picture", "tag"}
        /\ rows' = [rows EXCEPT ![req[t].house] = @ \cup {req[t].phase}]
    BY <1>2 DEF HS!SavePart
  <2>2. CASE HS!Finish(t)
    BY <1>s, <2>1, <2>2, NoRequestType DEF HS!Finish
  <2>3. ASSUME NEW phase \in {"picture", "tag"}, req' = [req EXCEPT ![t].phase = phase]
        PROVE  req'[t].phase = phase /\ req'[t].house = req[t].house
    BY <1>s, <2>3 DEF HS!Request
  <2> QED  BY <1>2, <2>1, <2>2, <2>3 DEF HS!SavePart
<1>3. ~ HS!CallFails(t) /\ ~ HS!StatusRollback(t)
  BY UndisturbedMishaps DEF HS!CallFails, HS!StatusRollback
<1>4. ASSUME NEW h \in Houses, HS!UpdateRead(t, h)
      PROVE  /\ req[t].phase = "idle" /\ req'[t].phase = "edit" /\ req'[t].house = h
             /\ "house" \in rows'[h] /\ UNCHANGED rows
  BY <1>4, <1>s DEF HS!UpdateRead, HS!Start, HS!dbVars
<1>5. ASSUME HS!UpdateCommit(t) \/ HS!UpdateRefused(t) \/ HS!StatusCommit(t)
      PROVE  /\ HS!Finish(t) /\ req[t].phase \notin {"idle", "detail"}
             /\ \E more : rows' = [rows EXCEPT ![req[t].house] = @ \cup more]
  BY <1>5, <1>u DEF HS!UpdateCommit, HS!UpdateRefused, HS!StatusCommit, HS!dbVars
<1>6. ASSUME NEW h \in Houses, NEW operation \in HS!HouseOperations,
             HS!StatusRead(t, h, operation)
      PROVE  /\ req[t].phase = "idle" /\ UNCHANGED rows
             /\ req'[t].phase = "status" /\ req'[t].house = h
             /\ "house" \in rows'[h] /\ Moving(t)'
  <2>1. /\ req[t].phase = "idle" /\ UNCHANGED <<rows, status>> /\ "house" \in rows[h]
        /\ <<t, "status", h>> \in Duties
        /\ req'[t].phase = "status" /\ req'[t].house = h
        /\ req'[t].status = HS!TargetOf(operation)
        /\ status[h] # HS!TargetOf(operation) /\ status[h] \notin HS!Terminal
    BY <1>6, <1>s DEF HS!StatusRead, HS!Start, HS!dbVars
  \* Nobody else has begun to save h, and t is not doing so.
  <2>2. ~ \E u \in Threads : req[u].phase = "detail" /\ req[u].house = h
    BY <2>1 DEF Undisturbed, OneAdministrator, Duly, OnDuty, HS!Kinds
  <2>3. Whole(h)
    BY <2>1, <2>2 DEF Saved
  <2> QED  BY <2>1, <2>3 DEF Moving, Whole
<1>7. ASSUME HS!StatusWrite(t)
      PROVE  /\ req[t].phase = "status" /\ req'[t].phase = "sent"
             /\ req'[t].house = req[t].house /\ UNCHANGED rows
  BY <1>7, <1>s DEF HS!StatusWrite, HS!dbVars, HS!Request
<1> DEFINE Own == /\ req'[t].phase # "idle" => "house" \in rows'[req'[t].house]
                  /\ req'[t].phase = "status" => Moving(t)'
                  /\ req[t].phase = "detail" => {"house", "detail"} \subseteq rows'[req[t].house]
                  /\ \A h \in Houses :
                       rows'[h] # {} => \/ rows[h] # {}
                                        \/ req'[t].phase = "detail" /\ req'[t].house = h
<1>8. ASSUME NEW h \in Houses, HS!SaveHouse(t, h) PROVE Own
  BY <1>1, <1>8, <1>s
<1>9. ASSUME HS!SavePart(t) PROVE Own
  <2>1. "house" \in rows[req[t].house]
    BY <1>2, <1>9, <1>h
  <2>2. /\ rows'[req[t].house] = rows[req[t].house] \cup {req[t].phase}
        /\ \A h \in Houses : h # req[t].house => rows'[h] = rows[h]
    BY <1>2, <1>9, <1>s
  <2> QED  BY <1>2, <1>9, <2>1, <2>2
<1>10. ASSUME NEW h \in Houses, HS!UpdateRead(t, h) PROVE Own
  BY <1>4, <1>10
<1>11. ASSUME HS!UpdateCommit(t) \/ HS!UpdateRefused(t) \/ HS!StatusCommit(t) PROVE Own
  BY <1>5, <1>11, <1>f
<1>12. ASSUME NEW h \in Houses, NEW operation \in HS!HouseOperations,
              HS!StatusRead(t, h, operation)
       PROVE  Own
  BY <1>6, <1>12
<1>13. ASSUME HS!StatusWrite(t) PROVE Own
  BY <1>7, <1>13, <1>h
<1> HIDE DEF Own
<1>14. Own
  BY <1>3, <1>8, <1>9, <1>10, <1>11, <1>12, <1>13 DEF HS!Arrive, HS!Continue
<1> QED  BY <1>14 DEF Own

\* A step of the house service keeps both.
LEMMA SavedStep ==
  ASSUME Undisturbed, Shared, Duly, Saved, Ready,
         NEW t \in Threads, HS!Arrive(t) \/ HS!Continue(t)
  PROVE  Saved' /\ Ready' /\ \A h \in Houses : rows[h] \subseteq rows'[h]
<1>1. PICK g \in Houses, r \in HS!Request : Turn(t, g, r)
  BY ServiceTurn
<1>2. /\ \A u \in Threads : u # t => req'[u] = req[u]
      /\ \A u \in Threads : req[u].house \in Houses
  BY <1>1 DEF Turn, Shared, SharedTypes, HS!Request
\* Nobody else is at work on house g.
<1>3. \A u \in Threads : u # t /\ req[u].phase # "idle" => req[u].house # g
  BY <1>1 DEF Turn, Undisturbed, OneAdministrator, Duly, OnDuty
<1>4. \A h \in Houses : rows[h] \subseteq rows'[h]
  BY <1>1 DEF Turn
<1>5. ASSUME NEW h \in Houses, rows'[h] # {}
      PROVE  Whole(h)' \/ \E u \in Threads : req'[u].phase = "detail" /\ req'[u].house = h
  <2>1. CASE rows[h] = {}
    <3>1. req'[t].phase = "detail" /\ req'[t].house = h
      BY <1>5, <2>1, OwnStep
    <3> QED  BY <3>1
  <2>2. CASE Whole(h)
    BY <1>4, <2>2 DEF Whole
  <2>3. ASSUME NEW u \in Threads, req[u].phase = "detail", req[u].house = h
        PROVE  Whole(h)' \/ \E v \in Threads : req'[v].phase = "detail" /\ req'[v].house = h
    <3>1. CASE u = t
      BY <2>3, <3>1, OwnStep DEF Whole
    <3>2. CASE u # t
      BY <1>2, <2>3, <3>2
    <3> QED  BY <3>1, <3>2
  <2> QED  BY <2>1, <2>2, <2>3 DEF Saved
<1>6. ASSUME NEW u \in Threads, req'[u].phase # "idle"
      PROVE  "house" \in rows'[req'[u].house]
  <2>1. CASE u = t
    BY <1>6, <2>1, OwnStep
  <2>2. CASE u # t
    BY <1>2, <1>4, <1>6, <2>2 DEF Saved
  <2> QED  BY <2>1, <2>2
<1>7. ASSUME NEW u \in Threads, req'[u].phase = "status" PROVE Moving(u)'
  <2>1. CASE u = t
    BY <1>7, <2>1, OwnStep
  <2>2. CASE u # t
    <3>1. /\ req'[u] = req[u] /\ Moving(u)
          /\ status'[req[u].house] = status[req[u].house]
          /\ rows'[req[u].house] = rows[req[u].house]
      BY <1>1, <1>2, <1>3, <1>7, <2>2 DEF Turn, Ready
    <3> QED  BY <3>1 DEF Moving, Whole
  <2> QED  BY <2>1, <2>2
<1> QED  BY <1>4, <1>5, <1>6, <1>7 DEF Saved, Ready

\* A message says that the status of a house moves on, from one that is not
\* final; nothing else changes what was said of it last.
Sending(g, s) ==
  /\ HS!Announced(g) \in HS!Statuses
  /\ HS!Announced(g) \notin HS!Terminal /\ s # HS!Announced(g)
  /\ Whole(g)
  /\ topic' = Append(topic, HS!Message(g, HS!OperationFor(s), 0))
  /\ \A h \in Houses : HS!Announced(h)' = IF g = h THEN s ELSE HS!Announced(h)

\* Each step of the house service sends one such message, or none.
LEMMA SendStep ==
  ASSUME Undisturbed, CalmInv, Ready, NEW t \in Threads, HS!Arrive(t) \/ HS!Continue(t)
  PROVE  \/ UNCHANGED topic /\ \A h \in Houses : HS!Announced(h)' = HS!Announced(h)
         \/ \E g \in Houses, s \in HS!Statuses : Sending(g, s)
<1>1. /\ Calm /\ Shared /\ ServiceInv
      /\ topic \in Seq(SS!HouseIndexMessage)
  BY UndisturbedIsCalm DEF CalmInv, ListenerInv, ListenerTypes
<1>2. \A h \in Houses : Announces(h)
  BY <1>1, ServiceAnnounces
<1>3. \A m : topic # Append(topic, m)
  BY <1>1
<1>4. CASE UNCHANGED topic
  BY <1>2, <1>3, <1>4 DEF Announces
<1>5. CASE HS!StatusWrite(t)
  <2>g. PICK g \in Houses, s \in HS!Statuses : g = req[t].house /\ s = req[t].status
    BY <1>1 DEF Shared, SharedTypes, HS!Request
  <2>1. /\ req[t].phase = "status" /\ lock[g] = NoThread /\ lock' = [lock EXCEPT ![g] = t]
        /\ req' = [req EXCEPT ![t].phase = "sent"]
        /\ req \in [Threads -> HS!Request] /\ lock \in [Houses -> Threads \cup {NoThread}]
    BY <1>1, <1>5, <2>g
       DEF HS!StatusWrite, HS!Unlocked, Shared, SharedTypes, HS!Request, ServiceInv, Locks,
           LocksTyped
  <2>2. topic' = Append(topic, HS!Message(g, HS!OperationFor(s), 0))
    BY <1>5, <2>g, UndisturbedMishaps DEF HS!StatusWrite
  <2>3. Moving(t)
    BY <2>1 DEF Ready
  <2>4. /\ HS!Announced(g) = status[g] /\ status[g] \in HS!Statuses
        /\ HS!Announced(g)' = s
    <3>1. lock'[g] = t /\ t # NoThread /\ req'[t].status = s
      BY <2>1, <2>g, NoThreadKnown DEF HS!Request
    <3> QED  BY <1>1, <2>1, <3>1 DEF HS!Announced, HS!Unlocked, Shared, SharedTypes
  <2>5. ASSUME NEW h \in Houses, h # g PROVE HS!Announced(h)' = HS!Announced(h)
    <3>1. PICK i \in Houses, u \in HS!Statuses :
            /\ topic' = Append(topic, HS!Message(i, HS!OperationFor(u), 0))
            /\ HS!Announced(h)' = IF i = h THEN u ELSE HS!Announced(h)
      BY <1>2, <1>3, <2>2 DEF Announces
    <3> DEFINE m == HS!Message(g, HS!OperationFor(s), 0)
               n == HS!Message(i, HS!OperationFor(u), 0)
    <3>2. m.houseId = g /\ n.houseId = i
      BY DEF HS!Message
    <3>3. Append(topic, m) = Append(topic, n)
      BY <2>2, <3>1
    <3> HIDE DEF m, n
    <3>4. m = n
      BY <1>1, <3>3
    <3> QED  BY <2>5, <3>1, <3>2, <3>4
  <2>6. Sending(g, s)
    BY <2>g, <2>2, <2>3, <2>4, <2>5 DEF Sending, Moving
  <2> QED  BY <2>6
<1>6. HS!StatusWrite(t) \/ UNCHANGED topic
  BY DEF HS!Arrive, HS!Continue, HS!SaveHouse, HS!UpdateRead, HS!StatusRead, HS!SavePart,
         HS!CallFails, HS!UpdateCommit, HS!UpdateRefused, HS!StatusCommit, HS!StatusRollback
<1> QED  BY <1>4, <1>5, <1>6

-----------------------------------------------------------------------------
(***************************************************************************)
(* The changes in the topic, by rank.                                      *)
(***************************************************************************)
Rank(S, i) == Cardinality({j \in S : j <= i})

\* What the messages at places S of log ask for.
Asked(S, log) == [k \in 1 .. Cardinality(S) |-> log[Nth(S, k)].operation = INDEX]

Places(S) == S \subseteq Nat /\ IsFiniteSet(S)

\* Ranks grow with the places, from 1 to their number.
LEMMA RankGrows ==
  ASSUME NEW S, Places(S), NEW i \in S, NEW k \in S, i < k
  PROVE  Rank(S, i) < Rank(S, k)
<1> DEFINE A == {j \in S : j <= i}
           B == {j \in S : j <= k}
<1>n. i \in Nat /\ k \in Nat /\ \A j \in S : j \in Nat
  BY DEF Places
<1>1. A \in SUBSET B /\ B \in SUBSET S /\ k \in B /\ k \notin A
  <2>1. \A j \in S : j <= i => j <= k
    BY <1>n
  <2>2. k <= k /\ ~ (k <= i)
    BY <1>n
  <2> QED  BY <2>1, <2>2
<1>2. A # B
  BY <1>1
<1>3. IsFiniteSet(B)
  BY <1>1, FS_Subset DEF Places
<1> HIDE DEF A, B
<1>4. /\ IsFiniteSet(A) /\ Cardinality(A) <= Cardinality(B)
      /\ Cardinality(B) = Cardinality(A) => B = A
  BY <1>1, <1>3, FS_Subset
<1>5. Cardinality(A) \in Nat /\ Cardinality(B) \in Nat
  BY <1>3, <1>4, FS_CardinalityType
<1>6. Cardinality(A) < Cardinality(B)
  BY <1>2, <1>4, <1>5
<1> QED  BY <1>6 DEF Rank, A, B

LEMMA RankRange ==
  ASSUME NEW S, Places(S), NEW i \in S
  PROVE  Rank(S, i) \in 1 .. Cardinality(S)
<1> DEFINE A == {j \in S : j <= i}
<1>1. A \in SUBSET S /\ i \in A
  BY DEF Places
<1> HIDE DEF A
<1>2. IsFiniteSet(A) /\ Cardinality(A) <= Cardinality(S)
  BY <1>1, FS_Subset DEF Places
<1>3. Cardinality(A) \in Nat /\ Cardinality(S) \in Nat
  BY <1>2, FS_CardinalityType DEF Places
<1>4. Cardinality(A) # 0
  BY <1>1, <1>2, FS_EmptySet
<1>5. Cardinality(A) \in 1 .. Cardinality(S)
  BY <1>2, <1>3, <1>4
<1> QED  BY <1>5 DEF Rank, A

\* The place of rank k is the one at which the ranks count to k.
LEMMA NthIs ==
  ASSUME NEW S, Places(S), NEW i \in S
  PROVE  Nth(S, Rank(S, i)) = i
<1>1. ASSUME NEW k \in S, Rank(S, k) = Rank(S, i) PROVE k = i
  <2>1. i \in Nat /\ k \in Nat /\ Rank(S, i) \in Nat
    <3>1. Rank(S, i) \in 1 .. Cardinality(S) /\ Cardinality(S) \in Nat
      BY RankRange, FS_CardinalityType DEF Places
    <3> QED  BY <3>1 DEF Places
  <2>2. ~ (i < k) /\ ~ (k < i)
    BY <1>1, <2>1, RankGrows
  <2> QED  BY <2>1, <2>2
<1>2. Nth(S, Rank(S, i)) = CHOOSE k \in S : Rank(S, k) = Rank(S, i)
  BY DEF Nth, Rank
<1> QED  BY <1>1, <1>2

\* Each rank up to the number of places is taken: they are all different.
LEMMA NthIn ==
  ASSUME NEW S, Places(S), NEW k \in 1 .. Cardinality(S)
  PROVE  Nth(S, k) \in S /\ Rank(S, Nth(S, k)) = k
<1> DEFINE T == 1 .. Cardinality(S)
           f == [i \in S |-> Rank(S, i)]
<1>1. Cardinality(S) \in Nat
  BY FS_CardinalityType DEF Places
<1>2. IsFiniteSet(T) /\ Cardinality(T) = Cardinality(S)
  BY <1>1, FS_Interval
<1>3. f \in [S -> T]
  BY RankRange
<1>4. \A i, j \in S : f[i] = f[j] => i = j
  BY NthIs
<1>5. f \in Injection(S, T)
  BY <1>3, <1>4 DEF Injection, IsInjective
<1> HIDE DEF f, T
<1>6. f \in Surjection(S, T)
  BY <1>2, <1>5, FS_Injection
<1> USE DEF f, T
<1>7. PICK i \in S : f[i] = k
  BY <1>6 DEF Surjection
<1>8. Rank(S, i) = k
  BY <1>7
<1> QED  BY <1>8, NthIs

\* Asked depends on what the log says at the places only.
LEMMA AskedSame ==
  ASSUME NEW S, Places(S), NEW log, NEW next,
         \A i \in S : next[i].operation = log[i].operation
  PROVE  Asked(S, next) = Asked(S, log)
BY NthIn DEF Asked

LEMMA AskedType ==
  ASSUME NEW S, Places(S), NEW log
  PROVE  Asked(S, log) \in Seq(BOOLEAN) /\ Len(Asked(S, log)) = Cardinality(S)
<1>1. Cardinality(S) \in Nat
  BY FS_CardinalityType DEF Places
<1>2. Asked(S, log) \in [1 .. Cardinality(S) -> BOOLEAN]
  <2>1. \A k \in 1 .. Cardinality(S) : (log[Nth(S, k)].operation = INDEX) \in BOOLEAN
    OBVIOUS
  <2> QED  BY <2>1, Zenon DEF Asked
<1> QED  BY <1>1, <1>2

\* One more place behind the others.
LEMMA AskedAppend ==
  ASSUME NEW S, Places(S), NEW m \in Nat, \A i \in S : i < m, NEW log, NEW next,
         \A i \in S : next[i].operation = log[i].operation,
         NEW on \in BOOLEAN, on <=> next[m].operation = INDEX
  PROVE  Asked(S \cup {m}, next) = Append(Asked(S, log), on)
<1> DEFINE U == S \cup {m}
           n == Cardinality(S)
<1>1. Places(U) /\ n \in Nat /\ Cardinality(U) = n + 1
  <2>1. m \notin S
    BY DEF Places
  <2> QED  BY <2>1, FS_AddElement, FS_CardinalityType DEF Places
<1>2. ASSUME NEW k \in 1 .. n PROVE Nth(U, k) = Nth(S, k) /\ Nth(S, k) \in S
  <2> DEFINE i == Nth(S, k)
  <2>1. i \in S /\ Rank(S, i) = k
    BY NthIn
  <2>2. {j \in U : j <= i} = {j \in S : j <= i}
    <3>1. i \in Nat /\ i < m
      BY <2>1 DEF Places
    <3>2. ~ (m <= i)
      BY <3>1
    <3> QED  BY <3>2
  <2>3. Rank(U, i) = k
    BY <2>1, <2>2 DEF Rank
  <2> HIDE DEF U, i
  <2>4. i \in U
    BY <2>1 DEF U
  <2>5. Nth(U, k) = i
    BY <1>1, <2>3, <2>4, NthIs
  <2> QED  BY <2>1, <2>5 DEF i
<1>3. Nth(U, n + 1) = m
  <2>1. {j \in U : j <= m} = U
    <3>1. \A j \in S : j \in Nat /\ j < m
      BY DEF Places
    <3>2. \A j \in U : j <= m
      BY <3>1
    <3> QED  BY <3>2
  <2>2. Rank(U, m) = n + 1 /\ m \in U
    BY <1>1, <2>1 DEF Rank
  <2> HIDE DEF U
  <2> QED  BY <1>1, <2>2, NthIs
<1>4. /\ Asked(S, log) \in Seq(BOOLEAN) /\ Len(Asked(S, log)) = n
      /\ Asked(U, next) \in Seq(BOOLEAN) /\ Len(Asked(U, next)) = n + 1
  BY <1>1, AskedType
<1> HIDE DEF U
<1>5. ASSUME NEW k \in 1 .. n + 1
      PROVE  Asked(U, next)[k] = Append(Asked(S, log), on)[k]
  <2>1. Asked(U, next)[k] = (next[Nth(U, k)].operation = INDEX)
    BY <1>1 DEF Asked
  <2>2. CASE k = n + 1
    BY <1>3, <1>4, <2>1, <2>2
  <2>3. CASE k # n + 1
    <3>1. k \in 1 .. n
      BY <1>1, <2>3
    <3>2. Asked(S, log)[k] = (log[Nth(S, k)].operation = INDEX)
      BY <3>1 DEF Asked
    <3>3. Nth(U, k) = Nth(S, k) /\ Nth(S, k) \in S
      BY <1>2, <3>1
    <3>4. Append(Asked(S, log), on)[k] = Asked(S, log)[k]
      BY <1>4, <3>1
    <3> QED  BY <2>1, <3>2, <3>3, <3>4
  <2> QED  BY <2>2, <2>3
<1>6. /\ Append(Asked(S, log), on) \in Seq(BOOLEAN)
      /\ Len(Append(Asked(S, log), on)) = n + 1
  BY <1>4, AppendProperties
<1>7. Asked(U, next) = Append(Asked(S, log), on)
  BY <1>4, <1>5, <1>6, SeqEqual
<1> QED  BY <1>7 DEF U

\* The first place gone.
LEMMA AskedTail ==
  ASSUME NEW S, Places(S), NEW m \in S, \A i \in S : m <= i, NEW log
  PROVE  /\ Asked(S, log) # <<>>
         /\ Head(Asked(S, log)) = (log[m].operation = INDEX)
         /\ Asked(S \ {m}, log) = Tail(Asked(S, log))
<1> DEFINE U == S \ {m}
           n == Cardinality(S)
<1>1. Places(U) /\ n \in Nat \ {0} /\ Cardinality(U) = n - 1
  <2>1. n # 0
    BY FS_EmptySet DEF Places
  <2> QED  BY <2>1, FS_RemoveElement, FS_CardinalityType DEF Places
<1>2. Nth(S, 1) = m
  <2>1. {j \in S : j <= m} = {m}
    <3>1. \A j \in S : j \in Nat /\ m <= j
      BY DEF Places
    <3>2. \A j \in S : j <= m <=> j = m
      BY <3>1
    <3> QED  BY <3>2
  <2>2. Rank(S, m) = 1
    BY <2>1, FS_Singleton DEF Rank
  <2> QED  BY <2>2, NthIs
<1>3. ASSUME NEW k \in 1 .. n - 1 PROVE Nth(S, k + 1) = Nth(U, k)
  <2> DEFINE i == Nth(U, k)
             A == {j \in U : j <= i}
  <2>1. i \in U /\ Rank(U, i) = k
    <3> HIDE DEF U
    <3> QED  BY <1>1, NthIn
  <2>2. {j \in S : j <= i} = A \cup {m} /\ m \notin A
    BY <2>1 DEF Places
  <2>3. A \in SUBSET U
    OBVIOUS
  <2>4. IsFiniteSet(A)
    <3> HIDE DEF A, U
    <3> QED  BY <1>1, <2>3, FS_Subset DEF Places
  <2>a. Cardinality(A) = k
    BY <2>1 DEF Rank
  <2>5. Cardinality(A \cup {m}) = k + 1
    <3> HIDE DEF A
    <3> QED  BY <2>2, <2>4, <2>a, FS_AddElement
  <2>6. Rank(S, i) = k + 1
    <3> HIDE DEF A, i
    <3> QED  BY <2>2, <2>5 DEF Rank
  <2> QED  BY <2>1, <2>6, NthIs
<1>4. /\ Asked(S, log) \in Seq(BOOLEAN) /\ Len(Asked(S, log)) = n
      /\ Asked(U, log) \in Seq(BOOLEAN) /\ Len(Asked(U, log)) = n - 1
  BY <1>1, AskedType
<1> HIDE DEF U
<1>5. Asked(S, log) # <<>>
  BY <1>1, <1>4
<1>6. \A k \in 1 .. n : Asked(S, log)[k] = (log[Nth(S, k)].operation = INDEX)
  BY DEF Asked
<1>7. Head(Asked(S, log)) = (log[m].operation = INDEX)
  BY <1>1, <1>2, <1>4, <1>6
<1>8. /\ Tail(Asked(S, log)) \in Seq(BOOLEAN) /\ Len(Tail(Asked(S, log))) = n - 1
      /\ \A k \in 1 .. n - 1 : Tail(Asked(S, log))[k] = Asked(S, log)[k + 1]
  BY <1>1, <1>4, <1>5, HeadTailProperties
<1>9. ASSUME NEW k \in 1 .. n - 1 PROVE Asked(U, log)[k] = Tail(Asked(S, log))[k]
  <2>1. Asked(U, log)[k] = (log[Nth(U, k)].operation = INDEX)
    BY <1>1 DEF Asked
  <2>2. k + 1 \in 1 .. n
    BY <1>1
  <2> QED  BY <1>3, <1>6, <1>8, <2>1, <2>2
<1>10. Asked(U, log) = Tail(Asked(S, log))
  BY <1>4, <1>8, <1>9, SeqEqual
<1> QED  BY <1>5, <1>7, <1>10 DEF U

\* All places moved by p.
LEMMA AskedShift ==
  ASSUME NEW S, Places(S), NEW p \in Nat, \A i \in S : p <= i, NEW log, NEW next,
         \A i \in S : next[i - p] = log[i]
  PROVE  Asked({i - p : i \in S}, next) = Asked(S, log)
<1> DEFINE U == {i - p : i \in S}
           f == [i \in S |-> i - p]
<1>1. S \subseteq Nat /\ U \subseteq Nat /\ \A i, j \in S : i - p <= j - p <=> i <= j
  BY DEF Places
<1>2. ASSUME NEW A \in SUBSET S
      PROVE  /\ IsFiniteSet({i - p : i \in A})
             /\ Cardinality({i - p : i \in A}) = Cardinality(A)
  <2> DEFINE B == {i - p : i \in A}
             g == [i \in A |-> i - p]
  <2>1. g \in Bijection(A, B)
    BY <1>1 DEF Bijection, Injection, Surjection, IsInjective
  <2>2. IsFiniteSet(A)
    BY FS_Subset DEF Places
  <2> HIDE DEF B, g
  <2>3. ExistsBijection(A, B)
    BY <2>1 DEF ExistsBijection
  <2>4. IsFiniteSet(B) /\ Cardinality(B) = Cardinality(A)
    BY <2>2, <2>3, FS_Bijection
  <2> QED  BY <2>4 DEF B
<1>3. Places(U) /\ Cardinality(U) = Cardinality(S)
  BY <1>1, <1>2 DEF Places
<1>4. ASSUME NEW k \in 1 .. Cardinality(S)
      PROVE  Nth(U, k) = Nth(S, k) - p /\ Nth(S, k) \in S
  <2> DEFINE i == Nth(S, k)
             A == {j \in S : j <= i}
  <2>1. i \in S /\ Rank(S, i) = k
    BY NthIn
  <2>2. {j \in U : j <= i - p} = {j - p : j \in A}
    <3> HIDE DEF i
    <3>1. \A j \in S : j - p <= i - p <=> j <= i
      BY <1>1, <2>1
    <3> QED  BY <3>1
  <2>3. Cardinality({j - p : j \in A}) = Cardinality(A)
    <3>1. A \in SUBSET S
      OBVIOUS
    <3> HIDE DEF A
    <3> QED  BY <1>2, <3>1
  <2>4. Rank(U, i - p) = k
    <3> HIDE DEF U, i
    <3> QED  BY <2>1, <2>2, <2>3 DEF Rank
  <2>5. i - p \in U
    BY <2>1
  <2> HIDE DEF U, i
  <2>6. Nth(U, k) = i - p
    BY <1>3, <2>4, <2>5, NthIs
  <2> QED  BY <2>1, <2>6 DEF i
<1> HIDE DEF U
<1>5. Asked(U, next) = Asked(S, log)
  BY <1>3, <1>4 DEF Asked
<1> QED  BY <1>5 DEF U

-----------------------------------------------------------------------------
(***************************************************************************)
(* The topic.  Whether a house will be in the index once the changes in    *)
(* front of place i are applied is told by the last of them.               *)
(***************************************************************************)

First ==
  IF handler.phase \in {"idle", "upload", "unload"} THEN position + 1 ELSE position

Placed == topic \in Seq(SS!HouseIndexMessage) /\ First \in 1 .. Len(topic) + 1

On(h, i) ==
  \/ \E j \in Changes(h) :
       j < i /\ topic[j].operation = INDEX /\ \A k \in Changes(h) : ~ (j < k /\ k < i)
  \/ Indexed(h) /\ \A k \in Changes(h) : ~ (k < i)

\* House h is rented or deleted, and nothing behind place i lists it.
Over(h, i) ==
  /\ HS!Announced(h) \in HS!Terminal
  /\ \A j \in Unapplied : i < j /\ topic[j].houseId = h => topic[j].operation # INDEX

Gone(h) == ~ Indexed(h) /\ Over(h, 0)

(***************************************************************************)
(* Each INDEX message is the first try and finds what it needs; a removal  *)
(* is sent again only for a house that is gone for good; one that is no    *)
(* repetition finds the house in the index, or the house is about to be    *)
(* gone; and a listed house will be in the index.                          *)
(***************************************************************************)
MessageInOrder(h, i) ==
  /\ topic[i].operation = INDEX => topic[i].retry = 0 /\ Whole(h)
  /\ topic[i].retry # 0 => Gone(h)
  /\ topic[i].retry = 0 /\ topic[i].operation # INDEX => On(h, i) \/ Over(h, i)

Orderly(h) ==
  /\ \A i \in Unapplied : topic[i].houseId = h => MessageInOrder(h, i)
  /\ HS!Announced(h) = HS!PASSES => On(h, Len(topic) + 1)

\* Unapplied and Pending in terms of First and Asked.
LEMMA UnappliedIs == Unapplied = First .. Len(topic)
BY DEF Unapplied, First

LEMMA ChangesAre ==
  ASSUME Placed, NEW h \in Houses
  PROVE  /\ Places(Changes(h)) /\ Changes(h) \subseteq 1 .. Len(topic)
         /\ Pending(h) = Asked(Changes(h), topic)
<1>1. /\ Changes(h) \subseteq 1 .. Len(topic)
      /\ Len(topic) \in Nat
  BY DEF Changes, Unapplied, First, Placed
<1>2. IsFiniteSet(1 .. Len(topic))
  BY <1>1, FS_Interval
<1>3. IsFiniteSet(Changes(h)) /\ Changes(h) \subseteq Nat
  BY <1>1, <1>2, FS_Subset
<1> QED  BY <1>1, <1>3 DEF Places, Pending, Asked

\* What a step leaves alone about house h.
HouseKept(h) ==
  /\ Indexed(h)' <=> Indexed(h)
  /\ HS!Announced(h)' = HS!Announced(h)
  /\ rows[h] \subseteq rows'[h]

\* Index and topic stay as they are for house h.
LEMMA OrderlyKept ==
  ASSUME Placed, NEW h \in Houses, HouseKept(h), First' = First, topic' = topic
  PROVE  /\ Orderly(h) => Orderly(h)'
         /\ Gone(h) => Gone(h)'
         /\ Pending(h)' = Pending(h)
<1>1. Unapplied' = Unapplied /\ Changes(h)' = Changes(h)
  BY UnappliedIs DEF Unapplied, First, Changes
<1>2. \A i : Over(h, i) => (Over(h, i))'
  BY <1>1 DEF Over, HouseKept
<1>3. Gone(h) => Gone(h)'
  BY <1>1 DEF Gone, Over, HouseKept
<1>4. Pending(h)' = Pending(h)
  BY <1>1 DEF Pending
<1> QED  BY <1>1, <1>3, <1>4 DEF Orderly, MessageInOrder, Over, On, Whole, HouseKept

\* A message is appended that is no change of h: one of another house, or a
\* removal repeated for a house that is gone.
LEMMA OrderlyBeside ==
  ASSUME Placed, NEW h \in Houses, HouseKept(h), First' = First,
         NEW m \in SS!HouseIndexMessage, topic' = Append(topic, m),
         m.houseId = h => m.operation # INDEX /\ m.retry # 0 /\ Gone(h)
  PROVE  /\ Orderly(h) => Orderly(h)'
         /\ Gone(h) => Gone(h)'
         /\ Pending(h)' = Pending(h)
<1>1. /\ topic \in Seq(SS!HouseIndexMessage) /\ First \in Nat /\ Len(topic) \in Nat
      /\ Len(topic') = Len(topic) + 1 /\ topic'[Len(topic) + 1] = m
      /\ First <= Len(topic) + 1 /\ 1 <= First
      /\ \A i \in 1 .. Len(topic) : topic'[i] = topic[i]
  BY DEF Placed
<1>2. /\ Unapplied' = Unapplied \cup {Len(topic) + 1}
      /\ Unapplied \subseteq 1 .. Len(topic)
  <2>1. Unapplied = First .. Len(topic) /\ Unapplied' = First' .. Len(topic')
    BY DEF Unapplied, First
  <2> QED  BY <1>1, <2>1
<1>3. Changes(h)' = Changes(h)
  BY <1>1, <1>2 DEF Changes
<1>4. \A i \in Changes(h) : i \in 1 .. Len(topic) /\ topic'[i] = topic[i]
  BY <1>1, <1>2 DEF Changes
<1>5. \A i \in Nat : Over(h, i) => (Over(h, i))'
  BY <1>1, <1>2 DEF Over, HouseKept
<1>6. Gone(h) => Gone(h)'
  BY <1>1, <1>2 DEF Gone, Over, HouseKept
<1>7. ASSUME NEW i \in Nat, On(h, i)
      PROVE  (On(h, i))'
  BY <1>3, <1>4, <1>7 DEF On, HouseKept
<1>8. ASSUME On(h, Len(topic) + 1)
      PROVE  On(h, Len(topic) + 1)'
  <2>1. ASSUME NEW j \in Changes(h), ~ (\E k \in Changes(h) : j < k /\ k < Len(topic) + 1)
        PROVE  ~ (\E k \in Changes(h) : j < k /\ k < Len(topic') + 1)
    BY <1>1, <1>4, <2>1
  <2>2. ASSUME \A k \in Changes(h) : ~ (k < Len(topic) + 1)
        PROVE  \A k \in Changes(h) : ~ (k < Len(topic') + 1)
    BY <1>1, <1>4, <2>2
  <2>3. \A j \in Changes(h) : j < Len(topic') + 1
    BY <1>1, <1>4
  <2> QED  BY <1>1, <1>3, <1>4, <1>8, <2>1, <2>2, <2>3 DEF On, HouseKept
<1>9. ASSUME Orderly(h) PROVE Orderly(h)'
  <2>1. ASSUME NEW i \in Unapplied', topic'[i].houseId = h
        PROVE  (MessageInOrder(h, i))'
    <3>1. CASE i = Len(topic) + 1
      BY <1>1, <1>6, <2>1, <3>1 DEF MessageInOrder
    <3>2. CASE i # Len(topic) + 1
      <4>1. i \in Unapplied /\ topic'[i] = topic[i] /\ i \in Nat
        <5>1. i \in Unapplied
          BY <1>2, <3>2
        <5>2. i \in 1 .. Len(topic)
          BY <1>2, <5>1
        <5> QED  BY <1>1, <5>1, <5>2
      <4>2. MessageInOrder(h, i)
        BY <1>9, <2>1, <4>1 DEF Orderly
      <4> QED  BY <1>5, <1>6, <1>7, <4>1, <4>2 DEF MessageInOrder, Whole, HouseKept
    <3> QED  BY <3>1, <3>2
  <2>2. ASSUME HS!Announced(h)' = HS!PASSES PROVE On(h, Len(topic) + 1)'
    BY <1>8, <1>9, <2>2 DEF Orderly, HouseKept
  <2> QED  BY <2>1, <2>2 DEF Orderly
<1>10. Pending(h)' = Pending(h)
  <2>1. Places(Changes(h)) /\ Pending(h) = Asked(Changes(h), topic)
    BY ChangesAre
  <2>2. Pending(h)' = Asked(Changes(h)', topic')
    BY DEF Pending, Asked
  <2>3. Asked(Changes(h), topic') = Asked(Changes(h), topic)
    BY <1>4, <2>1, AskedSame
  <2> QED  BY <1>3, <2>1, <2>2, <2>3
<1> QED  BY <1>6, <1>9, <1>10

\* A change of h is sent.
LEMMA OrderlySent ==
  ASSUME Placed, NEW h \in Houses, NEW s \in HS!Statuses, Sending(h, s),
         Orderly(h), First' = First, Indexed(h)' <=> Indexed(h), rows[h] \subseteq rows'[h]
  PROVE  /\ Orderly(h)'
         /\ s = HS!PASSES => Pending(h)' = Append(Pending(h), TRUE)
         /\ s # HS!PASSES => Pending(h)' = Append(Pending(h), FALSE)
<1> DEFINE m == HS!Message(h, HS!OperationFor(s), 0)
<1>m. /\ m \in SS!HouseIndexMessage /\ m.houseId = h /\ m.retry = 0
      /\ m.operation = IF s = HS!PASSES THEN INDEX ELSE REMOVE
  <2>1. HS!OperationFor(s) = IF s = HS!PASSES THEN INDEX ELSE REMOVE
    BY DEF HS!OperationFor, HS!INDEX, HS!REMOVE
  <2>2. HS!OperationFor(s) \in {SS!INDEX, SS!REMOVE}
    BY <2>1
  <2> QED  BY <2>1, <2>2 DEF HS!Message, SS!HouseIndexMessage
<1>n. PICK n \in Nat : n = Len(topic) + 1
  BY DEF Placed
<1>s. /\ HS!Announced(h) \in HS!Statuses
      /\ HS!Announced(h) \notin HS!Terminal /\ s # HS!Announced(h) /\ Whole(h)
      /\ topic' = Append(topic, m) /\ HS!Announced(h)' = s
  BY DEF Sending
<1> HIDE DEF m
<1>1. /\ topic \in Seq(SS!HouseIndexMessage) /\ First \in Nat /\ Len(topic) \in Nat
      /\ Len(topic') = n /\ topic'[n] = m
      /\ First <= n /\ 1 <= First
      /\ \A i \in 1 .. Len(topic) : topic'[i] = topic[i]
  BY <1>m, <1>n, <1>s DEF Placed
<1>2. /\ Unapplied' = Unapplied \cup {n}
      /\ Unapplied \subseteq 1 .. Len(topic)
  <2>1. Unapplied = First .. Len(topic) /\ Unapplied' = First' .. Len(topic')
    BY DEF Unapplied, First
  <2> QED  BY <1>n, <1>1, <2>1
<1>3. Changes(h)' = Changes(h) \cup {n}
  BY <1>m, <1>1, <1>2 DEF Changes
<1>4. \A i \in Changes(h) : i \in Nat /\ topic'[i] = topic[i] /\ i < n
  <2>1. \A i \in Changes(h) : i \in 1 .. Len(topic)
    BY <1>2 DEF Changes
  <2> QED  BY <1>n, <1>1, <2>1
<1>5. ASSUME NEW i \in Nat, i <= n, On(h, i)
      PROVE  (On(h, i))'
  <2>1. \A k \in Changes(h)' : k < i => k \in Changes(h)
    BY <1>1, <1>3, <1>5
  <2> QED  BY <1>3, <1>4, <1>5, <2>1 DEF On
\* Nothing behind it, so far.
<1>6. ASSUME s \in HS!Terminal PROVE (Over(h, n))'
  <2>1. \A j \in Unapplied' : ~ (n < j)
    BY <1>n, <1>1, <1>2
  <2> QED  BY <1>s, <1>6, <2>1 DEF Over
<1>7. ASSUME NEW i \in Unapplied', topic'[i].houseId = h
      PROVE  (MessageInOrder(h, i))'
  <2>1. CASE i = n
    <3>1. CASE s = HS!PASSES
      BY <1>m, <1>s, <1>1, <2>1, <3>1 DEF MessageInOrder, Whole
    <3>2. CASE s # HS!PASSES
      <4>1. HS!Announced(h) = HS!PASSES \/ s \in HS!Terminal
        BY <1>s, <3>2 DEF HS!Terminal, HS!Statuses
      <4> QED
        BY <1>m, <1>n, <1>s, <1>1, <1>5, <1>6, <2>1, <3>2, <4>1 DEF MessageInOrder, Orderly
    <3> QED  BY <3>1, <3>2
  <2>2. CASE i # n
    <3>1. i \in Unapplied /\ i \in Nat /\ i <= n /\ topic'[i] = topic[i]
      BY <1>n, <1>1, <1>2, <1>7, <2>2
    <3>3. MessageInOrder(h, i)
      BY <1>7, <3>1 DEF Orderly
    <3>2. ~ Over(h, i) /\ ~ Gone(h)
      BY <1>s DEF Over, Gone
    <3> QED  BY <1>5, <3>1, <3>2, <3>3 DEF MessageInOrder, Whole
  <2> QED  BY <2>1, <2>2
<1>8. ASSUME s = HS!PASSES PROVE On(h, Len(topic) + 1)'
  <2>1. /\ n \in Changes(h)' /\ n < Len(topic') + 1 /\ topic'[n].operation = INDEX
        /\ \A k \in Changes(h)' : ~ (n < k /\ k < Len(topic') + 1)
    BY <1>m, <1>1, <1>3, <1>4, <1>8
  <2> QED  BY <2>1 DEF On
<1>9. Orderly(h)'
  BY <1>s, <1>7, <1>8 DEF Orderly
\* The topic as the lemmas about places see it.
<1> DEFINE S == Changes(h)
           log == topic
           next == topic'
<1>10. /\ Places(S) /\ \A i \in S : i < n
       /\ \A i \in S : next[i].operation = log[i].operation
  BY <1>4, ChangesAre
<1>14. /\ next[n].operation = IF s = HS!PASSES THEN INDEX ELSE REMOVE
       /\ Pending(h) = Asked(S, log)
  BY <1>m, <1>1, ChangesAre
<1>11. Pending(h)' = Asked(S \cup {n}, next)
  BY <1>3 DEF Pending, Asked
<1> HIDE DEF S, log, next
<1>12. CASE s = HS!PASSES
  <2>1. next[n].operation = INDEX
    BY <1>14, <1>12
  <2>2. Asked(S \cup {n}, next) = Append(Asked(S, log), ~ FALSE)
    BY ONLY n \in Nat, <1>10, <2>1, AskedAppend, ZenonT(60)
  <2> QED  BY <1>9, <1>14, <1>11, <1>12, <2>2
<1>13. CASE s # HS!PASSES
  <2>1. next[n].operation # INDEX
    BY <1>14, <1>13
  <2>2. Asked(S \cup {n}, next) = Append(Asked(S, log), FALSE)
    BY ONLY n \in Nat, <1>10, <2>1, AskedAppend, ZenonT(60)
  <2> QED  BY <1>9, <1>14, <1>11, <1>13, <2>2
<1> QED  BY <1>12, <1>13

\* The first message not applied is a change of h, and is applied.
LEMMA OrderlyApplied ==
  ASSUME Placed, NEW h \in Houses, Orderly(h),
         First <= Len(topic), topic[First].houseId = h, topic[First].retry = 0,
         First' = First + 1, topic' = topic,
         Indexed(h)' <=> topic[First].operation = INDEX,
         HS!Announced(h)' = HS!Announced(h), rows[h] \subseteq rows'[h]
  PROVE  /\ Orderly(h)'
         /\ Gone(h) => Gone(h)'
         /\ Pending(h) # <<>>
         /\ Head(Pending(h)) <=> topic[First].operation = INDEX
         /\ Pending(h)' = Tail(Pending(h))
<1>f. PICK f \in Nat : f = First
  BY DEF Placed
<1>1. /\ Unapplied = f .. Len(topic) /\ Unapplied' = f + 1 .. Len(topic)
      /\ Len(topic) \in Nat /\ f \in 1 .. Len(topic)
  BY <1>f DEF Unapplied, First, Placed
<1>2. /\ f \in Changes(h) /\ \A i \in Changes(h) : i \in Nat /\ f <= i
      /\ Changes(h)' = Changes(h) \ {f}
  BY <1>f, <1>1 DEF Changes
<1>3. ASSUME NEW i \in Nat, f < i, On(h, i)
      PROVE  (On(h, i))'
  <2>1. PICK j \in Changes(h) :
          j < i /\ topic[j].operation = INDEX /\ \A k \in Changes(h) : ~ (j < k /\ k < i)
    BY <1>2, <1>3 DEF On
  <2>2. CASE j = f
    <3>0. ASSUME NEW k \in Changes(h)' PROVE k \in Changes(h) /\ f < k
      <4>1. k \in Changes(h) /\ k # f
        BY <1>2
      <4>2. k \in Nat /\ f <= k
        BY <1>2, <4>1
      <4> QED  BY <4>1, <4>2
    <3>1. \A k \in Changes(h)' : ~ (k < i)
      BY <2>1, <2>2, <3>0
    <3> QED  BY <1>f, <2>1, <2>2, <3>1 DEF On
  <2>3. CASE j # f
    BY <1>2, <2>1, <2>3 DEF On
  <2> QED  BY <2>2, <2>3
<1>4. \A i \in Nat : Over(h, i) => (Over(h, i))'
  BY <1>1 DEF Over
<1>5. Gone(h) => Gone(h)'
  <2>1. Gone(h) => topic[First].operation # INDEX
    BY <1>f, <1>1, <1>2 DEF Gone, Over
  <2> QED  BY <1>4, <2>1 DEF Gone
<1>6. ASSUME NEW i \in Unapplied', topic'[i].houseId = h
      PROVE  (MessageInOrder(h, i))'
  <2>1. i \in Nat /\ f < i /\ i \in Unapplied
    BY <1>1, <1>6
  <2>2. MessageInOrder(h, i)
    BY <1>6, <2>1 DEF Orderly
  <2> QED  BY <1>3, <1>4, <1>5, <2>1, <2>2 DEF MessageInOrder, Whole
<1>7. HS!Announced(h)' = HS!PASSES => On(h, Len(topic) + 1)'
  <2>1. f < Len(topic) + 1 /\ Len(topic) + 1 \in Nat /\ Len(topic') = Len(topic)
    BY <1>1
  <2> QED  BY <1>3, <2>1 DEF Orderly
<1>8. Orderly(h)'
  BY <1>6, <1>7 DEF Orderly
\* The topic as the lemmas about places see it.
<1> DEFINE S == Changes(h)
           log == topic
<1>9. Places(S) /\ f \in S /\ (\A i \in S : f <= i)
  <2>1. Places(S)
    BY ChangesAre
  <2> QED  BY <1>2, <2>1
<1>10. Pending(h) = Asked(S, log)
  BY ChangesAre
<1>11. Pending(h)' = Asked(S \ {f}, log)
  BY <1>2 DEF Pending, Asked
<1>12. (log[f].operation = INDEX) <=> topic[First].operation = INDEX
  BY <1>f
<1> HIDE DEF S, log
<1>13. /\ Asked(S, log) # <<>>
       /\ Head(Asked(S, log)) = (log[f].operation = INDEX)
       /\ Asked(S \ {f}, log) = Tail(Asked(S, log))
  BY ONLY <1>9, AskedTail
<1> QED  BY <1>5, <1>8, <1>10, <1>11, <1>12, <1>13

\* The first message not applied is no change of h.
LEMMA OrderlyPassed ==
  ASSUME Placed, NEW h \in Houses, HouseKept(h),
         First <= Len(topic), First' = First + 1, topic' = topic,
         topic[First].houseId = h => topic[First].retry # 0
  PROVE  /\ Orderly(h) => Orderly(h)'
         /\ Gone(h) => Gone(h)'
         /\ Pending(h)' = Pending(h)
<1>1. /\ Unapplied' \subseteq Unapplied /\ First \notin Unapplied'
      /\ Unapplied \subseteq Nat /\ Unapplied = Unapplied' \cup {First}
  BY DEF Unapplied, First, Placed
<1>2. Changes(h)' = Changes(h)
  BY <1>1 DEF Changes
<1>3. \A i : Over(h, i) => (Over(h, i))'
  BY <1>1 DEF Over, HouseKept
<1>4. Gone(h) => Gone(h)'
  BY <1>1 DEF Gone, Over, HouseKept
<1>5. Pending(h)' = Pending(h)
  BY <1>2 DEF Pending
<1> QED
  BY <1>1, <1>2, <1>4, <1>5 DEF Orderly, MessageInOrder, Over, On, Whole, HouseKept

\* The messages delivered so far leave the topic.
LEMMA OrderlyShifted ==
  ASSUME Placed, NEW h \in Houses, HouseKept(h),
         NEW p \in Nat, p < First, First' = First - p,
         topic' = SubSeq(topic, p + 1, Len(topic))
  PROVE  /\ Orderly(h) => Orderly(h)'
         /\ Gone(h) => Gone(h)'
         /\ Pending(h)' = Pending(h)
<1>1. /\ First \in Nat /\ Len(topic) \in Nat /\ First <= Len(topic) + 1 /\ p <= Len(topic)
      /\ Len(topic') = Len(topic) - p
      /\ \A i \in 1 .. Len(topic') : topic'[i] = topic[i + p]
  <2>1. p + 1 \in 1 .. Len(topic) + 1 /\ topic \in Seq(SS!HouseIndexMessage)
    BY DEF Placed
  <2> QED  BY <2>1 DEF Placed
<1>2. Unapplied = First .. Len(topic) /\ Unapplied' = First' .. Len(topic')
  BY DEF Unapplied, First
<1>3. \A i \in Int : /\ i \in Unapplied' <=> i + p \in Unapplied
                     /\ i \in Unapplied' => topic'[i] = topic[i + p]
  BY <1>1, <1>2
<1>4. /\ \A i \in Int : i \in Changes(h)' <=> i + p \in Changes(h)
      /\ \A i \in Changes(h)' : i \in Int /\ i + p \in Changes(h) /\ topic'[i] = topic[i + p]
      /\ \A i \in Changes(h) : i \in Int /\ i - p \in Changes(h)' /\ topic'[i - p] = topic[i]
                               /\ p <= i
  <2>1. /\ Unapplied \subseteq Int /\ Unapplied' \subseteq Int
        /\ \A i \in Unapplied : p <= i /\ (i - p) + p = i /\ i - p \in Int
    BY <1>1, <1>2
  <2> QED  BY <1>3, <2>1 DEF Changes
<1>5. ASSUME NEW i \in Nat
      PROVE  Over(h, i + p) => (Over(h, i))'
  <2> SUFFICES ASSUME Over(h, i + p), NEW j \in Unapplied', i < j, topic'[j].houseId = h
               PROVE  topic'[j].operation # INDEX
    BY DEF Over, HouseKept
  <2>1. j \in Int /\ j + p \in Unapplied /\ topic'[j] = topic[j + p] /\ i + p < j + p
    BY <1>1, <1>2, <1>3
  <2> QED  BY <2>1 DEF Over
<1>6. Gone(h) => Gone(h)'
  <2>1. Over(h, 0) => Over(h, 0 + p)
    BY <1>1, <1>2 DEF Over
  <2> QED  BY <1>5, <2>1 DEF Gone, HouseKept
<1>7. ASSUME NEW i \in Nat
      PROVE  On(h, i + p) => (On(h, i))'
  <2>1. ASSUME NEW j \in Changes(h), j < i + p, topic[j].operation = INDEX,
               \A k \in Changes(h) : ~ (j < k /\ k < i + p)
        PROVE  (On(h, i))'
    <3>1. /\ j - p \in Changes(h)' /\ j - p < i /\ topic'[j - p].operation = INDEX
      <4>1. j \in Int /\ j - p \in Changes(h)' /\ topic'[j - p] = topic[j]
        BY <1>4
      <4>2. j < i + p /\ topic[j].operation = INDEX
        BY <2>1
      <4>3. j - p < i
        BY <4>1, <4>2
      <4> QED  BY <4>1, <4>2, <4>3
    <3>2. \A k \in Changes(h)' : ~ (j - p < k /\ k < i)
      <4> SUFFICES ASSUME NEW k \in Changes(h)', j - p < k, k < i PROVE FALSE
        OBVIOUS
      <4>1. k \in Int /\ k + p \in Changes(h) /\ j \in Int
        BY <1>4
      <4> QED  BY <2>1, <4>1
    <3> QED  BY <3>1, <3>2 DEF On
  <2>2. ASSUME Indexed(h), \A k \in Changes(h) : ~ (k < i + p)
        PROVE  (On(h, i))'
    <3>1. \A k \in Changes(h)' : ~ (k < i)
      <4> SUFFICES ASSUME NEW k \in Changes(h)', k < i PROVE FALSE
        OBVIOUS
      <4>1. k \in Int /\ k + p \in Changes(h)
        BY <1>4
      <4> QED  BY <2>2, <4>1
    <3> QED  BY <2>2, <3>1 DEF On, HouseKept
  <2> QED  BY <2>1, <2>2 DEF On
<1>8. ASSUME Orderly(h) PROVE Orderly(h)'
  <2>1. ASSUME NEW i \in Unapplied', topic'[i].houseId = h
        PROVE  (MessageInOrder(h, i))'
    <3>1. i \in Nat /\ i + p \in Unapplied /\ topic'[i] = topic[i + p]
      BY <1>1, <1>2, <1>3
    <3>2. MessageInOrder(h, i + p)
      BY <1>8, <2>1, <3>1 DEF Orderly
    <3> QED  BY <1>5, <1>6, <1>7, <3>1, <3>2 DEF MessageInOrder, Whole, HouseKept
  <2>2. ASSUME HS!Announced(h)' = HS!PASSES PROVE On(h, Len(topic) + 1)'
    <3> DEFINE m == Len(topic)
               k == Len(topic')
    <3>0. m \in Nat /\ p <= m /\ k = m - p
      BY <1>1
    <3> HIDE DEF m, k
    <3>5. k + 1 \in Nat /\ (k + 1) + p = m + 1
      BY ONLY p \in Nat, <3>0
    <3>1. PICK n \in Nat : n = k + 1
      BY ONLY <3>5
    <3> USE DEF m, k
    <3>2. n + p = Len(topic) + 1
      BY <3>1, <3>5
    <3>3. On(h, n + p)
      BY <1>8, <2>2, <3>2 DEF Orderly, HouseKept
    <3>4. (On(h, n))'
      BY <1>7, <3>3
    <3> QED  BY <3>1, <3>4
  <2> QED  BY <2>1, <2>2 DEF Orderly
<1>9. Pending(h)' = Pending(h)
  <2>1. Places(Changes(h)) /\ Pending(h) = Asked(Changes(h), topic)
    BY ChangesAre
  <2>2. Pending(h)' = Asked(Changes(h)', topic')
    BY DEF Pending, Asked
  <2>3. Changes(h)' = {i - p : i \in Changes(h)}
    <3>1. \A i \in Changes(h)' : i = (i + p) - p /\ i + p \in Changes(h)
      BY <1>4
    <3>2. \A i \in Changes(h) : i - p \in Changes(h)'
      BY <1>4
    <3> QED  BY <3>1, <3>2
  <2> DEFINE S == Changes(h)
             log == topic
             next == topic'
  <2>4. /\ Places(S) /\ (\A i \in S : p <= i)
        /\ \A i \in S : next[i - p] = log[i]
    BY <1>4, <2>1
  <2> HIDE DEF S, log, next
  <2>5. Asked({i - p : i \in S}, next) = Asked(S, log)
    BY ONLY p \in Nat, <2>4, AskedShift
  <2> QED  BY <2>1, <2>2, <2>3, <2>5 DEF S, log, next
<1> QED  BY <1>6, <1>8, <1>9

-----------------------------------------------------------------------------
(***************************************************************************)
(* The steps.                                                              *)
(***************************************************************************)
OwnIds == \A d, e \in live : d.id = e.id => d = e

\* A removal that found nothing was of a house that is gone.
Refused == handler.phase = "unload" /\ ~ handler.ok => Gone(handler.houseId)

FollowInv == Saved /\ Ready /\ OwnIds /\ Refused /\ \A h \in Houses : Orderly(h)

LEMMA ListedAre ==
  /\ Listed = {h \in Houses : HS!Announced(h) = HS!PASSES}
  /\ Listed' = {h \in Houses : HS!Announced(h)' = HS!PASSES}
BY DEF Listed, HS!Announced, HS!Unlocked, PASSES, HS!PASSES

\* Of the message in work the topic still has the place.
LEMMA CalmPlaced ==
  ASSUME CalmInv, SS!UnfinishedIsUncommitted
  PROVE  Placed
<1>1. /\ topic \in Seq(SS!HouseIndexMessage) /\ position \in 0 .. Len(topic)
      /\ Len(topic) \in Nat
  BY DEF CalmInv, ListenerInv, ListenerTypes
<1>2. handler.phase # "idle" => position > 0
  BY DEF SS!UnfinishedIsUncommitted, SS!At
<1> QED  BY <1>1, <1>2 DEF Placed, First

\* The steps of the abstract listing, house by house.
LEMMA ListingStays ==
  ASSUME \A h \in Houses : /\ Indexed(h)' <=> Indexed(h)
                           /\ HS!Announced(h)' = HS!Announced(h)
                           /\ Pending(h)' = Pending(h)
  PROVE  UNCHANGED Listing!listingVars
<1>1. Listed' = Listed
  BY ListedAre
<1>2. {h \in Houses : Indexed(h)}' = {h \in Houses : Indexed(h)}
  OBVIOUS
<1>3. [h \in Houses |-> Pending(h)]' = [h \in Houses |-> Pending(h)]
  OBVIOUS
<1> QED  BY <1>1, <1>2, <1>3 DEF Listing!listingVars

LEMMA ListingChanges ==
  ASSUME NEW g \in Houses, NEW s \in HS!Statuses,
         \A h \in Houses : /\ Indexed(h)' <=> Indexed(h)
                           /\ HS!Announced(h)' = IF g = h THEN s ELSE HS!Announced(h)
                           /\ h # g => Pending(h)' = Pending(h),
         s = HS!PASSES => Pending(g)' = Append(Pending(g), TRUE),
         s # HS!PASSES => Pending(g)' = Append(Pending(g), FALSE)
  PROVE  Listing!Next
<1>2. {h \in Houses : Indexed(h)}' = {h \in Houses : Indexed(h)}
  OBVIOUS
<1>3. ASSUME NEW on \in BOOLEAN, Pending(g)' = Append(Pending(g), on)
      PROVE  [h \in Houses |-> Pending(h)]'
               = [[h \in Houses |-> Pending(h)] EXCEPT ![g] = Append(@, on)]
  BY <1>3
<1>4. CASE s = HS!PASSES
  <2>1. Listed' = Listed \cup {g}
    BY <1>4, ListedAre
  <2>2. Listing!Change(g, TRUE)
    BY <1>2, <1>3, <1>4, <2>1 DEF Listing!Change
  <2> QED  BY <2>2 DEF Listing!Next
<1>5. CASE s # HS!PASSES
  <2>1. Listed' = Listed \ {g}
    BY <1>5, ListedAre
  <2>2. Listing!Change(g, FALSE)
    BY <1>2, <1>3, <1>5, <2>1 DEF Listing!Change
  <2> QED  BY <2>2 DEF Listing!Next
<1> QED  BY <1>4, <1>5

LEMMA ListingApplies ==
  ASSUME NEW g \in Houses, NEW added,
         \A h \in Houses : /\ HS!Announced(h)' = HS!Announced(h)
                           /\ h # g => /\ Indexed(h)' <=> Indexed(h)
                                       /\ Pending(h)' = Pending(h),
         Pending(g) # <<>>, Indexed(g)' <=> added, Head(Pending(g)) <=> added,
         Pending(g)' = Tail(Pending(g))
  PROVE  Listing!Next
<1>1. Listed' = Listed
  BY ListedAre
<1>2. {h \in Houses : Indexed(h)}' = IF Head(Pending(g))
                                       THEN {h \in Houses : Indexed(h)} \cup {g}
                                       ELSE {h \in Houses : Indexed(h)} \ {g}
  <2>1. CASE added
    BY <2>1
  <2>2. CASE ~ added
    BY <2>2
  <2> QED  BY <2>1, <2>2
<1>3. [h \in Houses |-> Pending(h)]'
        = [[h \in Houses |-> Pending(h)] EXCEPT ![g] = Tail(@)]
  OBVIOUS
<1>4. [h \in Houses |-> Pending(h)][g] = Pending(g)
  OBVIOUS
<1>5. Listing!Apply(g)
  BY <1>1, <1>2, <1>3, <1>4 DEF Listing!Apply
<1> QED  BY <1>5 DEF Listing!Next

\* Index, topic and statuses stay; what is applied stays applied.
LEMMA QuietStep ==
  ASSUME Placed, FollowInv, First' = First, UNCHANGED <<topic, live>>,
         \A h \in Houses : HS!Announced(h)' = HS!Announced(h) /\ rows[h] \subseteq rows'[h],
         handler' = handler \/ handler'.phase # "unload",
         handler.houseId \in Houses, Saved', Ready'
  PROVE  FollowInv' /\ UNCHANGED Listing!listingVars
<1>1. \A h \in Houses : HouseKept(h)
  BY DEF HouseKept, Indexed, SS!Of
<1>2. \A h \in Houses : /\ Orderly(h)'
                        /\ Gone(h) => Gone(h)'
                        /\ Pending(h)' = Pending(h)
  BY <1>1, OrderlyKept DEF FollowInv
<1>3. Refused'
  <2>1. CASE handler' = handler
    BY <1>2, <2>1 DEF FollowInv, Refused
  <2>2. CASE handler'.phase # "unload"
    BY <2>2 DEF Refused
  <2> QED  BY <2>1, <2>2
<1>4. UNCHANGED Listing!listingVars
  BY <1>1, <1>2, ListingStays DEF HouseKept
<1> QED  BY <1>2, <1>3, <1>4 DEF FollowInv, OwnIds

\* The house service changes the listing, or nothing of it.
LEMMA ServiceFollows ==
  ASSUME Undisturbed, CalmInv, Placed, FollowInv, ServiceStep
  PROVE  FollowInv' /\ [Listing!Next]_Listing!listingVars
<1>1. PICK t \in Threads : HS!Arrive(t) \/ HS!Continue(t)
  BY DEF ServiceStep, HS!ServiceNext
<1>2. UNCHANGED <<position, handler, live>> /\ First' = First
  BY DEF ServiceStep, listenerLocals, First
<1>3. handler.houseId \in Houses
  BY DEF CalmInv, ListenerInv, ListenerTypes, SS!Handler
<1>4. Saved' /\ Ready' /\ \A h \in Houses : rows[h] \subseteq rows'[h]
  BY <1>1, SavedStep DEF CalmInv, ServiceInv, FollowInv
<1>5. CASE UNCHANGED topic /\ \A h \in Houses : HS!Announced(h)' = HS!Announced(h)
  BY <1>2, <1>3, <1>4, <1>5, QuietStep
<1>6. ASSUME NEW g \in Houses, NEW s \in HS!Statuses, Sending(g, s)
      PROVE  FollowInv' /\ Listing!Next
  <2> DEFINE m == HS!Message(g, HS!OperationFor(s), 0)
  <2>1. m \in SS!HouseIndexMessage /\ m.houseId = g /\ topic' = Append(topic, m)
    BY <1>6
       DEF Sending, HS!Message, HS!OperationFor, HS!INDEX, HS!REMOVE, SS!HouseIndexMessage
  <2> HIDE DEF m
  <2>2. \A h \in Houses : Indexed(h)' <=> Indexed(h)
    BY <1>2 DEF Indexed, SS!Of
  <2>3. \A h \in Houses : HS!Announced(h)' = IF g = h THEN s ELSE HS!Announced(h)
    BY <1>6 DEF Sending
  <2>4. ASSUME NEW h \in Houses, h # g
        PROVE  Orderly(h)' /\ (Gone(h) => Gone(h)') /\ Pending(h)' = Pending(h)
    <3>1. HouseKept(h)
      BY <1>4, <2>2, <2>3, <2>4 DEF HouseKept
    <3> QED  BY <1>2, <2>1, <2>4, <3>1, OrderlyBeside DEF FollowInv
  <2>5. /\ Orderly(g)'
        /\ s = HS!PASSES => Pending(g)' = Append(Pending(g), TRUE)
        /\ s # HS!PASSES => Pending(g)' = Append(Pending(g), FALSE)
    BY <1>2, <1>4, <1>6, <2>2, OrderlySent DEF FollowInv
  <2>6. ~ Gone(g)
    BY <1>6 DEF Sending, Gone, Over
  <2>7. Refused'
    BY <1>2, <1>3, <2>4, <2>6 DEF Refused, FollowInv
  <2>8. Listing!Next
    BY <2>2, <2>3, <2>4, <2>5, ListingChanges
  <2> QED  BY <1>2, <1>4, <2>4, <2>5, <2>7, <2>8 DEF FollowInv, OwnIds
<1> QED  BY <1>1, <1>5, <1>6, SendStep DEF FollowInv

\* The handler has applied a change of its house.
LEMMA AppliedStep ==
  ASSUME Placed, FollowInv, NEW g \in Houses,
         First <= Len(topic), topic[First].houseId = g, topic[First].retry = 0,
         First' = First + 1, UNCHANGED topic,
         Indexed(g)' <=> topic[First].operation = INDEX,
         \A h \in Houses : /\ h # g => (Indexed(h)' <=> Indexed(h))
                           /\ HS!Announced(h)' = HS!Announced(h)
                           /\ rows[h] \subseteq rows'[h],
         Saved', Ready', OwnIds', Refused'
  PROVE  FollowInv' /\ Listing!Next
<1>1. ASSUME NEW h \in Houses, h # g
      PROVE  Orderly(h)' /\ Pending(h)' = Pending(h)
  <2>1. HouseKept(h)
    BY <1>1 DEF HouseKept
  <2> QED  BY <1>1, <2>1, OrderlyPassed DEF FollowInv
<1>2. /\ Orderly(g)' /\ Pending(g) # <<>>
      /\ Head(Pending(g)) <=> topic[First].operation = INDEX
      /\ Pending(g)' = Tail(Pending(g))
  BY OrderlyApplied DEF FollowInv
<1>3. PICK on \in {TRUE, FALSE} : on <=> topic[First].operation = INDEX
  OBVIOUS
<1>4. Listing!Next
  BY <1>1, <1>2, <1>3, ListingApplies
<1> QED  BY <1>1, <1>2, <1>4 DEF FollowInv

-----------------------------------------------------------------------------
\* Before a step of the listener: whatever the index follows is in place.
Following ==
  /\ Undisturbed /\ CalmInv /\ SS!UnfinishedIsUncommitted /\ FollowInv
  /\ UNCHANGED <<rows, status, req, lock>>

Follows == FollowInv' /\ [Listing!Next]_Listing!listingVars

LEMMA FollowingKnows ==
  ASSUME Following
  PROVE  /\ Placed /\ Calm
         /\ handler \in SS!Handler /\ handler.houseId \in Houses
         /\ handler.retry \in 0 .. 3 /\ position \in 0 .. Len(topic)
         /\ SS!View = live /\ \A docs : SS!Write(docs) => live' = docs
         /\ Saved' /\ Ready'
         /\ \A h \in Houses : HS!Announced(h)' = HS!Announced(h) /\ rows[h] \subseteq rows'[h]
<1>1. Placed /\ Calm
  BY CalmPlaced, UndisturbedIsCalm DEF Following
<1>2. /\ handler \in SS!Handler /\ handler.houseId \in Houses
      /\ handler.retry \in 0 .. 3 /\ position \in 0 .. Len(topic)
  BY DEF Following, CalmInv, ListenerInv, ListenerTypes, SS!Handler
<1>3. SS!View = live /\ \A docs : SS!Write(docs) => live' = docs
  BY <1>1 DEF Calm, SS!View, SS!Write
<1>4. Saved' /\ Ready'
  BY DEF Following, FollowInv, Saved, Ready, Whole, Moving
<1>5. \A h \in Houses : HS!Announced(h)' = HS!Announced(h) /\ rows[h] \subseteq rows'[h]
  BY DEF Following, HS!Announced, HS!Unlocked
<1> QED  BY <1>1, <1>2, <1>3, <1>4, <1>5

\* The message in work is the first one that is not applied.
LEMMA InWork ==
  ASSUME Following, handler.phase \notin {"idle", "upload", "unload"}
  PROVE  /\ First = position /\ First \in 1 .. Len(topic)
         /\ topic[First].houseId = handler.houseId
         /\ topic[First].retry = handler.retry
         /\ topic[First].operation = IF handler.phase = "delete" THEN REMOVE ELSE INDEX
         /\ MessageInOrder(handler.houseId, First)
<1>1. First = position
  BY DEF First
<1>2. /\ position > 0
      /\ topic[position].houseId = handler.houseId
      /\ topic[position].retry = handler.retry
      /\ topic[position].operation = IF handler.phase = "delete" THEN REMOVE ELSE INDEX
  BY DEF Following, SS!UnfinishedIsUncommitted, SS!At
<1>3. position \in 1 .. Len(topic) /\ Len(topic) \in Nat
  BY <1>2, FollowingKnows DEF Placed
<1>4. First \in Unapplied
  BY <1>1, <1>3 DEF Unapplied, First
<1>5. MessageInOrder(handler.houseId, First)
  BY <1>1, <1>2, <1>4, FollowingKnows DEF Following, FollowInv, Orderly
<1> QED  BY <1>1, <1>2, <1>3, <1>5

\* Steps that leave index and topic alone.
LEMMA FollowQuiet ==
  ASSUME Following, First' = First, UNCHANGED <<topic, live>>,
         handler' = handler \/ handler'.phase # "unload"
  PROVE  Follows
<1>1. FollowInv
  BY DEF Following
<1>2. FollowInv' /\ UNCHANGED Listing!listingVars
  BY <1>1, FollowingKnows, QuietStep
<1> QED  BY <1>2 DEF Follows

\* The steps of the listener, one by one.
LEMMA FollowPoll == ASSUME Following, SS!Poll PROVE Follows
<1> DEFINE m == topic[position + 1]
<1>1. /\ handler.phase = "idle" /\ position' = position + 1 /\ UNCHANGED <<topic, live>>
      /\ handler' = [SS!NoMessage EXCEPT
                       !.phase = IF m.operation = SS!INDEX THEN "house" ELSE "delete",
                       !.houseId = m.houseId, !.retry = m.retry]
  BY DEF SS!Poll, SS!At, SS!indexVars
<1>2. handler'.phase \in {"house", "delete"}
  <2> HIDE DEF m
  <2> QED  BY <1>1 DEF SS!NoMessage
<1>3. First' = First
  BY <1>1, <1>2 DEF First
<1> QED  BY <1>1, <1>2, <1>3, FollowQuiet

LEMMA FollowAutoCommit == ASSUME Following, SS!AutoCommit PROVE Follows
<1>1. /\ handler.phase = "idle" /\ position > 0 /\ position' = 0
      /\ topic' = SubSeq(topic, position + 1, Len(topic)) /\ UNCHANGED <<handler, live>>
  BY DEF SS!AutoCommit, SS!At, SS!indexVars
<1>p. PICK p \in Nat : p = position
  BY FollowingKnows
<1>2. First = p + 1 /\ First' = 1
  BY <1>1, <1>p DEF First
<1>3. p < First /\ First' = First - p
  BY <1>2
<1>4. ASSUME NEW h \in Houses
      PROVE  Orderly(h)' /\ Pending(h)' = Pending(h) /\ (Indexed(h)' <=> Indexed(h))
  <2>1. HouseKept(h)
    BY <1>1, FollowingKnows DEF HouseKept, Indexed, SS!Of
  <2>2. topic' = SubSeq(topic, p + 1, Len(topic))
    BY <1>1, <1>p
  <2>3. Orderly(h)
    BY DEF Following, FollowInv
  <2>4. Placed
    BY FollowingKnows
  <2>5. Orderly(h)' /\ Pending(h)' = Pending(h)
    BY <1>3, <2>1, <2>2, <2>3, <2>4, OrderlyShifted
  <2> QED  BY <2>1, <2>5 DEF HouseKept
<1>5. UNCHANGED Listing!listingVars
  BY <1>4, FollowingKnows, ListingStays
<1>6. OwnIds' /\ Refused'
  BY <1>1 DEF Following, FollowInv, OwnIds, Refused
<1> QED  BY <1>4, <1>5, <1>6, FollowingKnows DEF Follows, FollowInv

LEMMA FollowLoad == ASSUME Following, SS!LoadHouse \/ SS!LoadDetail PROVE Follows
<1>1. /\ handler.phase \in {"house", "detail"} /\ UNCHANGED <<topic, position, live>>
  BY DEF SS!LoadHouse, SS!LoadDetail, SS!At, SS!indexVars
\* No row is missing.
<1>2. {"house", "detail"} \subseteq rows[handler.houseId]
  BY <1>1, InWork DEF MessageInOrder, Whole
<1>3. PICK n : \/ handler' = [handler EXCEPT !.phase = "detail", !.hrev = n]
               \/ handler' = [handler EXCEPT !.phase = "geocode", !.drev = n]
  BY <1>2 DEF SS!LoadHouse, SS!LoadDetail
<1>4. handler'.phase \in {"detail", "geocode"}
  BY <1>3, FollowingKnows DEF SS!Handler
<1>5. First' = First
  BY <1>1, <1>4 DEF First
<1> QED  BY <1>1, <1>4, <1>5, FollowQuiet

LEMMA FollowLookUp == ASSUME Following, SS!Geocode \/ SS!Search PROVE Follows
<1>1. /\ handler.phase \in {"geocode", "search"} /\ UNCHANGED <<position, live>>
  BY DEF SS!Geocode, SS!Search, SS!At, SS!indexVars
<1>2. ~ SS!Mishap("geocode")
  BY CalmMishaps, FollowingKnows
<1>3. /\ UNCHANGED topic
      /\ \/ handler' = [handler EXCEPT !.phase = "search"]
         \/ \E ids : handler' = [handler EXCEPT !.phase = "write", !.found = ids]
  BY <1>2 DEF SS!Geocode, SS!Search, SS!Goto
<1>4. handler'.phase \in {"search", "write"}
  BY <1>3, FollowingKnows DEF SS!Handler
<1>5. First' = First
  BY <1>1, <1>4 DEF First
<1> QED  BY <1>1, <1>3, <1>4, <1>5, FollowQuiet

LEMMA FollowUpload == ASSUME Following, SS!Upload PROVE Follows
<1>1. handler.phase = "upload" /\ SS!Done /\ UNCHANGED <<position, live>>
  BY DEF SS!Upload, SS!At, SS!indexVars
<1>2. handler.ok
  BY <1>1 DEF Following, CalmInv, ListenerInv, IndexingGoesWell, Indexing
<1>3. UNCHANGED topic
  BY <1>2, CalmMishaps, FollowingKnows DEF SS!Upload
<1>4. handler'.phase = "idle"
  BY <1>1, NoMessageType DEF SS!Done
<1>5. First' = First
  BY <1>1, <1>4 DEF First
<1> QED  BY <1>1, <1>3, <1>4, <1>5, FollowQuiet

\* The document of the house in work is written.
LEMMA FollowWritten ==
  ASSUME Following, handler.phase = "write", SS!Goto("upload"),
         UNCHANGED <<topic, position>>,
         NEW id, NEW rest \in SUBSET live, live' = rest \cup {SS!Template(id)},
         \A d \in rest : d.id # id,
         \A d \in live \ rest : d.houseId = handler.houseId
  PROVE  Follows
<1>1. SS!Template(id).id = id /\ SS!Template(id).houseId = handler.houseId
  BY DEF SS!Template
<1>2. handler'.phase = "upload"
  BY FollowingKnows DEF SS!Goto, SS!Handler
<1>3. /\ First = position /\ First \in 1 .. Len(topic)
      /\ topic[First].houseId = handler.houseId
      /\ topic[First].operation = INDEX /\ topic[First].retry = 0
  BY InWork DEF MessageInOrder
<1>4. First' = First + 1
  BY <1>2, <1>3 DEF First
<1>g. PICK g \in Houses : g = handler.houseId
  BY FollowingKnows
<1>5. Indexed(g)'
  BY <1>1, <1>g DEF Indexed, SS!Of
<1>6. ASSUME NEW h \in Houses, h # g
      PROVE  Indexed(h)' <=> Indexed(h)
  BY <1>1, <1>g, <1>6 DEF Indexed, SS!Of
<1>7. OwnIds'
  BY <1>1 DEF OwnIds, Following, FollowInv
<1>8. Refused'
  BY <1>2 DEF Refused
<1>9. FollowInv /\ First <= Len(topic)
  BY <1>3, FollowingKnows DEF Following, Placed
<1>10. FollowInv' /\ Listing!Next
  BY <1>g, <1>3, <1>4, <1>5, <1>6, <1>7, <1>8, <1>9, FollowingKnows, AppliedStep
<1> QED  BY <1>10 DEF Follows

LEMMA FollowWriteNone == ASSUME Following, SS!WriteNone PROVE Follows
<1> DEFINE id == CHOOSE i \in DocIds \ SS!UsedIds : TRUE
<1>1. /\ handler.phase = "write" /\ SS!Goto("upload")
      /\ DocIds \ SS!UsedIds # {} /\ UNCHANGED <<topic, position>>
  BY DEF SS!WriteNone, SS!At
<1>2. live' = live \cup {SS!Template(id)}
  BY FollowingKnows DEF SS!WriteNone, SS!NewDocument
<1>3. id \notin SS!UsedIds
  BY <1>1
<1>4. \A d \in live : d.id # id
  BY <1>3 DEF SS!UsedIds
<1> HIDE DEF id
<1> QED  BY <1>1, <1>2, <1>4, FollowWritten

LEMMA FollowWriteOne == ASSUME Following, SS!WriteOne PROVE Follows
<1>1. handler.phase = "write" /\ UNCHANGED <<topic, position>>
  BY DEF SS!WriteOne, SS!At
<1>2. handler.found = {d.id : d \in SS!Of(live, handler.houseId)}
  BY <1>1 DEF Following, CalmInv, ListenerInv, FoundIsCurrent
<1>3. PICK id \in DocIds :
        /\ handler.found = {id}
        /\ \/ /\ SS!Write({d \in live : d.id # id} \cup {SS!Template(id)})
              /\ SS!Goto("upload")
           \/ \A d \in live : d.id # id
  BY DEF SS!WriteOne
<1> DEFINE rest == {d \in live : d.id # id}
<1>4. PICK e \in live : e.id = id /\ e.houseId = handler.houseId
  BY <1>2, <1>3 DEF SS!Of
<1>5. live' = rest \cup {SS!Template(id)} /\ SS!Goto("upload")
  BY <1>3, <1>4, FollowingKnows
\* No other document has that id.
<1>6. \A d \in live \ rest : d.houseId = handler.houseId
  BY <1>4 DEF Following, FollowInv, OwnIds
<1>7. rest \in SUBSET live /\ \A d \in rest : d.id # id
  OBVIOUS
<1> HIDE DEF rest
<1> QED  BY <1>1, <1>5, <1>6, <1>7, FollowWritten

LEMMA FollowDelete == ASSUME Following, SS!Delete PROVE Follows
<1>g. PICK g \in Houses : g = handler.houseId
  BY FollowingKnows
<1>1. /\ handler.phase = "delete" /\ UNCHANGED <<topic, position>>
      /\ live' = live \ SS!Of(live, g)
      /\ handler' = [handler EXCEPT !.phase = "unload", !.ok = (SS!Of(live, g) # {})]
  <2>1. SS!Deleted(g) = SS!Of(live, g)
    BY FollowingKnows DEF SS!Deleted, SS!Of
  <2> QED  BY <1>g, <2>1, FollowingKnows DEF SS!Delete, SS!At
<1>2. /\ handler'.phase = "unload" /\ handler'.houseId = g
      /\ ~ handler'.ok => ~ Indexed(g)
  <2> DEFINE some == SS!Of(live, g) # {}
  <2>1. some <=> Indexed(g)
    BY DEF Indexed
  <2>2. handler' = [handler EXCEPT !.phase = "unload", !.ok = some]
    BY <1>1
  <2> HIDE DEF some
  <2> QED  BY <1>g, <2>1, <2>2, FollowingKnows DEF SS!Handler
<1>3. /\ First = position /\ First \in 1 .. Len(topic) /\ topic[First].houseId = g
      /\ topic[First].operation = REMOVE /\ MessageInOrder(g, First)
  BY <1>1, <1>g, InWork
<1>4. First' = First + 1 /\ First <= Len(topic) /\ First \in Nat
  BY <1>1, <1>2, <1>3, FollowingKnows DEF First, Placed
<1>5. ~ Indexed(g)' /\ \A h \in Houses : h # g => (Indexed(h)' <=> Indexed(h))
  BY <1>1 DEF Indexed, SS!Of
<1>6. FollowInv /\ OwnIds'
  BY <1>1 DEF Following, FollowInv, OwnIds
<1>7. CASE topic[First].retry = 0
  <2>1. ASSUME ~ Indexed(g) PROVE Gone(g)'
    <3>1. \A i \in Unapplied : First <= i
      BY <1>3, <1>4 DEF Unapplied, First
    <3>2. ~ On(g, First)
      BY <2>1, <3>1, <1>4, FollowingKnows, ChangesAre DEF On, Changes, Unapplied, First
    <3>3. Over(g, First)
      BY <1>3, <1>7, <3>2 DEF MessageInOrder
    <3>4. \A i \in Unapplied' : i \in Unapplied /\ First < i
      BY <1>3, <1>4, <1>1, UnappliedIs, FollowingKnows DEF Unapplied, First, Placed
    <3>5. (Over(g, 0))'
      BY <1>1, <3>3, <3>4, FollowingKnows DEF Over
    <3> QED  BY <1>5, <3>5 DEF Gone
  <2>2. Refused'
    BY <1>2, <2>1 DEF Refused
  <2>3. FollowInv' /\ Listing!Next
    BY <1>1, <1>3, <1>4, <1>5, <1>6, <1>7, <2>2, FollowingKnows, AppliedStep
  <2> QED  BY <2>3 DEF Follows
<1>8. CASE topic[First].retry # 0
  <2>1. Gone(g)
    BY <1>3, <1>8 DEF MessageInOrder
  <2>2. \A h \in Houses : HouseKept(h)
    BY <1>5, <2>1, FollowingKnows DEF HouseKept, Gone
  <2>3. ASSUME NEW h \in Houses
        PROVE  Orderly(h)' /\ Pending(h)' = Pending(h) /\ (Gone(h) => Gone(h)')
    BY <1>1, <1>3, <1>4, <1>6, <1>8, <2>2, FollowingKnows, OrderlyPassed DEF FollowInv
  <2>4. Refused'
    BY <1>2, <2>1, <2>3 DEF Refused
  <2>5. UNCHANGED Listing!listingVars
    BY <2>2, <2>3, ListingStays DEF HouseKept
  <2> QED  BY <1>6, <2>3, <2>4, <2>5, FollowingKnows DEF Follows, FollowInv
<1> QED  BY <1>7, <1>8

LEMMA FollowUnload == ASSUME Following, SS!Unload PROVE Follows
<1>1. handler.phase = "unload" /\ SS!Done /\ UNCHANGED <<position, live>>
  BY DEF SS!Unload, SS!At, SS!indexVars
<1>2. handler'.phase = "idle"
  BY <1>1, NoMessageType DEF SS!Done
<1>3. First' = First
  BY <1>1, <1>2 DEF First
<1>4. CASE UNCHANGED topic
  BY <1>1, <1>2, <1>3, <1>4, FollowQuiet
<1>5. ASSUME ~ UNCHANGED topic PROVE Follows
  <2> DEFINE m == SS!Message(handler.houseId, SS!REMOVE, handler.retry + 1)
  <2>1. ~ handler.ok /\ SS!Requeue(SS!REMOVE)
    BY <1>5, CalmMishaps, FollowingKnows DEF SS!Unload, SS!Retry
  <2>2. handler.retry + 1 \in 1 .. 3 /\ topic' = Append(topic, m)
    BY <1>5, <2>1, FollowingKnows DEF SS!Requeue
  <2>3. Gone(handler.houseId)
    BY <1>1, <2>1 DEF Following, FollowInv, Refused
  <2>4. /\ m \in SS!HouseIndexMessage /\ m.houseId = handler.houseId
        /\ m.operation # INDEX /\ m.retry # 0
    BY <2>2, FollowingKnows DEF SS!Message, SS!HouseIndexMessage
  <2> HIDE DEF m
  <2>5. ASSUME NEW h \in Houses
        PROVE  Orderly(h)' /\ Pending(h)' = Pending(h) /\ (Indexed(h)' <=> Indexed(h))
    <3>1. HouseKept(h)
      BY <1>1, FollowingKnows DEF HouseKept, Indexed, SS!Of
    <3>2. Placed /\ Orderly(h)
      BY FollowingKnows DEF Following, FollowInv
    <3>3. Orderly(h)' /\ Pending(h)' = Pending(h)
      BY <1>3, <2>2, <2>3, <2>4, <3>1, <3>2, OrderlyBeside
    <3> QED  BY <3>1, <3>3 DEF HouseKept
  <2>6. UNCHANGED Listing!listingVars
    BY <2>5, FollowingKnows, ListingStays
  <2>7. OwnIds' /\ Refused'
    BY <1>1, <1>2 DEF Following, FollowInv, OwnIds, Refused
  <2> QED  BY <2>5, <2>6, <2>7, FollowingKnows DEF Follows, FollowInv
<1> QED  BY <1>4, <1>5

LEMMA ListenerFollows == ASSUME Following, ListenerStep PROVE Follows
<1>1. ~ SS!HandlerThrows
  BY CalmMishaps, FollowingKnows DEF SS!HandlerThrows
<1>2. ~ SS!CreateAfterDelete
  BY DEF Following, CalmInv, ListenerInv, IndexingGoesWell, SS!CreateAfterDelete, SS!At
<1>3. ~ SS!WriteMany
  <2>1. SS!WriteMany => handler.phase = "write" /\ SS!Cardinality(handler.found) > 1
    BY DEF SS!WriteMany, SS!At
  <2>2. handler.phase = "write" => SS!Cardinality(handler.found) \in {0, 1}
    BY FoundOneAtMost, FollowingKnows DEF Following, CalmInv
  <2> QED  BY <2>1, <2>2
<1>4. CASE SS!Refresh
  <2>1. UNCHANGED <<topic, position, handler, live>>
    BY <1>4 DEF SS!Refresh
  <2>2. First' = First
    BY <2>1 DEF First
  <2> QED  BY <2>1, <2>2, FollowQuiet
<1>5. SS!Poll \/ SS!AutoCommit \/ SS!Handle \/ SS!Refresh
  BY DEF ListenerStep, SS!ListenerNext
<1> QED
  BY <1>1, <1>2, <1>3, <1>4, <1>5, FollowPoll, FollowAutoCommit, FollowLoad, FollowLookUp,
     FollowUpload, FollowWriteNone, FollowWriteOne, FollowDelete, FollowUnload DEF SS!Handle

LEMMA FollowStep ==
  ASSUME Undisturbed, CalmInv, SS!UnfinishedIsUncommitted, FollowInv, [Next]_vars
  PROVE  Follows
<1>1. Placed
  BY CalmPlaced
<1>2. CASE ServiceStep
  BY <1>1, <1>2, ServiceFollows DEF Follows
<1>3. CASE ListenerStep
  <2>1. UNCHANGED <<rows, status, req, lock>>
    BY <1>3 DEF ListenerStep, SS!ListenerNext, serviceLocals
  <2> QED  BY <1>3, <2>1, ListenerFollows DEF Following
<1>4. ~ Crash
  BY UndisturbedMishaps DEF Crash, SS!Crash
<1>5. CASE UNCHANGED vars
  <2>1. /\ UNCHANGED <<rows, status, req, lock, topic, live, handler>> /\ First' = First
    BY <1>5 DEF vars, First
  <2>2. Following
    BY <2>1 DEF Following
  <2> QED  BY <2>1, <2>2, FollowQuiet
<1> QED  BY <1>2, <1>3, <1>4, <1>5 DEF Next

LEMMA FollowInit == Init => FollowInv /\ Listing!Init
<1> SUFFICES ASSUME Init PROVE FollowInv /\ Listing!Init
  OBVIOUS
<1>1. /\ status = [h \in Houses |-> HS!NOT_AUDITED]
      /\ rows = [h \in Houses |-> IF h \in Stored THEN HS!Tables \ {"tag"} ELSE {}]
      /\ lock = [h \in Houses |-> NoThread]
      /\ topic = <<>> /\ position = 0 /\ live = {} /\ handler.phase = "idle"
      /\ \A t \in Threads : req[t].phase = "idle"
  BY NoRequestType, NoMessageType DEF Init, HS!Init, SS!ListenerInit
<1>2. /\ Len(topic) = 0 /\ First = 1 /\ Unapplied = {}
  BY <1>1 DEF First, Unapplied
<1>3. \A h \in Houses : ~ Indexed(h) /\ HS!Announced(h) # HS!PASSES
  BY <1>1 DEF Indexed, SS!Of, HS!Announced, HS!Unlocked, HS!NOT_AUDITED, HS!PASSES
<1>4. Saved /\ Ready /\ OwnIds /\ Refused
  BY <1>1 DEF Saved, Ready, OwnIds, Refused, Whole, HS!Tables
<1>5. \A h \in Houses : Orderly(h)
  BY <1>2, <1>3 DEF Orderly
<1>6. ASSUME NEW h \in Houses PROVE Pending(h) = <<>>
  <2>1. Changes(h) = {}
    BY <1>2 DEF Changes
  <2>2. Cardinality(Changes(h)) = 0
    BY <2>1, FS_EmptySet
  <2> QED  BY <2>2 DEF Pending
<1>7. Listed = {}
  BY <1>3, ListedAre
<1>8. Listing!Init
  BY <1>3, <1>6, <1>7 DEF Listing!Init
<1> QED  BY <1>4, <1>5, <1>8 DEF FollowInv

-----------------------------------------------------------------------------
\* What a message being handled asks for is in the topic: see SearchService.
LEMMA NothingUncommitted == Spec => []SS!UnfinishedIsUncommitted
<1>1. SP!Spec => []SP!UnfinishedIsUncommitted
  BY SP!NothingLost, HousesAssumption, FaultBudget, DocIdsAssumption, RefreshLagAssumption
<1>2. SP!UnfinishedIsUncommitted => SS!UnfinishedIsUncommitted
  BY DEF SP!UnfinishedIsUncommitted, SS!UnfinishedIsUncommitted, SP!At, SS!At,
         SP!INDEX, SS!INDEX, SP!REMOVE, SS!REMOVE
<1> QED  BY <1>1, <1>2, ListenerByItself, PTL

(***************************************************************************)
(* With one administrator per house and nothing failing but LBS look-ups,  *)
(* the services never stray from the abstract listing: each accepted       *)
(* change of a house's status (updateStatus, HouseService.java 294-317)    *)
(* reaches the index once and in order, INDEX messages find the rows they  *)
(* need and are never sent again, and the removals that are sent again     *)
(* (SearchService.java 181-200) come behind a rented or deleted house's    *)
(* last message and change nothing.                                        *)
(***************************************************************************)
THEOREM IndexFollowsListing ==
  Undisturbed => (Spec => Listing!Safety)
<1> SUFFICES ASSUME Undisturbed PROVE Spec => Listing!Safety
  OBVIOUS
<1> DEFINE Inv == CalmInv /\ FollowInv
<1>1. Init => Inv /\ Listing!Init
  BY CalmInit, FollowInit
<1>2. Inv /\ SS!UnfinishedIsUncommitted /\ [Next]_vars
        => Inv' /\ [Listing!Next]_Listing!listingVars
  BY CalmStep, FollowStep, UndisturbedIsCalm DEF Follows
<1> HIDE DEF Inv
<1>3. Spec => Listing!Init /\ [][Listing!Next]_Listing!listingVars
  BY <1>1, <1>2, NothingUncommitted, PTL DEF Spec
<1> QED  BY <1>3 DEF Listing!Safety

-----------------------------------------------------------------------------
\* The abstract listing with what is proved of it.
LP == INSTANCE ListingIndexProofs WITH
  listed <- Listed,
  indexed <- {h \in Houses : Indexed(h)},
  pending <- [h \in Houses |-> Pending(h)]

LEMMA SameListing ==
  /\ Listing!Init <=> LP!Init
  /\ [Listing!Next]_Listing!listingVars <=> [LP!Next]_LP!listingVars
  /\ Listing!InSync <=> LP!InSync
BY DEF Listing!Init, LP!Init, Listing!Next, LP!Next, Listing!listingVars, LP!listingVars,
       Listing!Apply, LP!Apply, Listing!Change, LP!Change, Listing!InSync, LP!InSync

\* With nobody at work nothing is pending, and no house is locked.
LEMMA InSyncEnough ==
  ASSUME CalmInv, LP!InSync
  PROVE  ListedPresent
<1> SUFFICES ASSUME Quiescent, NEW h \in Houses, status[h] = PASSES
             PROVE  Indexed(h)
  BY DEF ListedPresent
<1>1. /\ \A t \in Threads : req[t].phase = "idle"
      /\ handler.phase = "idle" /\ position = Len(topic)
  BY DEF Quiescent, SS!At
<1>2. lock[h] = NoThread
  BY <1>1 DEF CalmInv, ServiceInv, Locks, LocksTyped, LocksOwned
<1>3. h \in Listed
  BY <1>2 DEF Listed, HS!Unlocked
<1>4. Pending(h) = <<>>
  <2>1. Len(topic) \in Nat
    BY DEF CalmInv, ListenerInv, ListenerTypes
  <2>2. Changes(h) = {}
    BY <1>1, <2>1 DEF Changes, Unapplied
  <2>3. Cardinality(Changes(h)) = 0
    BY <2>2, FS_EmptySet
  <2> QED  BY <2>3 DEF Pending
<1> QED  BY <1>3, <1>4 DEF LP!InSync

(***************************************************************************)
(* What that gives the users: when all messages are handled, each listed   *)
(* house can be found (the comment of updateStatus, HouseService.java      *)
(* 312).  It is a promise of the abstract listing, which the services      *)
(* keep.                                                                   *)
(***************************************************************************)
THEOREM ListedIsFound ==
  Undisturbed => (Spec => []ListedPresent)
<1> SUFFICES ASSUME Undisturbed PROVE Spec => []ListedPresent
  OBVIOUS
<1>1. Spec => Listing!Safety
  BY IndexFollowsListing
<1>2. Listing!Safety => Listing!Init /\ [][Listing!Next]_Listing!listingVars
  BY DEF Listing!Safety
<1>3. Listing!Init => LP!Init
  BY SameListing
<1>4. [Listing!Next]_Listing!listingVars => [LP!Next]_LP!listingVars
  BY SameListing
<1>5. LP!Safety => []LP!InSync
  BY LP!AppliedIsListed
<1>6. Init => CalmInv
  BY CalmInit
<1>7. CalmInv /\ [Next]_vars => CalmInv'
  BY CalmStep, UndisturbedIsCalm
<1>8. CalmInv /\ LP!InSync => ListedPresent
  BY InSyncEnough
<1> QED  BY <1>1, <1>2, <1>3, <1>4, <1>5, <1>6, <1>7, <1>8, PTL DEF Spec, LP!Safety

=============================================================================
