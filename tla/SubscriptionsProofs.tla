-------------------------- MODULE SubscriptionsProofs --------------------------
(***************************************************************************)
(* Theorems about Subscriptions, for any number of users, houses, threads, *)
(* requests and seconds, and for every length of a page.                   *)
(***************************************************************************)
EXTENDS Subscriptions, FiniteSetTheorems, TLAPS

-----------------------------------------------------------------------------
(***************************************************************************)
(* The types.                                                              *)
(***************************************************************************)
LEMMA NothingType == NoRequest \in Request /\ NoWalk \in Walk
<1>1. AnyUser \in Users /\ (CHOOSE h \in Houses : TRUE) \in Houses
  BY UsersAssumption, HousesAssumption DEF AnyUser
<1>2. <<>> \in Seq(Row)
  OBVIOUS
<1> QED
  BY <1>1, <1>2 DEF NoRequest, NoWalk, Request, Walk, Phases, WalkPhases

LEMMA MishapType ==
  ASSUME faults \in 0 .. MaxFaults, NEW kind, Mishap(kind) \/ NoMishap
  PROVE  faults' \in 0 .. MaxFaults
BY FaultBudget DEF Mishap, NoMishap

LEMMA FinishType ==
  ASSUME TypeOK, NEW t \in Threads, Finish(t)
  PROVE  req' \in [Threads -> Request]
BY NothingType DEF TypeOK, Finish

(***************************************************************************)
(* A page starts at a row of the table and stays within it.                *)
(***************************************************************************)
LEMMA OffsetType ==
  ASSUME NEW start \in Nat
  PROVE  OffsetOf(start) \in Nat
<1>1. start \div PageLength \in Nat
  BY PageLengthAssumption
<1>2. \A a, b \in Nat : a * b \in Nat
  OBVIOUS
<1> QED  BY <1>1, <1>2, PageLengthAssumption DEF OffsetOf

LEMMA PageWithin ==
  ASSUME NEW n \in Nat, NEW offset \in Nat, NEW i \in 1 .. RowsOnPage(n, offset)
  PROVE  offset + i \in 1 .. n
BY PageLengthAssumption DEF RowsOnPage

LEMMA PageSize ==
  ASSUME NEW n \in Nat, NEW offset \in Nat
  PROVE  RowsOnPage(n, offset) \in Nat
BY PageLengthAssumption DEF RowsOnPage

\* A page holds the rows at its positions in an order from the newest on.
LEMMA PageTaken ==
  ASSUME TypeOK, ReadPage
  PROVE  \E order \in NewestFirst(list[walk.user]), shown \in Seq(Row) :
           /\ walk' = [walk EXCEPT !.phase = "count", !.shown = shown]
           /\ Len(shown) = RowsOnPage(Len(list[walk.user]), OffsetOf(walk.start))
           /\ \A i \in 1 .. Len(shown) :
                /\ order[OffsetOf(walk.start) + i] \in 1 .. Len(list[walk.user])
                /\ shown[i] = list[walk.user][order[OffsetOf(walk.start) + i]]
<1> DEFINE rows == list[walk.user]
           offset == OffsetOf(walk.start)
           n == RowsOnPage(Len(rows), offset)
<1>1. walk.user \in Users /\ walk.start \in Nat
  BY DEF TypeOK, Walk
<1>2. rows \in Seq(Row) /\ Len(rows) \in Nat
  BY <1>1 DEF TypeOK
<1>3. offset \in Nat
  BY ONLY <1>1, OffsetType
<1>4. PICK order \in NewestFirst(rows) :
        walk' = [walk EXCEPT !.phase = "count",
                             !.shown = [i \in 1 .. n |-> rows[order[offset + i]]]]
  BY DEF ReadPage
<1>5. order \in [1 .. Len(rows) -> 1 .. Len(rows)]
  BY DEF NewestFirst
<1> DEFINE shown == [i \in 1 .. n |-> rows[order[offset + i]]]
<1>6. n \in Nat
  BY <1>2, <1>3, PageSize
<1>7. \A i \in 1 .. n : order[offset + i] \in 1 .. Len(rows)
  <2> TAKE i \in 1 .. n
  <2>1. offset + i \in 1 .. Len(rows)
    BY <1>2, <1>3, PageWithin
  <2> HIDE DEF offset, n, rows
  <2> QED  BY <2>1, <1>5
<1>8. \A i \in 1 .. n : rows[order[offset + i]] \in Row
  <2> HIDE DEF offset, n, rows
  <2> QED  BY <1>2, <1>7
<1>9. shown \in Seq(Row) /\ Len(shown) = n
  <2> HIDE DEF offset, n, rows
  <2> QED  BY <1>6, <1>8
<1>10. \A i \in 1 .. n : shown[i] = rows[order[offset + i]]
  <2> HIDE DEF offset, n, rows
  <2> TAKE i \in 1 .. n
  <2> QED  BY ONLY i \in 1 .. n
<1>11. walk' = [walk EXCEPT !.phase = "count", !.shown = shown]
  BY <1>4
<1>12. order \in NewestFirst(rows)
  BY <1>4
<1> HIDE DEF shown
<1>13. /\ Len(shown) = n
       /\ \A i \in 1 .. Len(shown) :
            order[offset + i] \in 1 .. Len(rows) /\ shown[i] = rows[order[offset + i]]
  <2> HIDE DEF offset, n, rows
  <2> QED  BY <1>7, <1>9, <1>10
<1>14. shown \in Seq(Row)
  BY <1>9
<1> QED  BY ONLY <1>11, <1>12, <1>13, <1>14

\* The rows of a page are rows of the list of the user.
LEMMA PageRows ==
  ASSUME TypeOK, ReadPage
  PROVE  \E shown \in Seq(Row) :
           /\ walk' = [walk EXCEPT !.phase = "count", !.shown = shown]
           /\ \A i \in 1 .. Len(shown) :
                \E k \in 1 .. Len(list[walk.user]) : shown[i] = list[walk.user][k]
<1>1. PICK order \in NewestFirst(list[walk.user]), shown \in Seq(Row) :
        /\ walk' = [walk EXCEPT !.phase = "count", !.shown = shown]
        /\ \A i \in 1 .. Len(shown) :
             /\ order[OffsetOf(walk.start) + i] \in 1 .. Len(list[walk.user])
             /\ shown[i] = list[walk.user][order[OffsetOf(walk.start) + i]]
  BY PageTaken
<1>2. \A i \in 1 .. Len(shown) :
        \E k \in 1 .. Len(list[walk.user]) : shown[i] = list[walk.user][k]
  BY ONLY <1>1
<1> QED  BY ONLY <1>1, <1>2

LEMMA AddRowList ==
  ASSUME TypeOK, NEW t \in Threads, AddRow(t)
  PROVE  /\ list' \in [Users -> Seq(Row)]
         /\ \A u \in Users : u # req[t].user => list'[u] = list[u]
         /\ LET rows == list[req[t].user]
                more == list'[req[t].user]
            IN /\ Len(more) = Len(rows) + 1
               /\ \A i \in 1 .. Len(rows) : more[i] = rows[i]
               /\ more[Len(more)].house = req[t].house
<1>1. req[t] \in Request
  BY DEF TypeOK
<1>2. req[t].user \in Users
  BY <1>1 DEF Request
<1> DEFINE row == [house |-> req[t].house, time |-> req[t].time]
<1>3. row \in Row /\ row.house = req[t].house
  BY <1>1 DEF Request, Row
<1>4. list' = [list EXCEPT ![req[t].user] = Append(@, row)]
  BY DEF AddRow
<1>5. list \in [Users -> Seq(Row)]
  BY DEF TypeOK
<1> HIDE DEF row
<1>6. list[req[t].user] \in Seq(Row)
  BY <1>2, <1>5
<1>7. list'[req[t].user] = Append(list[req[t].user], row)
  BY <1>2, <1>4, <1>5
<1> DEFINE rows == list[req[t].user]
           more == list'[req[t].user]
<1>8. list' \in [Users -> Seq(Row)] /\ \A u \in Users : u # req[t].user => list'[u] = list[u]
  BY <1>2, <1>3, <1>4, <1>5, <1>6
<1>9. rows \in Seq(Row) /\ more = Append(rows, row)
  BY <1>6, <1>7
<1> HIDE DEF rows, more
<1>10. Len(more) = Len(rows) + 1 /\ (\A i \in 1 .. Len(rows) : more[i] = rows[i])
       /\ more[Len(more)] = row
  BY ONLY <1>3, <1>9
<1> QED  BY <1>3, <1>8, <1>10 DEF rows, more

LEMMA InitType == Init => TypeOK
BY NothingType, FaultBudget, BoundsAssumption DEF Init, TypeOK, Pairs

LEMMA ServeType ==
  ASSUME TypeOK, NEW t \in Threads, Serve(t)
  PROVE  TypeOK'
<1> USE DEF TypeOK
<1>1. ASSUME NEW u \in Users, NEW h \in Houses, Subscribe(t, u, h)
      PROVE  TypeOK'
  <2>1. requests' \in 0 .. MaxRequests
    BY <1>1, BoundsAssumption DEF Subscribe
  <2>2. known' \in SUBSET Pairs
    BY <1>1 DEF Subscribe, Pairs
  <2>3. [phase |-> "house", user |-> u, house |-> h, time |-> 0] \in Request
    BY DEF Request, Phases
  <2>4. req' \in [Threads -> Request]
    BY <1>1, <2>3 DEF Subscribe
  <2> QED
    BY <1>1, <2>1, <2>2, <2>4, MishapType DEF Subscribe, tableVars
<1>2. CASE FindHouse(t)
  <2>1. [req[t] EXCEPT !.phase = "insert", !.time = clock] \in Request
    BY DEF Request, Phases
  <2>2. req' \in [Threads -> Request]
    BY <1>2, <2>1, FinishType DEF FindHouse
  <2> QED
    BY <1>2, <2>2, MishapType DEF FindHouse, tableVars, answerVars
<1>3. CASE Insert(t)
  <2>1. req[t].user \in Users /\ req[t].house \in Houses
    BY DEF Request
  <2>2. list' \in [Users -> Seq(Row)]
    BY <1>3, AddRowList DEF Insert
  <2>3. <<req[t].user, req[t].house>> \in Pairs
    BY <2>1 DEF Pairs
  <2>4. successes' \in [Pairs -> Nat] /\ known' \in SUBSET Pairs
    <3>1. successes \in [Pairs -> Nat] /\ known \in SUBSET Pairs
      OBVIOUS
    <3>2. \/ /\ successes' = [successes EXCEPT ![<<req[t].user, req[t].house>>] = @ + 1]
             /\ known' = known
          \/ /\ successes' = successes
             /\ known' = known \cup {<<req[t].user, req[t].house>>}
      BY <1>3 DEF Insert
    <3> HIDE DEF TypeOK
    <3> QED  BY <2>3, <3>1, <3>2
  <2>5. req' \in [Threads -> Request]
    BY <1>3, FinishType DEF Insert
  <2> QED
    BY <1>3, <2>2, <2>4, <2>5, MishapType DEF Insert
<1>4. CASE CallFails(t)
  <2>1. list' \in [Users -> Seq(Row)]
    BY <1>4, AddRowList DEF CallFails
  <2>2. req' \in [Threads -> Request]
    BY <1>4, FinishType DEF CallFails
  <2> QED
    BY <1>4, <2>1, <2>2, MishapType DEF CallFails, answerVars
<1> QED  BY <1>1, <1>2, <1>3, <1>4 DEF Serve

LEMMA ScrollType ==
  ASSUME TypeOK, Scroll
  PROVE  TypeOK'
<1>t. walk \in Walk
  BY DEF TypeOK
<1>n. NoWalk \in Walk
  BY NothingType
<1>p. \A phase \in {"idle", "page", "count", "houses", "done", "failed"} :
        phase \in WalkPhases
  BY DEF WalkPhases
<1>e. ASSUME NEW phase \in WalkPhases
      PROVE  /\ [walk EXCEPT !.phase = phase] \in Walk
             /\ \A shown \in Seq(Row) :
                  [walk EXCEPT !.phase = phase, !.shown = shown] \in Walk
             /\ \A total \in Nat :
                  [walk EXCEPT !.phase = phase, !.total = total] \in Walk
             /\ \A start \in Nat, seen \in SUBSET Houses :
                  [walk EXCEPT !.phase = phase, !.start = start, !.seen = seen] \in Walk
  BY <1>t DEF Walk
<1>f. /\ walk.start \in Nat
      /\ walk.shown \in Seq(Row)
      /\ walk.seen \subseteq Houses
      /\ walk.user \in Users
  BY <1>t DEF Walk
<1>u. /\ NoMishap
      /\ UNCHANGED <<tableVars, clock, req, answerVars, requests>>
  BY DEF Scroll, StartWalk, ReadPage, Count, AnswerPage, EndWalk
<1>s. SUFFICES walk' \in Walk
  BY <1>u, MishapType DEF TypeOK, tableVars, answerVars
<1>1. ASSUME NEW u \in Users, StartWalk(u)
      PROVE  walk' \in Walk
  <2>1. Len(list[u]) \in Nat /\ "page" \in WalkPhases
    BY <1>p DEF TypeOK
  <2>2. walk' = [NoWalk EXCEPT !.phase = "page", !.user = u, !.old = Len(list[u])]
    BY <1>1 DEF StartWalk
  <2> QED  BY <1>n, <2>1, <2>2 DEF Walk
<1>2. CASE ReadPage
  <2>1. PICK shown \in Seq(Row) :
          walk' = [walk EXCEPT !.phase = "count", !.shown = shown]
    BY <1>2, PageRows
  <2> QED  BY <1>e, <1>p, <2>1
<1>3. CASE Count
  <2>1. PICK total : /\ walk' = [walk EXCEPT !.phase = "houses", !.total = total]
                     /\ \/ total = OffsetOf(walk.start) + Len(walk.shown)
                        \/ total = Len(list[walk.user])
    BY <1>3 DEF Count
  <2>2. OffsetOf(walk.start) \in Nat
    BY <1>f, OffsetType
  <2>3. Len(walk.shown) \in Nat /\ Len(list[walk.user]) \in Nat
    BY <1>f DEF TypeOK
  <2>4. total \in Nat
    BY <2>1, <2>2, <2>3
  <2> QED  BY <1>e, <1>p, <2>1, <2>4
<1>4. CASE AnswerPage
  <2> DEFINE found == {walk.shown[i].house : i \in 1 .. Len(walk.shown)}
  <2>1. \A i \in 1 .. Len(walk.shown) : walk.shown[i] \in Row
    BY <1>f
  <2>2. found \subseteq Houses
    BY <2>1 DEF Row
  <2>3. walk.start + PageLength \in Nat /\ walk.seen \cup found \in SUBSET Houses
    BY <1>f, <2>2, PageLengthAssumption
  <2>4. \/ walk' = [walk EXCEPT !.phase = "failed"]
        \/ \E phase \in {"page", "done"} :
             walk' = [walk EXCEPT !.phase = phase, !.start = walk.start + PageLength,
                                  !.seen = walk.seen \cup found]
    BY <1>4 DEF AnswerPage
  <2> HIDE DEF found
  <2>5. CASE walk' = [walk EXCEPT !.phase = "failed"]
    BY <1>e, <1>p, <2>5
  <2>6. ASSUME NEW phase \in {"page", "done"},
               walk' = [walk EXCEPT !.phase = phase, !.start = walk.start + PageLength,
                                    !.seen = walk.seen \cup found]
        PROVE  walk' \in Walk
    <3>1. phase \in WalkPhases
      BY <1>p
    <3> QED  BY <1>e, <2>3, <2>6, <3>1
  <2> QED  BY <2>4, <2>5, <2>6
<1>5. CASE EndWalk
  BY <1>5, <1>n DEF EndWalk
<1> QED
  BY <1>1, <1>2, <1>3, <1>4, <1>5 DEF Scroll

LEMMA NextType == TypeOK /\ [Next]_subscriptionVars => TypeOK'
<1> SUFFICES ASSUME TypeOK, [Next]_subscriptionVars PROVE TypeOK'
  OBVIOUS
<1>1. ASSUME NEW t \in Threads, Serve(t) PROVE TypeOK'
  BY <1>1, ServeType
<1>2. CASE Scroll
  BY <1>2, ScrollType
<1>3. ASSUME NEW h \in Houses, SaveHouse(h) PROVE TypeOK'
  BY <1>3, MishapType DEF SaveHouse, TypeOK, answerVars
<1>4. CASE Tick
  BY <1>4, MishapType DEF Tick, TypeOK, tableVars, answerVars
<1>5. CASE Crash
  BY <1>5, MishapType, NothingType DEF Crash, TypeOK, tableVars, answerVars
<1>6. CASE UNCHANGED subscriptionVars
  BY <1>6 DEF subscriptionVars, TypeOK, tableVars, answerVars
<1> QED  BY <1>1, <1>2, <1>3, <1>4, <1>5, <1>6 DEF Next

(***************************************************************************)
(* Type correctness of the viewing list, whatever is asked and scrolled    *)
(* (HouseService.java 358-414).                                            *)
(***************************************************************************)
THEOREM SubscriptionsTyped == Spec => []TypeOK
<1> QED  BY InitType, NextType, PTL DEF Spec

-----------------------------------------------------------------------------
(***************************************************************************)
(* SubscribedOnce is inductive: only the thread that finds no row adds one.*)
(***************************************************************************)
LEMMA OnceInit == Init => SubscribedOnce
<1>1. ASSUME Init, NEW u \in Users, NEW h \in Houses
      PROVE  /\ RowsFor(u, h) = {}
             /\ successes[<<u, h>>] = 0
             /\ <<u, h>> \notin known
  BY <1>1 DEF Init, RowsFor, Pairs
<1>2. ASSUME NEW n, n = 0 PROVE n <= 1 /\ n # 1
  BY <1>2
<1> QED  BY <1>1, <1>2 DEF SubscribedOnce

\* A row added for a house that is not on the list is the only one of it.
LEMMA AddedOnce ==
  ASSUME TypeOK, NEW t \in Threads, AddRow(t),
         NEW v \in Users, NEW g \in Houses, v = req[t].user, g = req[t].house,
         ~ OnList(v, g),
         NEW u \in Users, NEW h \in Houses, \A i, j \in RowsFor(u, h) : i = j
  PROVE  /\ \A i, j \in RowsFor(u, h)' : i = j
         /\ OnList(u, h) => OnList(u, h)'
         /\ OnList(v, g)'
<1>2. /\ \A w \in Users : w # v => list'[w] = list[w]
      /\ Len(list'[v]) = Len(list[v]) + 1
      /\ \A i \in 1 .. Len(list[v]) : list'[v][i] = list[v][i]
      /\ list'[v][Len(list'[v])].house = g
  BY AddRowList
<1>3. Len(list[v]) \in Nat
  BY DEF TypeOK
<1>4. \A i \in 1 .. Len(list[v]) : list[v][i].house # g
  BY DEF OnList
<1>5. OnList(v, g)'
  <2>1. Len(list'[v]) \in 1 .. Len(list'[v])
    BY <1>2, <1>3
  <2> QED  BY <1>2, <2>1 DEF OnList
<1>6. CASE u # v
  BY <1>2, <1>5, <1>6 DEF OnList, RowsFor
<1>7. CASE u = v
  <2>1. ASSUME OnList(u, h) PROVE OnList(u, h)'
    <3>1. PICK i \in 1 .. Len(list[v]) : list[v][i].house = h
      BY <1>7, <2>1 DEF OnList
    <3>2. i \in 1 .. Len(list'[v])
      BY <1>2, <1>3
    <3>3. list'[v][i] = list[v][i]
      BY <1>2
    <3>4. list'[v][i].house = h
      BY <3>1, <3>3
    <3> QED  BY <1>7, <3>2, <3>4 DEF OnList
  <2>2. \A i, j \in RowsFor(u, h)' : i = j
    <3>1. CASE h = g
      <4>1. \A i \in 1 .. Len(list'[v]) : i \in 1 .. Len(list[v]) \/ i = Len(list'[v])
        BY <1>2, <1>3
      <4>2. \A i \in 1 .. Len(list[v]) : list'[v][i].house # h
        BY <1>2, <1>4, <3>1
      <4>3. \A i \in RowsFor(u, h)' : i = Len(list'[v])
        BY <1>7, <4>1, <4>2 DEF RowsFor
      <4> QED  BY <4>3
    <3>2. CASE h # g
      <4>1. \A i \in RowsFor(u, h)' : i \in RowsFor(u, h)
        <5>1. \A i \in 1 .. Len(list'[v]) : i \in 1 .. Len(list[v]) \/ i = Len(list'[v])
          BY <1>2, <1>3
        <5> QED  BY <1>2, <1>7, <3>2, <5>1 DEF RowsFor
      <4> QED  BY <4>1
    <3> QED  BY <3>1, <3>2
  <2> QED  BY <1>5, <2>1, <2>2
<1> QED  BY <1>6, <1>7

\* What SubscribedOnce says of one user and one house.
Once(u, h) ==
  /\ \A i, j \in RowsFor(u, h) : i = j
  /\ successes[<<u, h>>] <= 1
  /\ successes[<<u, h>>] = 1 => OnList(u, h)
  /\ <<u, h>> \in known => OnList(u, h)

LEMMA OnceParts == SubscribedOnce <=> \A u \in Users, h \in Houses : Once(u, h)
BY DEF SubscribedOnce, Once

LEMMA OnceNext == TypeOK /\ SubscribedOnce /\ [Next]_subscriptionVars => SubscribedOnce'
<1> SUFFICES ASSUME TypeOK, SubscribedOnce, [Next]_subscriptionVars,
                    NEW u \in Users, NEW h \in Houses
             PROVE  Once(u, h)'
  BY OnceParts DEF SubscribedOnce, Once
<1>o. Once(u, h)
  BY OnceParts
<1>p. <<u, h>> \in Pairs /\ successes[<<u, h>>] \in Nat
  BY DEF Pairs, TypeOK
<1>1. CASE UNCHANGED <<list, answerVars>>
  BY <1>o, <1>1 DEF Once, RowsFor, OnList, answerVars
<1>2. ASSUME NEW t \in Threads, NEW v \in Users, NEW g \in Houses, Subscribe(t, v, g)
      PROVE  Once(u, h)'
  <2>1. UNCHANGED <<list, successes>>
    BY <1>2 DEF Subscribe, tableVars
  <2>2. known' = known \/ (known' = known \cup {<<v, g>>} /\ OnList(v, g))
    BY <1>2 DEF Subscribe
  <2> QED  BY <1>o, <2>1, <2>2 DEF Once, RowsFor, OnList
<1>3. ASSUME NEW t \in Threads, Insert(t)
      PROVE  Once(u, h)'
  <2>1. PICK v \in Users, g \in Houses : v = req[t].user /\ g = req[t].house
    BY DEF TypeOK, Request
  <2>2. CASE ~ OnList(v, g)
    <3>1. AddRow(t) /\ known' = known
      BY <1>3, <2>1, <2>2 DEF Insert
    <3>2. successes' = [successes EXCEPT ![<<v, g>>] = @ + 1]
      BY <1>3, <2>1, <2>2 DEF Insert
    <3>3. /\ \A i, j \in RowsFor(u, h)' : i = j
          /\ OnList(u, h) => OnList(u, h)'
          /\ OnList(v, g)'
      BY <1>o, <2>1, <2>2, <3>1, AddedOnce DEF Once
    <3>4. CASE <<u, h>> = <<v, g>>
      <4>1. successes[<<u, h>>] = 0
        BY <1>o, <1>p, <2>2, <3>4 DEF Once
      <4>2. successes'[<<u, h>>] = 1
        BY <1>p, <3>2, <3>4, <4>1 DEF TypeOK
      <4> QED  BY <1>o, <3>1, <3>3, <3>4, <4>2 DEF Once
    <3>5. CASE <<u, h>> # <<v, g>>
      <4>1. successes'[<<u, h>>] = successes[<<u, h>>]
        BY <1>p, <3>2, <3>5 DEF TypeOK
      <4> QED  BY <1>o, <3>1, <3>3, <4>1 DEF Once
    <3> QED  BY <3>4, <3>5
  <2>3. CASE OnList(v, g)
    <3>1. UNCHANGED <<list, successes>> /\ known' = known \cup {<<v, g>>}
      BY <1>3, <2>1, <2>3 DEF Insert
    <3> QED  BY <1>o, <2>3, <3>1 DEF Once, RowsFor, OnList
  <2> QED  BY <2>2, <2>3
<1>4. ASSUME NEW t \in Threads, CallFails(t)
      PROVE  Once(u, h)'
  <2>1. PICK v \in Users, g \in Houses : v = req[t].user /\ g = req[t].house
    BY DEF TypeOK, Request
  <2>2. UNCHANGED <<successes, known>>
    BY <1>4 DEF CallFails, answerVars
  <2>3. CASE UNCHANGED list
    <3>1. RowsFor(u, h)' = RowsFor(u, h) /\ (OnList(u, h)' <=> OnList(u, h))
      BY ONLY <2>3 DEF RowsFor, OnList
    <3> QED  BY <1>o, <2>2, <3>1 DEF Once
  <2>4. CASE AddRow(t) /\ ~ OnList(v, g)
    <3>1. /\ \A i, j \in RowsFor(u, h)' : i = j
          /\ OnList(u, h) => OnList(u, h)'
      BY <1>o, <2>1, <2>4, AddedOnce DEF Once
    <3> QED  BY <1>o, <2>2, <3>1 DEF Once
  <2> QED  BY <1>4, <2>1, <2>3, <2>4 DEF CallFails
<1>5. ASSUME NEW t \in Threads, FindHouse(t)
      PROVE  UNCHANGED <<list, answerVars>>
  BY <1>5 DEF FindHouse, tableVars
<1>6. ASSUME Scroll
      PROVE  UNCHANGED <<list, answerVars>>
  BY <1>6 DEF Scroll, StartWalk, ReadPage, Count, AnswerPage, EndWalk, tableVars
<1>7. ASSUME Tick \/ Crash \/ (\E g \in Houses : SaveHouse(g))
      PROVE  UNCHANGED <<list, answerVars>>
  BY <1>7 DEF Tick, Crash, SaveHouse, tableVars
<1> QED
  BY <1>1, <1>2, <1>3, <1>4, <1>5, <1>6, <1>7
     DEF Next, Serve, subscriptionVars, tableVars

(***************************************************************************)
(* A house is on the list of a user once, by the unique key and not by the *)
(* look-up before it; the answers agree (addSubscribeOrder,                *)
(* HouseService.java 358-378).                                             *)
(***************************************************************************)
THEOREM ListedOnce == Spec => []SubscribedOnce
<1> QED  BY OnceInit, OnceNext, SubscriptionsTyped, PTL DEF Spec

-----------------------------------------------------------------------------
(***************************************************************************)
(* No page fails because houses are looked up before they are put on a     *)
(* list and never deleted: what a list, a request about to insert or a page*)
(* being made names has a row.                                             *)
(***************************************************************************)
ListsHaveHouses ==
  \A u \in Users : \A i \in 1 .. Len(list[u]) : list[u][i].house \in houses

RequestsHaveHouses ==
  \A t \in Threads : req[t].phase = "insert" => req[t].house \in houses

PageHasHouses ==
  walk.phase \in {"count", "houses"} =>
    \A i \in 1 .. Len(walk.shown) : walk.shown[i].house \in houses

HousesInv ==
  PairsHaveHouses /\ ListsHaveHouses /\ RequestsHaveHouses /\ PageHasHouses

LEMMA HousesInit == Init => HousesInv
<1> SUFFICES ASSUME Init PROVE HousesInv
  OBVIOUS
<1>1. walk.phase = "idle" /\ \A t \in Threads : req[t].phase = "idle"
  BY DEF Init, NoRequest, NoWalk
<1>2. PairsHaveHouses /\ RequestsHaveHouses /\ PageHasHouses
  BY <1>1 DEF PairsHaveHouses, RequestsHaveHouses, PageHasHouses
<1>3. ASSUME NEW u \in Users PROVE list[u] = <<>>
  BY <1>3 DEF Init
<1>4. ListsHaveHouses
  BY <1>3 DEF ListsHaveHouses
<1> QED  BY <1>2, <1>4 DEF HousesInv

\* A request that inserts adds a house that has a row.
LEMMA ListsHaveHousesAdded ==
  ASSUME TypeOK, ListsHaveHouses, NEW t \in Threads, AddRow(t),
         req[t].house \in houses, UNCHANGED houses
  PROVE  ListsHaveHouses'
<1>1. PICK v \in Users : v = req[t].user
  BY DEF TypeOK, Request
<1>2. /\ \A w \in Users : w # v => list'[w] = list[w]
      /\ Len(list'[v]) = Len(list[v]) + 1
      /\ \A i \in 1 .. Len(list[v]) : list'[v][i] = list[v][i]
      /\ list'[v][Len(list'[v])].house = req[t].house
  BY <1>1, AddRowList
<1>3. Len(list[v]) \in Nat
  BY DEF TypeOK
<1>4. \A i \in 1 .. Len(list'[v]) : i \in 1 .. Len(list[v]) \/ i = Len(list'[v])
  BY <1>2, <1>3
<1>5. \A i \in 1 .. Len(list'[v]) : list'[v][i].house \in houses
  BY <1>2, <1>4 DEF ListsHaveHouses
<1> QED  BY <1>2, <1>5 DEF ListsHaveHouses

LEMMA HousesNext == TypeOK /\ HousesInv /\ [Next]_subscriptionVars => HousesInv'
<1> SUFFICES ASSUME TypeOK, HousesInv, [Next]_subscriptionVars PROVE HousesInv'
  OBVIOUS
<1>i. PairsHaveHouses /\ ListsHaveHouses /\ RequestsHaveHouses /\ PageHasHouses
  BY DEF HousesInv
<1>r. req \in [Threads -> Request]
  BY DEF TypeOK
<1>1. ASSUME NEW t \in Threads, Serve(t)
      PROVE  HousesInv'
  <2>1. UNCHANGED <<houses, walk>>
    BY <1>1 DEF Serve, Subscribe, FindHouse, Insert, CallFails, tableVars
  <2>2. PairsHaveHouses' /\ PageHasHouses'
    BY <1>i, <2>1 DEF PairsHaveHouses, PageHasHouses
  <2>3. ListsHaveHouses'
    <3>1. CASE UNCHANGED list
      BY <1>i, <2>1, <3>1 DEF ListsHaveHouses
    <3>2. CASE AddRow(t) /\ req[t].phase = "insert"
      <4>1. req[t].house \in houses
        BY <1>i, <3>2 DEF RequestsHaveHouses
      <4> QED  BY <1>i, <2>1, <3>2, <4>1, ListsHaveHousesAdded
    <3> QED
      BY <1>1, <3>1, <3>2 DEF Serve, Subscribe, FindHouse, Insert, CallFails, tableVars
  <2>4. RequestsHaveHouses'
    <3>1. ASSUME NEW s \in Threads, s # t
          PROVE  req'[s] = req[s]
      BY <1>1, <1>r, <3>1 DEF Serve, Subscribe, FindHouse, Insert, CallFails, Finish
    <3>2. req'[t].phase = "insert" => req'[t].house \in houses
      <4>1. CASE FindHouse(t)
        <5>1. CASE Finish(t)
          BY <1>r, <5>1 DEF Finish, NoRequest
        <5>2. CASE /\ req[t].house \in houses
                   /\ req' = [req EXCEPT ![t].phase = "insert", ![t].time = clock]
          <6>1. req'[t].house = req[t].house
            BY <1>r, <5>2 DEF Request
          <6> QED  BY <5>2, <6>1
        <5> QED  BY <4>1, <5>1, <5>2 DEF FindHouse
      <4>2. CASE Insert(t) \/ CallFails(t)
        BY <1>r, <4>2 DEF Insert, CallFails, Finish, NoRequest
      <4>3. ASSUME NEW u \in Users, NEW h \in Houses, Subscribe(t, u, h)
            PROVE  req'[t].phase # "insert"
        BY <1>r, <4>3 DEF Subscribe
      <4> QED  BY <1>1, <4>1, <4>2, <4>3 DEF Serve
    <3> QED  BY <1>i, <2>1, <3>1, <3>2 DEF RequestsHaveHouses
  <2> QED  BY <2>2, <2>3, <2>4 DEF HousesInv
<1>2. CASE Scroll
  <2>1. UNCHANGED <<houses, list, req>>
    BY <1>2 DEF Scroll, StartWalk, ReadPage, Count, AnswerPage, EndWalk, tableVars
  <2>2. ListsHaveHouses' /\ RequestsHaveHouses'
    BY <1>i, <2>1 DEF ListsHaveHouses, RequestsHaveHouses
  <2>t. walk \in Walk /\ NoWalk \in Walk
    BY NothingType DEF TypeOK
  <2>3. PairsHaveHouses' /\ PageHasHouses'
    <3>1. ASSUME NEW u \in Users, StartWalk(u)
          PROVE  PairsHaveHouses' /\ PageHasHouses'
      <4>1. walk'.phase = "page"
        BY <2>t, <3>1 DEF StartWalk, Walk
      <4> QED  BY ONLY <4>1 DEF PairsHaveHouses, PageHasHouses
    <3>2. CASE ReadPage
      <4>1. PICK shown \in Seq(Row) :
              /\ walk' = [walk EXCEPT !.phase = "count", !.shown = shown]
              /\ \A i \in 1 .. Len(shown) :
                   \E k \in 1 .. Len(list[walk.user]) : shown[i] = list[walk.user][k]
        BY <3>2, PageRows
      <4>2. walk'.phase = "count" /\ walk'.shown = shown /\ walk.user \in Users
        BY <2>t, <4>1 DEF Walk
      <4>3. \A i \in 1 .. Len(shown) : shown[i].house \in houses
        BY <1>i, <4>1, <4>2 DEF ListsHaveHouses
      <4> QED  BY <2>1, <4>2, <4>3 DEF PairsHaveHouses, PageHasHouses
    <3>3. CASE Count
      <4>1. walk'.phase = "houses" /\ walk'.shown = walk.shown /\ walk.phase = "count"
        BY <2>t, <3>3 DEF Count, Walk
      <4> QED  BY <1>i, <2>1, <4>1 DEF PairsHaveHouses, PageHasHouses
    <3>4. CASE AnswerPage
      <4>1. \A i \in 1 .. Len(walk.shown) : walk.shown[i].house \in houses
        BY <1>i, <3>4 DEF AnswerPage, PageHasHouses
      <4>2. {walk.shown[i].house : i \in 1 .. Len(walk.shown)} \subseteq houses
        BY <4>1
      <4>3. walk'.phase \in {"page", "done"}
        BY <2>t, <3>4, <4>2 DEF AnswerPage, Walk
      <4> QED  BY <4>3 DEF PairsHaveHouses, PageHasHouses
    <3>5. CASE EndWalk
      BY <3>5 DEF EndWalk, NoWalk, PairsHaveHouses, PageHasHouses
    <3>6. (\E u \in Users : StartWalk(u)) \/ ReadPage \/ Count \/ AnswerPage \/ EndWalk
      BY ONLY <1>2 DEF Scroll
    <3> HIDE DEF PairsHaveHouses, PageHasHouses
    <3> QED  BY ONLY <3>1, <3>2, <3>3, <3>4, <3>5, <3>6
  <2> QED  BY <2>2, <2>3 DEF HousesInv
<1>3. ASSUME NEW h \in Houses, SaveHouse(h)
      PROVE  HousesInv'
  <2>1. houses \subseteq houses' /\ UNCHANGED <<list, req, walk>>
    BY <1>3 DEF SaveHouse
  <2> QED
    BY <1>i, <2>1 DEF HousesInv, PairsHaveHouses, ListsHaveHouses,
                      RequestsHaveHouses, PageHasHouses
<1>4. CASE Crash
  <2>1. UNCHANGED <<houses, list>> /\ walk'.phase = "idle"
    BY <1>4 DEF Crash, tableVars, NoWalk
  <2>2. \A t \in Threads : req'[t].phase = "idle"
    BY <1>4 DEF Crash, NoRequest
  <2> QED
    BY <1>i, <2>1, <2>2 DEF HousesInv, PairsHaveHouses, ListsHaveHouses,
                            RequestsHaveHouses, PageHasHouses
<1>5. CASE Tick \/ UNCHANGED subscriptionVars
  <2>1. UNCHANGED <<houses, list, req, walk>>
    BY <1>5 DEF Tick, subscriptionVars, tableVars
  <2> QED
    BY <1>i, <2>1 DEF HousesInv, PairsHaveHouses, ListsHaveHouses,
                      RequestsHaveHouses, PageHasHouses
<1> QED  BY <1>1, <1>2, <1>3, <1>4, <1>5 DEF Next

(***************************************************************************)
(* No page of the viewing list fails for want of a house, though a page is *)
(* made by three queries (wrapper, HouseService.java 388-414).             *)
(***************************************************************************)
THEOREM PagesHaveHouses == Spec => []PairsHaveHouses
<1>1. HousesInv => PairsHaveHouses
  BY DEF HousesInv
<1> QED  BY <1>1, HousesInit, HousesNext, SubscriptionsTyped, PTL DEF Spec

-----------------------------------------------------------------------------
(***************************************************************************)
(* Where a row is in the list: a row no other shares its second with has   *)
(* all newer rows before it and all others behind, in whatever order the   *)
(* database chooses, and new rows can only move it back.                   *)
(***************************************************************************)
Newer(rows, i) == {j \in 1 .. Len(rows) : rows[j].time > rows[i].time}

Rank(rows, i) == Cardinality(Newer(rows, i))

LEMMA RankType ==
  ASSUME NEW rows \in Seq(Row), NEW i
  PROVE  IsFiniteSet(Newer(rows, i)) /\ Rank(rows, i) \in Nat
<1>1. IsFiniteSet(1 .. Len(rows))
  BY FS_Interval
<1>2. Newer(rows, i) \in SUBSET (1 .. Len(rows))
  BY DEF Newer
<1>3. IsFiniteSet(Newer(rows, i))
  BY <1>1, <1>2, FS_Subset
<1> QED  BY <1>3, FS_CardinalityType DEF Rank

LEMMA RankBelow ==
  ASSUME NEW rows \in Seq(Row), NEW i \in 1 .. Len(rows)
  PROVE  Rank(rows, i) < Len(rows)
<1> DEFINE n == Len(rows)
           others == (1 .. n) \ {i}
<1>1. n \in Nat /\ i \in 1 .. n
  OBVIOUS
<1>2. \A j \in 1 .. n : rows[j].time \in Nat
  <2>1. \A j \in 1 .. n : rows[j] \in Row
    OBVIOUS
  <2> QED  BY <2>1 DEF Row
<1>3. ~ (rows[i].time > rows[i].time)
  BY <1>1, <1>2
<1>4. Newer(rows, i) \in SUBSET others
  BY <1>3 DEF Newer
<1> HIDE DEF n
<1>5. IsFiniteSet(1 .. n) /\ Cardinality(1 .. n) = n
  BY <1>1, FS_Interval
<1>6. IsFiniteSet(others) /\ Cardinality(others) = n - 1
  BY <1>1, <1>5, FS_RemoveElement
<1>7. Rank(rows, i) <= n - 1
  BY <1>4, <1>6, FS_Subset DEF Rank
<1> QED  BY <1>1, <1>7, RankType DEF n

\* rows is a beginning of more.
Begins(rows, more) ==
  Len(rows) <= Len(more) /\ \A i \in 1 .. Len(rows) : more[i] = rows[i]

LEMMA RankGrows ==
  ASSUME NEW rows \in Seq(Row), NEW more \in Seq(Row), Begins(rows, more),
         NEW i \in 1 .. Len(rows)
  PROVE  /\ Rank(rows, i) <= Rank(more, i)
         /\ Untied(more, i) => Untied(rows, i)
<1>1. 1 .. Len(rows) \subseteq 1 .. Len(more)
  BY DEF Begins
<1>2. \A j \in 1 .. Len(rows) : more[j] = rows[j]
  BY DEF Begins
<1>3. Newer(rows, i) \in SUBSET Newer(more, i)
  BY <1>1, <1>2 DEF Newer
<1>4. Rank(rows, i) <= Rank(more, i)
  BY <1>3, RankType, FS_Subset DEF Rank
<1>5. Untied(more, i) => Untied(rows, i)
  BY <1>1, <1>2 DEF Untied
<1> QED  BY <1>4, <1>5

LEMMA RankIsPosition ==
  ASSUME NEW rows \in Seq(Row), NEW order \in NewestFirst(rows),
         NEW i \in 1 .. Len(rows), Untied(rows, i)
  PROVE  Rank(rows, i) + 1 \in 1 .. Len(rows) /\ order[Rank(rows, i) + 1] = i
<1> DEFINE n == Len(rows)
<1>1. n \in Nat
  OBVIOUS
<1>2. order \in [1 .. n -> 1 .. n]
  BY DEF NewestFirst
<1>3. \A a, b \in 1 .. n : a < b => /\ order[a] # order[b]
                                    /\ rows[order[a]].time >= rows[order[b]].time
  BY DEF NewestFirst
<1>4. \A a \in 1 .. n : rows[a].time \in Nat
  <2>1. \A a \in 1 .. n : rows[a] \in Row
    OBVIOUS
  <2> QED  BY <2>1 DEF Row
<1> HIDE DEF n
<1>5. \A a, b \in 1 .. n : order[a] = order[b] => a = b
  <2> TAKE a, b \in 1 .. n
  <2>1. a < b \/ b < a \/ a = b
    BY <1>1
  <2> QED  BY <1>3, <2>1
<1>6. order \in Surjection(1 .. n, 1 .. n)
  <2>1. order \in Injection(1 .. n, 1 .. n)
    BY <1>2, <1>5 DEF Injection, IsInjective
  <2>2. IsFiniteSet(1 .. n)
    BY <1>1, FS_Interval
  <2> QED  BY <2>1, <2>2, FS_Injection
<1>7. PICK place \in 1 .. n : order[place] = i
  <2>1. i \in 1 .. n
    BY DEF n
  <2> QED  BY <1>6, <2>1 DEF Surjection
<1> DEFINE before == 1 .. (place - 1)
<1>8. before \subseteq 1 .. n /\ place - 1 \in Nat
  BY <1>1
<1>9. \A a \in before : order[a] \in Newer(rows, i)
  <2> TAKE a \in before
  <2>1. a \in 1 .. n /\ a < place
    BY <1>1
  <2>2. order[a] # i /\ rows[order[a]].time >= rows[i].time
    BY <1>3, <1>7, <2>1
  <2>3. order[a] \in 1 .. n
    BY <1>2, <2>1
  <2>4. rows[order[a]].time # rows[i].time
    BY <2>2, <2>3 DEF Untied, n
  <2>5. rows[order[a]].time \in Nat /\ rows[i].time \in Nat
    BY <1>4, <2>3 DEF n
  <2>6. rows[order[a]].time > rows[i].time
    BY <2>2, <2>4, <2>5
  <2> QED  BY <2>3, <2>6 DEF Newer, n
<1>10. \A j \in Newer(rows, i) : \E a \in before : order[a] = j
  <2> TAKE j \in Newer(rows, i)
  <2>1. j \in 1 .. n /\ rows[j].time > rows[i].time
    BY DEF Newer, n
  <2>2. PICK a \in 1 .. n : order[a] = j
    BY <1>6, <2>1 DEF Surjection
  <2>3. rows[j].time \in Nat /\ rows[i].time \in Nat
    BY <1>4, <2>1 DEF n
  <2>4. a # place
    BY <1>7, <2>1, <2>2, <2>3
  <2>5. ~ (place < a)
    BY <1>3, <1>7, <2>1, <2>2, <2>3
  <2>6. a \in before
    BY <1>1, <2>4, <2>5
  <2> QED  BY <2>2, <2>6
<1>11. Cardinality(Newer(rows, i)) = place - 1
  <2> DEFINE f == [a \in before |-> order[a]]
  <2>1. f \in Bijection(before, Newer(rows, i))
    <3>1. f \in [before -> Newer(rows, i)]
      BY <1>9
    <3>2. \A a, b \in before : f[a] = f[b] => a = b
      BY <1>5, <1>8
    <3>3. \A j \in Newer(rows, i) : \E a \in before : f[a] = j
      BY <1>10
    <3> HIDE DEF f, before
    <3>4. f \in Injection(before, Newer(rows, i))
      BY <3>1, <3>2 DEF Injection, IsInjective
    <3>5. f \in Surjection(before, Newer(rows, i))
      BY <3>1, <3>3 DEF Surjection
    <3> QED  BY <3>4, <3>5 DEF Bijection
  <2>2. ExistsBijection(1 .. (place - 1), Newer(rows, i))
    BY <2>1 DEF ExistsBijection
  <2> QED  BY <1>8, <2>2, FS_CountingElements
<1>12. Rank(rows, i) + 1 = place
  BY <1>11 DEF Rank
<1> QED  BY <1>7, <1>12 DEF n

-----------------------------------------------------------------------------
(***************************************************************************)
(* Scrolling misses nothing.  Before a page is read, the rows not yet shown*)
(* have at least the rank the page starts from; after, those not on it have*)
(* a higher one, so the page is full and the total beyond it.              *)
(***************************************************************************)
Unseen(i) ==
  LET rows == list[walk.user]
  IN Untied(rows, i) /\ rows[i].house \notin walk.seen

OnPage(i) ==
  \E k \in 1 .. Len(walk.shown) : walk.shown[k].house = list[walk.user][i].house

Behind(i, n) == Rank(list[walk.user], i) >= n

StartsPage == OffsetOf(walk.start) = walk.start /\ walk.old <= Len(list[walk.user])

BeforePage ==
  walk.phase = "page" =>
    \A i \in 1 .. walk.old : Unseen(i) => Behind(i, walk.start)

AfterPage ==
  walk.phase \in {"count", "houses"} =>
    \A i \in 1 .. walk.old : Unseen(i) =>
      \/ OnPage(i)
      \/ Len(walk.shown) = PageLength /\ Behind(i, walk.start + PageLength)

AfterCount ==
  walk.phase = "houses" =>
    \A i \in 1 .. walk.old : Unseen(i) =>
      OnPage(i) \/ walk.total > walk.start + PageLength

WalkInv ==
  StartsPage /\ BeforePage /\ AfterPage /\ AfterCount /\ WalkMissesNothing

LEMMA NextPageStarts ==
  ASSUME NEW start \in Nat, OffsetOf(start) = start
  PROVE  OffsetOf(start + PageLength) = start + PageLength
<1> DEFINE q == start \div PageLength
<1>1. q \in Nat /\ PageLength \in Nat \ {0}
  BY PageLengthAssumption
<1>2. (start + PageLength) \div PageLength = q + 1
  BY <1>1, Z3
<1>3. (q + 1) * PageLength = q * PageLength + PageLength
  <2> HIDE DEF q
  <2> QED  BY <1>1, Z3
<1> QED  BY <1>2, <1>3 DEF OffsetOf

\* A list only grows while the walk rests.
LEMMA WalkKept ==
  ASSUME TypeOK, TypeOK', WalkInv, UNCHANGED walk,
         Begins(list[walk.user], list'[walk.user])
  PROVE  WalkInv'
<1> DEFINE rows == list[walk.user]
           more == list'[walk.user]
<1>1. /\ rows \in Seq(Row) /\ more \in Seq(Row)
      /\ walk.start \in Nat /\ walk.old \in Nat
  BY DEF TypeOK, Walk
<1>2. walk.old <= Len(rows) /\ Len(rows) \in Nat /\ Len(more) \in Nat
  BY <1>1 DEF WalkInv, StartsPage
<1>3. ASSUME NEW i \in 1 .. walk.old
      PROVE  /\ more[i] = rows[i]
             /\ Untied(more, i) => Untied(rows, i)
             /\ \A n \in Nat : Rank(rows, i) >= n => Rank(more, i) >= n
  <2>1. i \in 1 .. Len(rows)
    BY <1>1, <1>2
  <2>2. Rank(rows, i) \in Nat /\ Rank(more, i) \in Nat
    BY <1>1, RankType
  <2>3. Rank(rows, i) <= Rank(more, i) /\ (Untied(more, i) => Untied(rows, i))
    BY <1>1, <2>1, RankGrows
  <2> QED  BY <2>1, <2>2, <2>3 DEF Begins
<1>4. \A i \in 1 .. walk.old : Unseen(i)' => Unseen(i)
  BY <1>3 DEF Unseen
<1>5. \A i \in 1 .. walk.old : OnPage(i) => OnPage(i)'
  BY <1>3 DEF OnPage
<1>6. \A i \in 1 .. walk.old : \A n \in Nat : Behind(i, n) => Rank(more, i) >= n
  BY <1>3 DEF Behind
<1>7. StartsPage'
  BY <1>1, <1>2 DEF WalkInv, StartsPage, OffsetOf, Begins
<1>8. BeforePage'
  BY <1>1, <1>4, <1>6 DEF WalkInv, BeforePage, Behind
<1>9. AfterPage'
  <2>1. walk.start + PageLength \in Nat
    BY <1>1, PageLengthAssumption
  <2> QED  BY <1>4, <1>5, <1>6, <2>1 DEF WalkInv, AfterPage, Behind
<1>10. AfterCount'
  BY <1>4, <1>5 DEF WalkInv, AfterCount
<1>11. WalkMissesNothing'
  BY <1>3 DEF WalkInv, WalkMissesNothing
<1> QED  BY <1>7, <1>8, <1>9, <1>10, <1>11 DEF WalkInv

\* Every step keeps the rows of every list in their places.
LEMMA ListsGrow ==
  ASSUME TypeOK, [Next]_subscriptionVars, NEW u \in Users
  PROVE  Begins(list[u], list'[u])
<1>1. Len(list[u]) \in Nat
  BY DEF TypeOK
<1>2. CASE UNCHANGED list
  BY <1>1, <1>2 DEF Begins
<1>3. ASSUME NEW t \in Threads, AddRow(t)
      PROVE  Begins(list[u], list'[u])
  <2>1. CASE u = req[t].user
    BY <1>1, <1>3, <2>1, AddRowList DEF Begins
  <2>2. CASE u # req[t].user
    BY <1>1, <1>3, <2>2, AddRowList DEF Begins
  <2> QED  BY <2>1, <2>2
<1> QED
  BY <1>2, <1>3 DEF Next, Serve, Scroll, Subscribe, FindHouse, Insert, CallFails,
     StartWalk, ReadPage, Count, AnswerPage, EndWalk, SaveHouse, Tick, Crash,
     subscriptionVars, tableVars

\* Nothing is missed by one who has not begun.
LEMMA FreshWalk ==
  ASSUME OffsetOf(0) = 0, walk.start = 0, walk.old \in Nat,
         walk.old <= Len(list[walk.user]), walk.phase \in {"idle", "page"},
         list[walk.user] \in Seq(Row)
  PROVE  WalkInv
<1>1. \A i \in 1 .. walk.old : Behind(i, 0)
  BY RankType DEF Behind
<1> QED
  BY <1>1 DEF WalkInv, StartsPage, BeforePage, AfterPage, AfterCount, WalkMissesNothing

LEMMA FirstPageStarts == OffsetOf(0) = 0
<1>1. 0 \div PageLength = 0
  BY PageLengthAssumption, Z3
<1>2. 0 * PageLength = 0
  BY PageLengthAssumption
<1> QED  BY <1>1, <1>2 DEF OffsetOf

LEMMA NoWalkInv ==
  ASSUME TypeOK, walk = NoWalk
  PROVE  WalkInv
<1>1. /\ walk.phase = "idle" /\ walk.start = 0 /\ walk.old = 0
      /\ walk.user \in Users
  BY UsersAssumption DEF NoWalk, AnyUser
<1>2. list[walk.user] \in Seq(Row)
  BY <1>1 DEF TypeOK
<1>3. Len(list[walk.user]) \in Nat
  BY <1>2
<1> HIDE DEF TypeOK
<1> QED  BY <1>1, <1>2, <1>3, FirstPageStarts, FreshWalk

\* The page takes the unseen rows from its first rank on.
LEMMA PageRead ==
  ASSUME TypeOK, WalkInv, ReadPage
  PROVE  WalkInv'
<1> DEFINE rows == list[walk.user]
           size == RowsOnPage(Len(rows), walk.start)
<1>1. /\ walk \in Walk /\ walk.user \in Users
      /\ walk.start \in Nat /\ walk.old \in Nat
  BY DEF TypeOK, Walk
<1>2. rows \in Seq(Row) /\ Len(rows) \in Nat
  BY <1>1 DEF TypeOK
<1>3. OffsetOf(walk.start) = walk.start /\ walk.old <= Len(rows) /\ walk.phase = "page"
  <2>1. walk.phase = "page"
    BY DEF ReadPage
  <2>2. StartsPage
    BY DEF WalkInv
  <2> HIDE DEF OffsetOf
  <2> QED  BY ONLY <2>1, <2>2 DEF StartsPage
<1>t. PICK order \in NewestFirst(rows), shown \in Seq(Row) :
        /\ walk' = [walk EXCEPT !.phase = "count", !.shown = shown]
        /\ Len(shown) = RowsOnPage(Len(rows), OffsetOf(walk.start))
        /\ \A k \in 1 .. Len(shown) :
             /\ order[OffsetOf(walk.start) + k] \in 1 .. Len(rows)
             /\ shown[k] = rows[order[OffsetOf(walk.start) + k]]
  BY PageTaken
<1>4. /\ walk' = [walk EXCEPT !.phase = "count", !.shown = shown]
      /\ Len(shown) = size
      /\ \A k \in 1 .. Len(shown) : shown[k] = rows[order[walk.start + k]]
  <2> HIDE DEF rows
  <2> QED  BY <1>3, <1>t
<1>5. /\ walk'.phase = "count" /\ walk'.shown = shown /\ walk'.seen = walk.seen
      /\ walk'.start = walk.start /\ walk'.old = walk.old /\ walk'.user = walk.user
      /\ list' = list
  BY <1>1, <1>4 DEF Walk, ReadPage, tableVars
<1>6. ASSUME NEW i \in 1 .. walk.old, Unseen(i)
      PROVE  \/ \E k \in 1 .. Len(shown) : shown[k].house = rows[i].house
             \/ Len(shown) = PageLength /\ Rank(rows, i) >= walk.start + PageLength
  <2>1. i \in 1 .. Len(rows) /\ Untied(rows, i)
    BY <1>1, <1>2, <1>3, <1>6 DEF Unseen
  <2> DEFINE r == Rank(rows, i)
  <2>2. r \in Nat /\ r >= walk.start
    BY <1>2, <1>3, <1>6, RankType DEF WalkInv, BeforePage, Behind
  <2>3. r + 1 \in 1 .. Len(rows) /\ order[r + 1] = i
    BY <1>2, <2>1, RankIsPosition
  <2>4. size \in Nat
    BY <1>1, <1>2, PageSize
  <2> HIDE DEF r
  <2>5. CASE r < walk.start + size
    <3> DEFINE k == r + 1 - walk.start
    <3>1. k \in 1 .. size /\ walk.start + k = r + 1
      BY <1>1, <2>2, <2>4, <2>5
    <3>2. shown[k] = rows[i]
      BY <1>4, <2>3, <3>1
    <3> QED  BY <1>4, <3>1, <3>2
  <2>6. CASE r >= walk.start + size
    <3>1. size = PageLength
      BY <1>1, <1>2, <2>2, <2>3, <2>6, PageLengthAssumption DEF RowsOnPage
    <3> QED  BY <1>4, <2>6, <3>1 DEF r
  <2> QED  BY <1>1, <2>2, <2>4, <2>5, <2>6
<1>7. AfterPage'
  BY <1>5, <1>6 DEF AfterPage, Unseen, OnPage, Behind
<1>8. StartsPage' /\ BeforePage' /\ AfterCount' /\ WalkMissesNothing'
  BY <1>3, <1>5 DEF StartsPage, BeforePage, AfterCount, WalkMissesNothing, OffsetOf
<1> QED  BY <1>7, <1>8 DEF WalkInv

\* When rows are left the page was full, so the total is beyond it.
LEMMA PageCounted ==
  ASSUME TypeOK, WalkInv, Count
  PROVE  WalkInv'
<1> DEFINE rows == list[walk.user]
<1>1. /\ walk \in Walk /\ walk.user \in Users
      /\ walk.start \in Nat /\ walk.old \in Nat
  BY DEF TypeOK, Walk
<1>2. rows \in Seq(Row) /\ Len(rows) \in Nat
  BY <1>1 DEF TypeOK
<1>3. StartsPage /\ AfterPage /\ walk.phase = "count"
  BY DEF WalkInv, Count
<1>4. /\ walk'.phase = "houses" /\ walk'.shown = walk.shown /\ walk'.seen = walk.seen
      /\ walk'.start = walk.start /\ walk'.old = walk.old /\ walk'.user = walk.user
      /\ list' = list
      /\ Len(walk.shown) >= PageLength => walk'.total = Len(rows)
  BY <1>1, PageLengthAssumption DEF Walk, Count, tableVars
<1>5. ASSUME NEW i \in 1 .. walk.old, Unseen(i), ~ OnPage(i)
      PROVE  walk'.total > walk.start + PageLength
  <2>1. i \in 1 .. Len(rows) /\ Untied(rows, i)
    BY <1>1, <1>2, <1>3, <1>5 DEF Unseen, StartsPage
  <2>2. Len(walk.shown) = PageLength /\ Rank(rows, i) >= walk.start + PageLength
    BY <1>3, <1>5 DEF AfterPage, Behind
  <2>3. walk'.total = Len(rows)
    BY <1>4, <2>2, PageLengthAssumption
  <2>4. Rank(rows, i) < Len(rows)
    BY <1>2, <2>1, RankBelow
  <2> QED  BY <1>1, <1>2, <2>2, <2>3, <2>4, RankType, PageLengthAssumption
<1>6. AfterCount' /\ AfterPage'
  BY <1>3, <1>4, <1>5 DEF AfterPage, AfterCount, Unseen, OnPage, Behind
<1>7. StartsPage' /\ BeforePage' /\ WalkMissesNothing'
  BY <1>3, <1>4 DEF StartsPage, BeforePage, WalkMissesNothing, OffsetOf
<1> QED  BY <1>6, <1>7 DEF WalkInv

\* The answer shows the page; what it leaves out starts the next one.
LEMMA PageAnswered ==
  ASSUME TypeOK, WalkInv, AnswerPage
  PROVE  WalkInv'
<1> DEFINE rows == list[walk.user]
           found == {walk.shown[k].house : k \in 1 .. Len(walk.shown)}
           more == walk.shown # <<>> /\ walk.total > walk.start + PageLength
<1>1. /\ walk \in Walk /\ walk.start \in Nat /\ walk.old \in Nat
      /\ walk.shown \in Seq(Row)
  BY DEF TypeOK, Walk
<1>2. /\ StartsPage /\ AfterPage /\ AfterCount
      /\ walk.phase = "houses" /\ list' = list
  BY DEF WalkInv, AnswerPage, tableVars
<1>3. CASE walk' = [walk EXCEPT !.phase = "failed"]
  <2>1. /\ walk'.phase = "failed" /\ walk'.start = walk.start
        /\ walk'.old = walk.old /\ walk'.user = walk.user
    BY <1>1, <1>3 DEF Walk
  <2> QED
    BY <1>2, <2>1 DEF WalkInv, StartsPage, BeforePage, AfterPage, AfterCount,
                      WalkMissesNothing, OffsetOf
<1>4. CASE walk' = [walk EXCEPT !.phase = IF more THEN "page" ELSE "done",
                                !.start = walk.start + PageLength,
                                !.seen = walk.seen \cup found]
  <2>1. /\ walk'.phase = IF more THEN "page" ELSE "done"
        /\ walk'.start = walk.start + PageLength
        /\ walk'.seen = walk.seen \cup found
        /\ walk'.old = walk.old /\ walk'.user = walk.user
    BY <1>1, <1>4 DEF Walk
  <2>2. StartsPage'
    BY <1>1, <1>2, <2>1, NextPageStarts DEF StartsPage, OffsetOf
  <2>3. ASSUME NEW i \in 1 .. walk.old, Untied(rows, i), rows[i].house \notin walk'.seen
        PROVE  more /\ Rank(rows, i) >= walk.start + PageLength
    <3>1. Unseen(i)
      BY <2>1, <2>3 DEF Unseen
    <3>2. ~ OnPage(i)
      BY <2>1, <2>3 DEF OnPage
    <3>3. /\ Len(walk.shown) = PageLength
          /\ Rank(rows, i) >= walk.start + PageLength
          /\ walk.total > walk.start + PageLength
      BY <1>2, <3>1, <3>2 DEF AfterPage, AfterCount, Behind
    <3>4. walk.shown # <<>>
      BY <1>1, <3>3, PageLengthAssumption
    <3> QED  BY <3>3, <3>4
  <2> HIDE DEF more, found
  <2>4. BeforePage'
    BY <1>2, <2>1, <2>3 DEF BeforePage, Unseen, Behind
  <2>5. WalkMissesNothing'
    BY <1>2, <2>1, <2>3 DEF WalkMissesNothing
  <2>6. AfterPage' /\ AfterCount'
    BY <2>1 DEF AfterPage, AfterCount
  <2> QED  BY <2>2, <2>4, <2>5, <2>6 DEF WalkInv
<1> QED  BY <1>3, <1>4 DEF AnswerPage, More

LEMMA WalkStarted ==
  ASSUME TypeOK, NEW u \in Users, StartWalk(u)
  PROVE  WalkInv'
<1>1. list[u] \in Seq(Row) /\ Len(list[u]) \in Nat /\ list' = list
  BY DEF TypeOK, StartWalk, tableVars
<1>2. /\ walk'.phase = "page" /\ walk'.user = u
      /\ walk'.old = Len(list[u]) /\ walk'.start = 0
  BY DEF StartWalk, NoWalk
<1>3. \A i \in 1 .. Len(list[u]) : Rank(list[u], i) >= 0
  BY <1>1, RankType
<1> QED
  BY <1>1, <1>2, <1>3, FirstPageStarts
     DEF WalkInv, StartsPage, BeforePage, AfterPage, AfterCount, Unseen, Behind,
         WalkMissesNothing, OffsetOf

LEMMA WalkNext == TypeOK /\ TypeOK' /\ WalkInv /\ [Next]_subscriptionVars => WalkInv'
<1> SUFFICES ASSUME TypeOK, TypeOK', WalkInv, [Next]_subscriptionVars PROVE WalkInv'
  OBVIOUS
<1>1. CASE UNCHANGED walk
  <2>1. walk.user \in Users
    BY DEF TypeOK, Walk
  <2>2. Begins(list[walk.user], list'[walk.user])
    BY <2>1, ListsGrow
  <2> QED  BY <1>1, <2>2, WalkKept
<1>2. CASE walk' = NoWalk
  <2>1. walk'.phase = "idle" /\ walk'.start = 0 /\ walk'.old = 0 /\ walk'.user \in Users
    BY <1>2, UsersAssumption DEF NoWalk, AnyUser
  <2>2. Len(list'[walk'.user]) \in Nat
    BY <2>1 DEF TypeOK
  <2> QED
    BY <2>1, <2>2, FirstPageStarts
       DEF WalkInv, StartsPage, BeforePage, AfterPage, AfterCount, WalkMissesNothing,
           OffsetOf
<1>3. CASE Scroll
  BY <1>2, <1>3, WalkStarted, PageRead, PageCounted, PageAnswered DEF Scroll, EndWalk
<1>4. CASE Crash
  BY <1>2, <1>4 DEF Crash
<1>5. CASE \/ \E t \in Threads : Serve(t)
           \/ \E h \in Houses : SaveHouse(h)
           \/ Tick
           \/ UNCHANGED subscriptionVars
  BY <1>1, <1>5 DEF Serve, Subscribe, FindHouse, Insert, CallFails, SaveHouse, Tick,
                    subscriptionVars, tableVars
<1> QED  BY <1>3, <1>4, <1>5 DEF Next

LEMMA WalkInit == Init => WalkInv
BY InitType, NoWalkInv DEF Init

(***************************************************************************)
(* Whoever scrolls to the end of his list has seen every house that was on *)
(* it when he began, however the list grew and for every length of a page, *)
(* houses added in the same second as another excepted                     *)
(* (querySubscribeList, HouseService.java 381-387).                        *)
(***************************************************************************)
THEOREM ScrollingIsComplete == Spec => []WalkMissesNothing
<1>1. WalkInv => WalkMissesNothing
  BY DEF WalkInv
<1> QED  BY <1>1, WalkInit, WalkNext, SubscriptionsTyped, PTL DEF Spec

=============================================================================
