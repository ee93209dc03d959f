----------------------------- MODULE Subscriptions -----------------------------
(***************************************************************************)
(* The viewing list of a visitor (HouseService.addSubscribeOrder and       *)
(* querySubscribeList): request threads that look whether a house is on    *)
(* the list of the user and then put it there, and a user who scrolls      *)
(* through the list while it grows.                                        *)
(*                                                                         *)
(* Each repository call is a transaction of its own, so requests of one    *)
(* user interleave between any two.  External: MySQL holds the unique key  *)
(* of table house_subscribe (db/xunwu.sql), stores create_time in seconds  *)
(* and orders equal ones as it likes in each query; the browser asks for   *)
(* the next page while the answer says there is more (static/js/center.js).*)
(***************************************************************************)
EXTENDS HouseVocabulary, Mishaps

CONSTANTS
  Threads,         \* request threads of the servlet container
  Users,           \* visitors
  PageLength,      \* rows on a page
  MaxRequests,     \* bound on the requests to subscribe
  MaxClock         \* bound on the seconds that pass

ASSUME UsersAssumption == Users # {}
ASSUME PageLengthAssumption == PageLength \in Nat \ {0}
ASSUME BoundsAssumption == MaxRequests \in Nat /\ MaxClock \in Nat

VARIABLES
  houses,          \* the houses with a row
  list,            \* list[u]: the rows of user u, by id
  clock,           \* the current second
  req,             \* req[t]: the request thread t is serving
  walk,            \* how far a user has scrolled through his list
  successes,       \* successes[<<u, h>>]: answers saying h is now on the list of u
  known,           \* the pairs of which an answer said that it is there already
  requests         \* requests started, a bound only

tableVars  == <<houses, list>>
answerVars == <<successes, known>>
subscriptionVars ==
  <<tableVars, clock, req, walk, answerVars, requests, faults>>

Pairs == Users \X Houses

Row == [house : Houses, time : Nat]

Phases == {"idle", "house", "insert"}

Request == [phase : Phases, user : Users, house : Houses, time : Nat]

WalkPhases == {"idle", "page", "count", "houses", "done", "failed"}

\* old: how many rows there were when the walk began.  start: what the next
\* page is asked from.  shown: the rows of the page.  seen: what has been shown.
Walk ==
  [phase : WalkPhases, user : Users, old : Nat, start : Nat,
   shown : Seq(Row), total : Nat, seen : SUBSET Houses]

AnyUser == CHOOSE u \in Users : TRUE
NoRequest == [phase |-> "idle", user |-> AnyUser,
              house |-> CHOOSE h \in Houses : TRUE, time |-> 0]
NoWalk == [phase |-> "idle", user |-> AnyUser, old |-> 0, start |-> 0,
           shown |-> <<>>, total |-> 0, seen |-> {}]

TypeOK ==
  /\ houses \subseteq Houses
  /\ list \in [Users -> Seq(Row)]
  /\ clock \in Nat
  /\ req \in [Threads -> Request]
  /\ walk \in Walk
  /\ successes \in [Pairs -> Nat]
  /\ known \subseteq Pairs
  /\ requests \in 0 .. MaxRequests
  /\ faults \in 0 .. MaxFaults

Init ==
  /\ houses \in SUBSET Houses
  /\ list = [u \in Users |-> <<>>]
  /\ clock = 0
  /\ req = [t \in Threads |-> NoRequest]
  /\ walk = NoWalk
  /\ successes = [p \in Pairs |-> 0]
  /\ known = {}
  /\ requests = 0
  /\ faults = 0

-----------------------------------------------------------------------------
(* addSubscribeOrder.                                                      *)

OnList(u, h) == \E i \in 1 .. Len(list[u]) : list[u][i].house = h

Finish(t) == req' = [req EXCEPT ![t] = NoRequest]

\* findByHouseIdAndUserId: a house that is there already is refused.
Subscribe(t, u, h) ==
  /\ req[t].phase = "idle"
  /\ requests < MaxRequests
  /\ requests' = requests + 1
  /\ \/ /\ OnList(u, h)
        /\ known' = known \cup {<<u, h>>}
        /\ UNCHANGED req
     \/ /\ ~ OnList(u, h)
        /\ req' = [req EXCEPT ![t] = [phase |-> "house", user |-> u,
                                      house |-> h, time |-> 0]]
        /\ UNCHANGED known
  /\ NoMishap
  /\ UNCHANGED <<tableVars, clock, walk, successes>>

\* A variant with a bug: the house is not looked up.
FindHouse_Unchecked(t) ==
  /\ req[t].phase = "house"
  /\ req' = [req EXCEPT ![t].phase = "insert", ![t].time = clock]
  /\ NoMishap
  /\ UNCHANGED <<tableVars, clock, walk, answerVars, requests>>

\* The house must exist; the row is stamped before it is saved.
FindHouse(t) ==
  /\ req[t].phase = "house"
  /\ \/ req[t].house \notin houses /\ Finish(t)
     \/ /\ req[t].house \in houses
        /\ req' = [req EXCEPT ![t].phase = "insert", ![t].time = clock]
  /\ NoMishap
  /\ UNCHANGED <<tableVars, clock, walk, answerVars, requests>>

\* The row of thread t goes to the end of the table.
AddRow(t) ==
  list' = [list EXCEPT ![req[t].user] =
             Append(@, [house |-> req[t].house, time |-> req[t].time])]

\* A variant with a bug: a table without the unique key.
Insert_Unkeyed(t) ==
  LET u == req[t].user
      h == req[t].house
  IN /\ req[t].phase = "insert"
     /\ AddRow(t)
     /\ successes' = [successes EXCEPT ![<<u, h>>] = @ + 1]
     /\ Finish(t)
     /\ NoMishap
     /\ UNCHANGED <<houses, clock, walk, known, requests>>

\* The unique key makes the save of a second row throw.
Insert(t) ==
  LET u == req[t].user
      h == req[t].house
  IN /\ req[t].phase = "insert"
     /\ \/ /\ ~ OnList(u, h)
           /\ AddRow(t)
           /\ successes' = [successes EXCEPT ![<<u, h>>] = @ + 1]
           /\ UNCHANGED known
        \/ /\ OnList(u, h)
           /\ known' = known \cup {<<u, h>>}
           /\ UNCHANGED <<list, successes>>
     /\ Finish(t)
     /\ NoMishap
     /\ UNCHANGED <<houses, clock, walk, requests>>

\* A repository call fails; of a save only the answer may have been lost.
CallFails(t) ==
  /\ req[t].phase # "idle"
  /\ Mishap("database")
  /\ \/ UNCHANGED list
     \/ /\ req[t].phase = "insert"
        /\ ~ OnList(req[t].user, req[t].house)
        /\ AddRow(t)
  /\ Finish(t)
  /\ UNCHANGED <<houses, clock, walk, answerVars, requests>>

\* The process dies: requests are forgotten, and the user's scrolling ends.
Crash ==
  /\ Mishap("crash")
  /\ req' = [t \in Threads |-> NoRequest]
  /\ walk' = NoWalk
  /\ UNCHANGED <<tableVars, clock, answerVars, requests>>

-----------------------------------------------------------------------------
(* querySubscribeList and the pages a browser asks for.                    *)

\* A variant with a bug: the first page is page 0 for the browser as well.
StartWalk_FromZero(u) ==
  /\ walk.phase = "idle"
  /\ walk' = [NoWalk EXCEPT !.phase = "page", !.user = u, !.old = Len(list[u]),
                            !.start = (0 - 1) * PageLength]
  /\ NoMishap
  /\ UNCHANGED <<tableVars, clock, req, answerVars, requests>>

\* start = (page - 1) * size, from page 1 on.
StartWalk(u) ==
  /\ walk.phase = "idle"
  /\ walk' = [NoWalk EXCEPT !.phase = "page", !.user = u, !.old = Len(list[u])]
  /\ NoMishap
  /\ UNCHANGED <<tableVars, clock, req, answerVars, requests>>

\* The rows from the newest to the oldest, in one of the orders there are.
NewestFirst(rows) ==
  {order \in [1 .. Len(rows) -> 1 .. Len(rows)] :
     \A i, j \in 1 .. Len(rows) :
       i < j => /\ order[i] # order[j]
                /\ rows[order[i]].time >= rows[order[j]].time}

\* A variant with a bug: the page number is the row to start from.
OffsetOf_Undivided(start) == start * PageLength

\* PageRequest takes the number of a page: start / size, rounded down.
OffsetOf(start) == (start \div PageLength) * PageLength

\* The rows of a table of n that a page holds.
RowsOnPage(n, offset) ==
  IF offset >= n THEN 0
  ELSE IF n - offset < PageLength THEN n - offset ELSE PageLength

ReadPage ==
  LET rows == list[walk.user]
      offset == OffsetOf(walk.start)
  IN /\ walk.phase = "page"
     /\ \E order \in NewestFirst(rows) :
          walk' = [walk EXCEPT
                     !.phase = "count",
                     !.shown = [i \in 1 .. RowsOnPage(Len(rows), offset) |->
                                  rows[order[offset + i]]]]
     /\ NoMishap
     /\ UNCHANGED <<tableVars, clock, req, answerVars, requests>>

\* A page that is not full tells the total, else a second query counts.
Count ==
  LET offset == OffsetOf(walk.start)
      got == Len(walk.shown)
      last == got < PageLength /\ (offset = 0 \/ got > 0)
  IN /\ walk.phase = "count"
     /\ walk' = [walk EXCEPT
          !.phase = "houses",
          !.total = IF last THEN offset + got ELSE Len(list[walk.user])]
     /\ NoMishap
     /\ UNCHANGED <<tableVars, clock, req, answerVars, requests>>

\* What the answer says of further pages; an empty one says there is none.
More == walk.shown # <<>> /\ walk.total > walk.start + PageLength

\* wrapper: Pair.of throws on a row whose house is not found.
AnswerPage ==
  LET found == {walk.shown[i].house : i \in 1 .. Len(walk.shown)}
  IN /\ walk.phase = "houses"
     /\ walk' = IF found \subseteq houses
                  THEN [walk EXCEPT !.phase = IF More THEN "page" ELSE "done",
                                    !.start = @ + PageLength,
                                    !.seen = @ \cup found]
                  ELSE [walk EXCEPT !.phase = "failed"]
     /\ NoMishap
     /\ UNCHANGED <<tableVars, clock, req, answerVars, requests>>

\* The visitor leaves the page, at its end or before.
EndWalk ==
  /\ walk.phase # "idle"
  /\ walk' = NoWalk
  /\ NoMishap
  /\ UNCHANGED <<tableVars, clock, req, answerVars, requests>>

-----------------------------------------------------------------------------
\* HouseService.save commits a house.
SaveHouse(h) ==
  /\ h \notin houses
  /\ houses' = houses \cup {h}
  /\ NoMishap
  /\ UNCHANGED <<list, clock, req, walk, answerVars, requests>>

Tick ==
  /\ clock < MaxClock
  /\ clock' = clock + 1
  /\ NoMishap
  /\ UNCHANGED <<tableVars, req, walk, answerVars, requests>>

Serve(t) ==
  \/ \E u \in Users, h \in Houses : Subscribe(t, u, h)
  \/ FindHouse(t)
  \/ Insert(t)
  \/ CallFails(t)

Scroll ==
  \/ \E u \in Users : StartWalk(u)
  \/ ReadPage
  \/ Count
  \/ AnswerPage
  \/ EndWalk

Next ==
  \/ \E t \in Threads : Serve(t)
  \/ Scroll
  \/ \E h \in Houses : SaveHouse(h)
  \/ Tick
  \/ Crash

Spec == Init /\ [][Next]_subscriptionVars

-----------------------------------------------------------------------------
(***************************************************************************)
(* Properties.                                                             *)
(***************************************************************************)
RowsFor(u, h) == {i \in 1 .. Len(list[u]) : list[u][i].house = h}

(***************************************************************************)
(* However often a user presses the button, from however many windows, the *)
(* house is put on his list once: one answer at most says so and then there*)
(* is a row, and an answer refusing the house because it is there, or      *)
(* because the row cannot be inserted, is right (addSubscribeOrder,        *)
(* HouseService.java 358-378).                                             *)
(***************************************************************************)
SubscribedOnce ==
  \A u \in Users, h \in Houses :
    /\ \A i, j \in RowsFor(u, h) : i = j
    /\ successes[<<u, h>>] <= 1
    /\ successes[<<u, h>>] = 1 => OnList(u, h)
    /\ <<u, h>> \in known => OnList(u, h)

(***************************************************************************)
(* No page of the list fails: every row on it has a house, though rows and *)
(* houses are read by two queries (wrapper, HouseService.java 388-414,     *)
(* where Pair.of does not take null).                                      *)
(***************************************************************************)
PairsHaveHouses == walk.phase # "failed"

\* No other row of the user was created in the same second.
Untied(rows, i) == \A j \in 1 .. Len(rows) : rows[j].time = rows[i].time => j = i

(***************************************************************************)
(* A user who scrolls to the end has seen every house that was on his list *)
(* when he began, whatever was added meanwhile and in whatever order it    *)
(* was stamped: pages move back only and nothing is deleted.  Houses added *)
(* in the same second are excepted, the database may order them anew for   *)
(* every page (querySubscribeList, HouseService.java 381-387, and          *)
(* subscribeList, UserController.java).                                    *)
(***************************************************************************)
WalkMissesNothing ==
  walk.phase = "done" =>
    LET rows == list[walk.user]
    IN \A i \in 1 .. walk.old : Untied(rows, i) => rows[i].house \in walk.seen

=============================================================================
