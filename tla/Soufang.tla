-------------------------------- MODULE Soufang --------------------------------
(***************************************************************************)
(* The renting site: request threads running HouseService and the listener *)
(* of SearchService in one process, sharing MySQL and the Kafka topic      *)
(* house_build.  A crash takes both down at once.                          *)
(***************************************************************************)
EXTENDS HouseVocabulary, Mishaps, FiniteSets

CONSTANTS Threads, NoThread, Duties, Stored, MaxRequests, DocIds, RefreshLag

ASSUME NoThreadAssumption == NoThread \notin Threads
ASSUME DocIdsAssumption == DocIds \subseteq Nat
ASSUME RefreshLagAssumption == RefreshLag \in BOOLEAN
ASSUME StoredAssumption == Stored \subseteq Houses
ASSUME MaxRequestsAssumption == MaxRequests \in Nat

VARIABLES
  rows, status, rev, req, lock, requests,         \* HouseService
  topic,                                          \* Kafka
  position, handler, live, seen, poi              \* SearchService

HS == INSTANCE HouseService
SS == INSTANCE SearchService WITH Revisions <- Nat

ASSUME DutiesAssumption == Duties \subseteq Threads \X HS!Kinds \X Houses

vars == <<rows, status, rev, req, lock, requests, topic,
          position, handler, live, seen, poi, faults>>

serviceLocals  == <<status, req, lock, requests>>
listenerLocals == <<position, handler, live, seen, poi>>

Init == HS!Init /\ SS!ListenerInit

ServiceStep == HS!ServiceNext /\ UNCHANGED listenerLocals

ListenerStep == SS!ListenerNext /\ UNCHANGED serviceLocals

Crash == SS!Crash /\ HS!Restart

Next == ServiceStep \/ ListenerStep \/ Crash

\* Requests being served, the listener and the refresh of the index go on;
\* nothing obliges a request to arrive.
Fairness ==
  /\ \A t \in Threads : WF_vars(HS!Continue(t) /\ UNCHANGED listenerLocals)
  /\ WF_vars((SS!Poll \/ SS!Handle) /\ UNCHANGED <<rows, rev, serviceLocals>>)
  /\ WF_vars(SS!Refresh /\ UNCHANGED <<rows, rev, serviceLocals>>)

Spec == Init /\ [][Next]_vars

FairSpec == Spec /\ Fairness

-----------------------------------------------------------------------------
Quiescent ==
  /\ \A t \in Threads : req[t].phase = "idle"
  /\ SS!At("idle")
  /\ position = Len(topic)

Indexed(h) == SS!Of(live, h) # {}

(***************************************************************************)
(* Listing a house updates the index, every other status removes it from   *)
(* it (the comment of updateStatus, HouseService.java 312): when all       *)
(* messages are handled, a house that is not listed cannot be found.       *)
(***************************************************************************)
UnlistedAbsent ==
  Quiescent => \A h \in Houses : status[h] # PASSES => ~ Indexed(h)

(***************************************************************************)
(* The other half of that comment: when all messages are handled, a listed *)
(* house can be found.                                                     *)
(***************************************************************************)
ListedPresent ==
  Quiescent => \A h \in Houses : status[h] = PASSES => Indexed(h)

(***************************************************************************)
(* The house service is an environment the listener can live with: rows    *)
(* never go away, contents only move on, messages are only appended, and   *)
(* the process dies as a whole.  So what holds of the listener by itself   *)
(* holds of it here.                                                       *)
(***************************************************************************)
ListenerSpec == SS!Spec

-----------------------------------------------------------------------------
(* The abstract listing.  A change counts from the send of its message, so *)
(* a house in a transaction between send and commit counts as changed.  A  *)
(* message is applied by the step that writes or deletes its document; a   *)
(* retried message stands for no change.                                   *)

Listed ==
  {h \in Houses :
     PASSES = IF HS!Unlocked(h) THEN status[h] ELSE req[lock[h]].status}

\* Places in the topic.
Unapplied ==
  (IF handler.phase \in {"idle", "upload", "unload"} THEN position + 1 ELSE position)
    .. Len(topic)

Changes(h) == {i \in Unapplied : topic[i].houseId = h /\ topic[i].retry = 0}

\* The k-th of a finite set of numbers.
Nth(S, k) == CHOOSE i \in S : Cardinality({j \in S : j <= i}) = k

Pending(h) ==
  [k \in 1 .. Cardinality(Changes(h)) |-> topic[Nth(Changes(h), k)].operation = INDEX]

Listing == INSTANCE ListingIndex WITH
  listed <- Listed,
  indexed <- {h \in Houses : Indexed(h)},
  pending <- [h \in Houses |-> Pending(h)]

(***************************************************************************)
(* With one administrator per house and no mishap, the two services are an *)
(* index that follows the listing, and every change gets there             *)
(* (HouseService.java 310-317, SearchService.java 93-190).                 *)
(***************************************************************************)
FollowsListing == Listing!Spec

(***************************************************************************)
(* A rented or deleted house stays so (HouseService.java 302-308) as long  *)
(* as no two requests work on one house at a time: see HouseService.       *)
(***************************************************************************)
TerminalStays == HS!TerminalStays

(***************************************************************************)
(* No message, waiting or in hand, is about a house the database does not  *)
(* have: updateStatus looks the house up before it sends (HouseService     *)
(* 291-294), what is sent again is about the same house, and rows stay.    *)
(* So "Index house {} dose not exist!" (SearchService.java 135), where the *)
(* message would be dropped for good, is never logged.                     *)
(***************************************************************************)
MessagesHaveHouses ==
  /\ \A i \in 1 .. Len(topic) : "house" \in rows[topic[i].houseId]
  /\ ~ SS!At("idle") => "house" \in rows[handler.houseId]

(***************************************************************************)
(* At most one document per house, whatever happens between the services:  *)
(* see SearchService.                                                      *)
(***************************************************************************)
OneDocument == SS!OneDocument

(***************************************************************************)
(* When all messages are handled, index and LBS table hold the same        *)
(* houses, whatever the requests do meanwhile: see SearchService.          *)
(***************************************************************************)
MirrorsAgree == SS!MirrorsAgree

=============================================================================
