-------------------------- MODULE HouseContentProofs --------------------------
(***************************************************************************)
(* Theorems about HouseContent, for any number of pictures, files, houses, *)
(* tags and threads, and however the bucket and the database fail.         *)
(***************************************************************************)
EXTENDS HouseContent, TLAPS

-----------------------------------------------------------------------------
(***************************************************************************)
(* The types.                                                              *)
(***************************************************************************)
LEMMA NothingType == NoRequest \in Request
<1>1. (CHOOSE g \in Tags : TRUE) \in Tags
  <2>1. PICK h \in Houses, n \in Names : TRUE
    BY HousesAssumption, ContentAssumption
  <2>2. <<h, n>> \in Tags
    BY DEF Tags
  <2> QED  BY <2>2
<1>2. (CHOOSE p \in Pictures : TRUE) \in Pictures
  BY ContentAssumption
<1>3. "idle" \in Phases /\ "refused" \in Answers /\ 0 \in 0 .. MAX_RETRY_OF_DELETE
  BY DEF Phases, Answers, MAX_RETRY_OF_DELETE
<1> QED  BY <1>1, <1>2, <1>3 DEF NoRequest, Request

LEMMA MishapType ==
  ASSUME faults \in 0 .. MaxFaults, NEW kind, Mishap(kind) \/ NoMishap
  PROVE  faults' \in 0 .. MaxFaults
BY FaultBudget DEF Mishap, NoMishap

LEMMA FinishType ==
  ASSUME TypeOK, NEW t \in Threads, Finish(t)
  PROVE  req' \in [Threads -> Request]
BY NothingType DEF TypeOK, Finish

LEMMA StartType ==
  ASSUME TypeOK, NEW t \in Threads, NEW request \in Request, Start(t, request)
  PROVE  TypeOK'
<1>1. requests' \in 0 .. MaxRequests
  BY ContentAssumption DEF TypeOK, Start
<1>2. req' \in [Threads -> Request]
  BY DEF TypeOK, Start
<1> QED  BY <1>1, <1>2, MishapType DEF TypeOK, Start

LEMMA RequestTypes ==
  /\ \A p \in Pictures : [NoRequest EXCEPT !.phase = "file", !.picture = p] \in Request
  /\ \A g \in Tags : [NoRequest EXCEPT !.phase = "find", !.tag = g] \in Request
<1>1. "file" \in Phases /\ "find" \in Phases
  BY DEF Phases
<1> QED  BY <1>1, NothingType DEF Request

LEMMA BucketType ==
  ASSUME TypeOK, NEW path, NEW answer, BucketDelete(path, answer)
  PROVE  bucket' \subseteq bucket /\ faults' \in 0 .. MaxFaults
<1>1. bucket' \subseteq bucket
  BY DEF BucketDelete
<1>2. Mishap("file") \/ NoMishap
  BY DEF BucketDelete
<1> QED  BY <1>1, <1>2, MishapType DEF TypeOK

LEMMA SucceedType ==
  ASSUME TypeOK, NEW x \in Things, Succeed(x)
  PROVE  successes' \in [Things -> Nat]
BY DEF TypeOK, Succeed

LEMMA InitType == Init => TypeOK
BY NothingType, FaultBudget, ContentAssumption DEF Init, TypeOK

LEMMA RequestStep ==
  ASSUME TypeOK, NEW t \in Threads, NEW phase \in Phases
  PROVE  /\ [req EXCEPT ![t].phase = phase] \in [Threads -> Request]
         /\ \A answer \in Answers :
              [req EXCEPT ![t].phase = phase, ![t].answer = answer] \in [Threads -> Request]
         /\ \A retry \in 0 .. MAX_RETRY_OF_DELETE :
              [req EXCEPT ![t].phase = phase, ![t].retry = retry] \in [Threads -> Request]
<1>1. req \in [Threads -> Request] /\ req[t] \in Request
  BY DEF TypeOK
<1>2. [req[t] EXCEPT !.phase = phase] \in Request
  BY <1>1 DEF Request
<1>3. \A answer \in Answers : [req[t] EXCEPT !.phase = phase, !.answer = answer] \in Request
  BY <1>1 DEF Request
<1>4. \A retry \in 0 .. MAX_RETRY_OF_DELETE :
        [req[t] EXCEPT !.phase = phase, !.retry = retry] \in Request
  BY <1>1 DEF Request
<1> QED  BY <1>1, <1>2, <1>3, <1>4

LEMMA NextType == TypeOK /\ [Next]_contentVars => TypeOK'
<1> SUFFICES ASSUME TypeOK, [Next]_contentVars PROVE TypeOK'
  OBVIOUS
<1>t. /\ pictures \subseteq Pictures /\ tags \subseteq Tags /\ bucket \subseteq Paths
      /\ pending \subseteq Things /\ req \in [Threads -> Request]
      /\ successes \in [Things -> Nat] /\ requests \in 0 .. MaxRequests
      /\ faults \in 0 .. MaxFaults
  BY DEF TypeOK
<1>r. \A t \in Threads : /\ req[t] \in Request
                         /\ req[t].picture \in Pictures
                         /\ req[t].tag \in Tags
                         /\ req[t].retry \in 0 .. MAX_RETRY_OF_DELETE
  BY <1>t DEF Request
<1>p. \A phase \in {"file", "answer", "row", "drop"} : phase \in Phases
  BY DEF Phases
<1>1. ASSUME NEW t \in Threads, Arrive(t)
      PROVE  TypeOK'
  <2>1. ASSUME NEW p \in Pictures, RemovePhoto(t, p)
        PROVE  TypeOK'
    BY <2>1, RequestTypes, StartType DEF RemovePhoto
  <2>2. ASSUME NEW g \in Tags, RemoveTag(t, g)
        PROVE  TypeOK'
    BY <2>2, RequestTypes, StartType DEF RemoveTag
  <2> QED  BY <1>1, <2>1, <2>2 DEF Arrive
<1>2. ASSUME NEW t \in Threads, DeleteFile(t)
      PROVE  TypeOK'
  <2>1. PICK answer \in Answers :
          /\ BucketDelete(PathOf[req[t].picture], answer)
          /\ req' = [req EXCEPT ![t].phase = "answer", ![t].answer = answer]
    BY <1>2 DEF DeleteFile
  <2>2. bucket' \subseteq bucket /\ faults' \in 0 .. MaxFaults
    BY <2>1, BucketType
  <2>3. req' \in [Threads -> Request]
    BY <1>p, <2>1, RequestStep
  <2> QED  BY <1>2, <1>t, <2>2, <2>3 DEF DeleteFile, TypeOK
<1>3. ASSUME NEW t \in Threads, TakeAnswer(t)
      PROVE  TypeOK'
  <2>1. CASE /\ req[t].retry < MAX_RETRY_OF_DELETE
             /\ req' = [req EXCEPT ![t].phase = "file", ![t].retry = @ + 1]
    <3>1. req[t].retry + 1 \in 0 .. MAX_RETRY_OF_DELETE
      BY <1>r, <2>1 DEF MAX_RETRY_OF_DELETE
    <3>2. req' = [req EXCEPT ![t].phase = "file", ![t].retry = req[t].retry + 1]
      BY <1>t, <2>1
    <3> QED  BY <1>3, <1>t, <1>p, <3>1, <3>2, RequestStep, MishapType DEF TakeAnswer, TypeOK
  <2>2. CASE req' = [req EXCEPT ![t].phase = "row"]
    BY <1>3, <1>t, <1>p, <2>2, RequestStep, MishapType DEF TakeAnswer, TypeOK
  <2>3. CASE Finish(t)
    BY <1>3, <1>t, <2>3, FinishType, MishapType DEF TakeAnswer, TypeOK
  <2> QED  BY <1>3, <2>1, <2>2, <2>3 DEF TakeAnswer
<1>4. ASSUME NEW t \in Threads, DeleteRow(t)
      PROVE  TypeOK'
  <2>1. req[t].picture \in Things /\ Succeed(req[t].picture)
    BY <1>4, <1>r DEF DeleteRow, Things
  <2>2. successes' \in [Things -> Nat]
    BY <2>1, SucceedType
  <2>3. req' \in [Threads -> Request] /\ faults' \in 0 .. MaxFaults
    BY <1>4, <1>t, FinishType, MishapType DEF DeleteRow
  <2>4. pictures' \subseteq Pictures /\ UNCHANGED <<tags, bucket, pending, requests>>
    BY <1>4, <1>t DEF DeleteRow
  <2> QED  BY <1>t, <2>2, <2>3, <2>4 DEF TypeOK
<1>5. ASSUME NEW t \in Threads, FindTag(t)
      PROVE  TypeOK'
  <2>1. req' \in [Threads -> Request]
    <3>1. CASE req' = [req EXCEPT ![t].phase = "drop"]
      <4>1. "drop" \in Phases
        BY <1>p
      <4> QED  BY <3>1, <4>1, RequestStep
    <3>2. CASE Finish(t)
      BY <3>2, FinishType
    <3> QED  BY <1>5, <3>1, <3>2 DEF FindTag
  <2> QED  BY <1>5, <1>t, <2>1, MishapType DEF FindTag, TypeOK
<1>6. ASSUME NEW t \in Threads, DropTag(t)
      PROVE  TypeOK'
  <2>1. successes' \in [Things -> Nat]
    BY <1>6, <1>r, <1>t, SucceedType DEF DropTag, Things
  <2> QED  BY <1>6, <1>t, <2>1, FinishType, MishapType DEF DropTag, TypeOK
<1>7. ASSUME NEW h \in Houses, SaveTags(h)
      PROVE  TypeOK'
  <2>1. tags' \subseteq Tags
    BY <1>7, <1>t DEF SaveTags, Tags
  <2> QED  BY <1>7, <1>t, <2>1, MishapType DEF SaveTags, TypeOK
<1>8. ASSUME NEW p \in Pictures, AddPicture(p)
      PROVE  TypeOK'
  BY <1>8, <1>t, MishapType DEF AddPicture, TypeOK
<1>9. ASSUME NEW t \in Threads, CallFails(t)
      PROVE  TypeOK'
  BY <1>9, <1>t, FinishType, MishapType DEF CallFails, TypeOK
<1>10. CASE Crash
  BY <1>10, <1>t, NothingType, MishapType DEF Crash, TypeOK
<1>11. CASE UNCHANGED contentVars
  BY <1>11 DEF contentVars, TypeOK
<1> QED
  BY <1>1, <1>2, <1>3, <1>4, <1>5, <1>6, <1>7, <1>8, <1>9, <1>10, <1>11
     DEF Next, Proceed

(***************************************************************************)
(* Type correctness of pictures, tags and the retries of the bucket client *)
(* (HouseService.java 227-288, QiNiuServiceImpl.java 57-64).               *)
(***************************************************************************)
THEOREM ContentTyped == Spec => []TypeOK
<1> QED  BY InitType, NextType, PTL DEF Spec

-----------------------------------------------------------------------------
(***************************************************************************)
(* Why only one request removes a picture.  A request to which the bucket  *)
(* has answered OK holds the picture: the file it deleted is gone, so no   *)
(* other request gets that answer for it, nor for another row with the same*)
(* path, and the row is still there, for only a holder deletes it.         *)
(***************************************************************************)
Holds(t) == req[t].phase = "row" \/ (req[t].phase = "answer" /\ req[t].answer = "ok")

HoldersHaveRows ==
  \A t \in Threads : Holds(t) =>
    /\ req[t].picture \in pictures
    /\ PathOf[req[t].picture] \notin bucket

HoldersDiffer ==
  \A s, t \in Threads :
    Holds(s) /\ Holds(t) /\ s # t => req[s].picture # req[t].picture

\* A request still talking to the bucket has its row, unless it was removed.
CallersHaveRows ==
  \A t \in Threads :
    req[t].phase \in {"file", "answer"} =>
      req[t].picture \in pictures \/ successes[req[t].picture] > 0

NothingTwice == (pictures \cup tags) \cap pending = {}

ContentInv ==
  /\ TypeOK
  /\ RemovedOnce
  /\ NoFileLeftBehind
  /\ HoldersHaveRows
  /\ HoldersDiffer
  /\ CallersHaveRows
  /\ NothingTwice

LEMMA ContentInit == Init => ContentInv
<1> SUFFICES ASSUME Init PROVE ContentInv
  OBVIOUS
<1>1. \A t \in Threads : req[t].phase = "idle"
  BY DEF Init, NoRequest
<1>2. \A x \in Things : successes[x] = 0
  BY DEF Init
<1>3. RemovedOnce
  BY <1>2 DEF RemovedOnce
<1>4. NoFileLeftBehind
  BY <1>2 DEF NoFileLeftBehind, Things
<1>5. HoldersHaveRows /\ HoldersDiffer /\ CallersHaveRows
  BY <1>1 DEF HoldersHaveRows, HoldersDiffer, CallersHaveRows, Holds
<1>6. NothingTwice
  BY DEF Init, NothingTwice
<1> QED  BY <1>3, <1>4, <1>5, <1>6, InitType DEF ContentInv

\* Steps after which every request is as it was or holds nothing and calls
\* nobody, while rows and files stay.
LEMMA RequestsDropped ==
  ASSUME ContentInv, TypeOK',
         \A t \in Threads :
           req'[t] = req[t] \/ req'[t].phase \in {"idle", "find", "drop"},
         UNCHANGED <<pictures, bucket, successes>>
  PROVE  HoldersHaveRows' /\ HoldersDiffer' /\ CallersHaveRows'
<1>1. \A t \in Threads : Holds(t)' => Holds(t) /\ req'[t] = req[t]
  BY DEF Holds
<1>2. \A t \in Threads : req'[t].phase \in {"file", "answer"} => req'[t] = req[t]
  OBVIOUS
<1>3. HoldersHaveRows'
  BY <1>1 DEF ContentInv, HoldersHaveRows
<1>4. HoldersDiffer'
  BY <1>1 DEF ContentInv, HoldersDiffer
<1>5. CallersHaveRows'
  BY <1>2 DEF ContentInv, CallersHaveRows
<1> QED  BY <1>3, <1>4, <1>5

LEMMA FinishDrops ==
  ASSUME TypeOK, NEW t \in Threads, Finish(t)
  PROVE  /\ req'[t].phase = "idle"
         /\ \A s \in Threads : s # t => req'[s] = req[s]
BY DEF TypeOK, Finish, NoRequest

\* Steps that leave rows, files and answers alone.
LEMMA ContentKept ==
  ASSUME ContentInv, UNCHANGED <<pictures, tags, bucket, pending, successes>>
  PROVE  RemovedOnce' /\ NoFileLeftBehind' /\ NothingTwice'
BY DEF ContentInv, RemovedOnce, NoFileLeftBehind, NothingTwice

LEMMA ArriveNext ==
  ASSUME ContentInv, TypeOK', NEW t \in Threads, Arrive(t)
  PROVE  ContentInv'
<1>1. UNCHANGED <<pictures, tags, bucket, pending, successes>>
  BY DEF Arrive, RemovePhoto, RemoveTag, Start
<1>r. req \in [Threads -> Request] /\ NoRequest \in Request
  BY NothingType DEF ContentInv, TypeOK
<1>2. ASSUME NEW g \in Tags, RemoveTag(t, g)
      PROVE  HoldersHaveRows' /\ HoldersDiffer' /\ CallersHaveRows'
  <2>1. req' = [req EXCEPT ![t] = [NoRequest EXCEPT !.phase = "find", !.tag = g]]
    BY <1>2 DEF RemoveTag, Start
  <2>2. req'[t].phase = "find" /\ \A s \in Threads : s # t => req'[s] = req[s]
    BY <1>r, <2>1 DEF Request
  <2> QED  BY <1>1, <2>2, RequestsDropped
<1>3. ASSUME NEW p \in Pictures, RemovePhoto(t, p)
      PROVE  HoldersHaveRows' /\ HoldersDiffer' /\ CallersHaveRows'
  <2>1. /\ p \in pictures
        /\ req' = [req EXCEPT ![t] = [NoRequest EXCEPT !.phase = "file", !.picture = p]]
    BY <1>3 DEF RemovePhoto, Start
  <2>2. /\ req'[t].phase = "file" /\ req'[t].picture = p
        /\ \A s \in Threads : s # t => req'[s] = req[s]
    BY <1>r, <2>1 DEF Request
  <2>3. \A s \in Threads : Holds(s)' => Holds(s) /\ req'[s] = req[s]
    BY <2>2 DEF Holds
  <2>4. HoldersHaveRows' /\ HoldersDiffer'
    BY <1>1, <2>3 DEF ContentInv, HoldersHaveRows, HoldersDiffer
  <2>5. CallersHaveRows'
    BY <1>1, <2>1, <2>2 DEF ContentInv, CallersHaveRows
  <2> QED  BY <2>4, <2>5
<1> QED
  BY <1>1, <1>2, <1>3, ContentKept DEF Arrive, ContentInv

LEMMA DeleteFileNext ==
  ASSUME ContentInv, TypeOK', NEW t \in Threads, DeleteFile(t)
  PROVE  ContentInv'
<1> DEFINE p == req[t].picture
<1>r. req \in [Threads -> Request] /\ req[t] \in Request
  BY DEF ContentInv, TypeOK
<1>t. p \in Pictures /\ p \in Things /\ req[t].phase = "file"
  BY <1>r DEF Request, Things, DeleteFile
<1>1. PICK answer \in Answers :
        /\ BucketDelete(PathOf[p], answer)
        /\ req' = [req EXCEPT ![t].phase = "answer", ![t].answer = answer]
  BY DEF DeleteFile
<1>2. UNCHANGED <<pictures, tags, pending, successes>>
  BY DEF DeleteFile
<1>3. bucket' \subseteq bucket
  BY <1>1 DEF BucketDelete
<1>4. answer = "ok" => PathOf[p] \in bucket /\ PathOf[p] \notin bucket'
  BY <1>1 DEF BucketDelete
<1>5. /\ req'[t].phase = "answer" /\ req'[t].answer = answer /\ req'[t].picture = p
      /\ \A s \in Threads : s # t => req'[s] = req[s]
  BY <1>r, <1>1 DEF Request
<1> HIDE DEF p
<1>6. p \in pictures \/ successes[p] > 0
  BY <1>t DEF ContentInv, CallersHaveRows, p
<1>7. answer = "ok" => p \in pictures
  BY <1>4, <1>6, <1>t DEF ContentInv, NoFileLeftBehind
<1>8. \A s \in Threads : s # t /\ Holds(s)' => Holds(s) /\ req'[s] = req[s]
  BY <1>5 DEF Holds
<1>9. Holds(t)' => answer = "ok"
  BY <1>5 DEF Holds
<1>10. HoldersHaveRows'
  <2>1. ASSUME NEW s \in Threads, Holds(s)'
        PROVE  req'[s].picture \in pictures' /\ PathOf[req'[s].picture] \notin bucket'
    <3>1. CASE s = t
      BY <1>2, <1>4, <1>5, <1>7, <1>9, <2>1, <3>1
    <3>2. CASE s # t
      BY <1>2, <1>3, <1>8, <2>1, <3>2 DEF ContentInv, HoldersHaveRows
    <3> QED  BY <3>1, <3>2
  <2> QED  BY <2>1 DEF HoldersHaveRows
<1>11. HoldersDiffer'
  <2>1. ASSUME NEW s \in Threads, s # t, Holds(s)', Holds(t)'
        PROVE  req'[s].picture # req'[t].picture
    <3>1. PathOf[req[s].picture] \notin bucket
      BY <1>8, <2>1 DEF ContentInv, HoldersHaveRows
    <3>2. PathOf[p] \in bucket
      BY <1>4, <1>9, <2>1
    <3> QED  BY <1>5, <2>1, <3>1, <3>2
  <2>2. ASSUME NEW s \in Threads, NEW u \in Threads, s # t, u # t, s # u,
               Holds(s)', Holds(u)'
        PROVE  req'[s].picture # req'[u].picture
    BY <1>8, <2>2 DEF ContentInv, HoldersDiffer
  <2> QED  BY <2>1, <2>2 DEF HoldersDiffer
<1>12. CallersHaveRows'
  BY <1>2, <1>5, <1>6 DEF ContentInv, CallersHaveRows
<1>13. RemovedOnce' /\ NothingTwice'
  BY <1>2 DEF ContentInv, RemovedOnce, NothingTwice
<1>14. NoFileLeftBehind'
  BY <1>2, <1>3 DEF ContentInv, NoFileLeftBehind
<1> QED  BY <1>10, <1>11, <1>12, <1>13, <1>14 DEF ContentInv

LEMMA TakeAnswerNext ==
  ASSUME ContentInv, TypeOK', NEW t \in Threads, TakeAnswer(t)
  PROVE  ContentInv'
<1>r. req \in [Threads -> Request] /\ req[t] \in Request
  BY DEF ContentInv, TypeOK
<1>1. UNCHANGED <<pictures, tags, bucket, pending, successes>>
  BY DEF TakeAnswer
<1>2. CASE Finish(t)
  <2>1. \A s \in Threads : req'[s] = req[s] \/ req'[s].phase \in {"idle", "find", "drop"}
    BY <1>2, FinishDrops DEF ContentInv
  <2> QED  BY <1>1, <2>1, RequestsDropped, ContentKept DEF ContentInv
<1>3. CASE \/ req' = [req EXCEPT ![t].phase = "file", ![t].retry = @ + 1]
           \/ req[t].answer = "ok" /\ req' = [req EXCEPT ![t].phase = "row"]
  <2>1. \A s \in Threads : s # t => req'[s] = req[s]
    BY <1>r, <1>3
  <2>2. /\ req'[t].picture = req[t].picture
        /\ \/ req'[t].phase = "file"
           \/ req[t].answer = "ok" /\ req'[t].phase = "row"
    BY <1>r, <1>3 DEF Request
  <2>3. req[t].phase = "answer"
    BY DEF TakeAnswer
  <2>4. \A s \in Threads : Holds(s)' => Holds(s) /\ req'[s].picture = req[s].picture
    BY <2>1, <2>2, <2>3 DEF Holds
  <2>5. HoldersHaveRows'
    BY <1>1, <2>4 DEF ContentInv, HoldersHaveRows
  <2>6. HoldersDiffer'
    BY <2>4 DEF ContentInv, HoldersDiffer
  <2>7. CallersHaveRows'
    BY <1>1, <2>1, <2>2, <2>3 DEF ContentInv, CallersHaveRows
  <2> QED  BY <1>1, <2>5, <2>6, <2>7, ContentKept DEF ContentInv
<1> QED  BY <1>2, <1>3 DEF TakeAnswer

LEMMA DeleteRowNext ==
  ASSUME ContentInv, TypeOK', NEW t \in Threads, DeleteRow(t)
  PROVE  ContentInv'
<1> DEFINE p == req[t].picture
<1>r. req \in [Threads -> Request] /\ req[t] \in Request
  BY DEF ContentInv, TypeOK
<1>t. p \in Pictures /\ p \in Things /\ Holds(t)
  BY <1>r DEF Request, Things, DeleteRow, Holds
<1>1. /\ pictures' = pictures \ {p}
      /\ Succeed(p)
      /\ Finish(t)
      /\ UNCHANGED <<tags, bucket, pending>>
  BY DEF DeleteRow
<1>2. req'[t].phase = "idle" /\ \A s \in Threads : s # t => req'[s] = req[s]
  BY <1>1, FinishDrops DEF ContentInv
<1>3. p \in pictures /\ PathOf[p] \notin bucket
  BY <1>t DEF ContentInv, HoldersHaveRows
<1>4. \A s \in Threads : s # t /\ Holds(s) => req[s].picture # p
  BY <1>t DEF ContentInv, HoldersDiffer
<1> HIDE DEF p
<1>5. successes[p] = 0
  <2>1. successes[p] \in Nat /\ successes[p] <= 1 /\ successes[p] # 1
    BY <1>t, <1>3 DEF ContentInv, TypeOK, RemovedOnce
  <2> QED  BY <2>1
<1>6. /\ successes'[p] = 1
      /\ \A x \in Things : x # p => successes'[x] = successes[x]
  BY <1>t, <1>1, <1>5 DEF ContentInv, TypeOK, Succeed
<1>7. p \notin tags /\ p \notin pending
  BY <1>t, <1>3, TablesAssumption DEF ContentInv, TypeOK, Tags, NothingTwice
<1>8. RemovedOnce'
  <2>1. ASSUME NEW x \in Things
        PROVE  /\ successes'[x] <= 1
               /\ successes'[x] = 1 => x \notin pictures' \cup tags' \cup pending'
    <3>1. CASE x = p
      BY <1>1, <1>6, <1>7, <3>1
    <3>2. CASE x # p
      BY <1>1, <1>6, <3>2 DEF ContentInv, RemovedOnce
    <3> QED  BY <3>1, <3>2
  <2> QED  BY <2>1 DEF RemovedOnce
<1>9. NoFileLeftBehind'
  <2>1. ASSUME NEW q \in Pictures, successes'[q] > 0
        PROVE  PathOf[q] \notin bucket'
    <3>1. CASE q = p
      BY <1>1, <1>3, <3>1
    <3>2. CASE q # p
      BY <1>1, <1>6, <2>1, <3>2 DEF ContentInv, NoFileLeftBehind, Things
    <3> QED  BY <3>1, <3>2
  <2> QED  BY <2>1 DEF NoFileLeftBehind
<1>10. \A s \in Threads : Holds(s)' => s # t /\ Holds(s) /\ req'[s] = req[s]
  BY <1>2 DEF Holds
<1>11. HoldersHaveRows'
  BY <1>1, <1>4, <1>10 DEF ContentInv, HoldersHaveRows
<1>12. HoldersDiffer'
  BY <1>10 DEF ContentInv, HoldersDiffer
<1>13. CallersHaveRows'
  <2>1. ASSUME NEW s \in Threads, req'[s].phase \in {"file", "answer"}
        PROVE  req'[s].picture \in pictures' \/ successes'[req'[s].picture] > 0
    <3>1. s # t /\ req'[s] = req[s]
      BY <1>2, <2>1
    <3>2. req[s].picture \in Things
      BY DEF ContentInv, TypeOK, Request, Things
    <3>3. CASE req[s].picture = p
      BY <1>6, <3>1, <3>3
    <3>4. CASE req[s].picture # p
      BY <1>1, <1>6, <2>1, <3>1, <3>2, <3>4 DEF ContentInv, CallersHaveRows
    <3> QED  BY <3>3, <3>4
  <2> QED  BY <2>1 DEF CallersHaveRows
<1>14. NothingTwice'
  BY <1>1 DEF ContentInv, NothingTwice
<1> QED  BY <1>8, <1>9, <1>11, <1>12, <1>13, <1>14 DEF ContentInv

LEMMA DropTagNext ==
  ASSUME ContentInv, TypeOK', NEW t \in Threads, DropTag(t)
  PROVE  ContentInv'
<1> DEFINE g == req[t].tag
<1>r. req \in [Threads -> Request] /\ req[t] \in Request
  BY DEF ContentInv, TypeOK
<1>t. g \in Tags /\ g \in Things
  BY <1>r DEF Request, Things
<1>1. /\ tags' = tags \ {g}
      /\ \/ g \in tags /\ Succeed(g)
         \/ UNCHANGED successes
      /\ Finish(t)
      /\ UNCHANGED <<pictures, bucket, pending>>
  BY DEF DropTag
<1>2. req'[t].phase = "idle" /\ \A s \in Threads : s # t => req'[s] = req[s]
  BY <1>1, FinishDrops DEF ContentInv
<1> HIDE DEF g
<1>3. g \notin Pictures
  BY <1>t, TablesAssumption DEF Tags
<1>4. \A x \in Things : x # g => successes'[x] = successes[x]
  BY <1>1 DEF ContentInv, TypeOK, Succeed
<1>5. /\ successes'[g] <= 1
      /\ successes'[g] = 1 => g \notin pictures' \cup tags' \cup pending'
  <2>1. g \notin pictures' \cup tags'
    BY <1>1, <1>3 DEF ContentInv, TypeOK
  <2>2. CASE g \in tags /\ Succeed(g)
    <3>1. successes[g] \in Nat /\ successes[g] <= 1 /\ successes[g] # 1
      BY <1>t, <2>2 DEF ContentInv, TypeOK, RemovedOnce
    <3>2. successes'[g] = 1
      BY <1>t, <2>2, <3>1 DEF ContentInv, TypeOK, Succeed
    <3>3. g \notin pending
      BY <2>2 DEF ContentInv, NothingTwice
    <3> QED  BY <1>1, <2>1, <3>2, <3>3
  <2>3. CASE UNCHANGED successes
    BY <1>1, <1>t, <2>1, <2>3 DEF ContentInv, RemovedOnce
  <2> QED  BY <1>1, <2>2, <2>3
<1>6. RemovedOnce'
  <2>1. ASSUME NEW x \in Things, x # g
        PROVE  /\ successes'[x] <= 1
               /\ successes'[x] = 1 => x \notin pictures' \cup tags' \cup pending'
    BY <1>1, <1>4, <2>1 DEF ContentInv, RemovedOnce
  <2> QED  BY <1>5, <2>1 DEF RemovedOnce
<1>7. \A p \in Pictures : successes'[p] = successes[p]
  BY <1>3, <1>4 DEF Things
<1>8. NoFileLeftBehind'
  BY <1>1, <1>7 DEF ContentInv, NoFileLeftBehind
<1>9. \A s \in Threads : Holds(s)' => Holds(s) /\ req'[s] = req[s]
  BY <1>2 DEF Holds
<1>10. HoldersHaveRows' /\ HoldersDiffer'
  BY <1>1, <1>9 DEF ContentInv, HoldersHaveRows, HoldersDiffer
<1>11. CallersHaveRows'
  <2>1. ASSUME NEW s \in Threads, req'[s].phase \in {"file", "answer"}
        PROVE  req'[s].picture \in pictures' \/ successes'[req'[s].picture] > 0
    <3>1. req'[s] = req[s] /\ req[s].picture \in Pictures
      BY <1>2, <2>1 DEF ContentInv, TypeOK, Request
    <3> QED  BY <1>1, <1>7, <2>1, <3>1 DEF ContentInv, CallersHaveRows
  <2> QED  BY <2>1 DEF CallersHaveRows
<1>12. NothingTwice'
  BY <1>1 DEF ContentInv, NothingTwice
<1> QED  BY <1>6, <1>8, <1>10, <1>11, <1>12 DEF ContentInv

LEMMA SavedNext ==
  ASSUME ContentInv, TypeOK',
         NEW added \in SUBSET pending,
         pending' = pending \ added,
         pictures \subseteq pictures', tags \subseteq tags',
         pictures' \cup tags' \subseteq pictures \cup tags \cup added,
         UNCHANGED <<bucket, req, successes>>
  PROVE  ContentInv'
<1>1. RemovedOnce'
  BY DEF ContentInv, RemovedOnce
<1>2. NoFileLeftBehind'
  BY DEF ContentInv, NoFileLeftBehind
<1>3. HoldersHaveRows' /\ HoldersDiffer'
  BY DEF ContentInv, HoldersHaveRows, HoldersDiffer, Holds
<1>4. CallersHaveRows'
  BY DEF ContentInv, CallersHaveRows
<1>5. NothingTwice'
  BY DEF ContentInv, NothingTwice
<1> QED  BY <1>1, <1>2, <1>3, <1>4, <1>5 DEF ContentInv

LEMMA ContentNext == ContentInv /\ [Next]_contentVars => ContentInv'
<1> SUFFICES ASSUME ContentInv, [Next]_contentVars PROVE ContentInv'
  OBVIOUS
<1>t. TypeOK /\ TypeOK'
  BY NextType DEF ContentInv
<1>1. ASSUME NEW t \in Threads, Arrive(t) PROVE ContentInv'
  BY <1>1, <1>t, ArriveNext
<1>2. ASSUME NEW t \in Threads, DeleteFile(t) PROVE ContentInv'
  BY <1>2, <1>t, DeleteFileNext
<1>3. ASSUME NEW t \in Threads, TakeAnswer(t) PROVE ContentInv'
  BY <1>3, <1>t, TakeAnswerNext
<1>4. ASSUME NEW t \in Threads, DeleteRow(t) PROVE ContentInv'
  BY <1>4, <1>t, DeleteRowNext
<1>5. ASSUME NEW t \in Threads, DropTag(t) PROVE ContentInv'
  BY <1>5, <1>t, DropTagNext
<1>6. ASSUME NEW t \in Threads, FindTag(t) \/ CallFails(t) PROVE ContentInv'
  <2>1. UNCHANGED <<pictures, tags, bucket, pending, successes>>
    BY <1>6 DEF FindTag, CallFails
  <2>2. Finish(t) \/ req' = [req EXCEPT ![t].phase = "drop"]
    BY <1>6 DEF FindTag, CallFails
  <2>3. CASE Finish(t)
    <3>1. \A s \in Threads : req'[s] = req[s] \/ req'[s].phase \in {"idle", "find", "drop"}
      BY <1>t, <2>3, FinishDrops
    <3> QED  BY <1>t, <2>1, <3>1, RequestsDropped, ContentKept DEF ContentInv
  <2>4. CASE req' = [req EXCEPT ![t].phase = "drop"]
    <3>1. \A s \in Threads : req'[s] = req[s] \/ req'[s].phase \in {"idle", "find", "drop"}
      BY <1>t, <2>4 DEF TypeOK, Request
    <3> QED  BY <1>t, <2>1, <3>1, RequestsDropped, ContentKept DEF ContentInv
  <2> QED  BY <2>2, <2>3, <2>4
<1>7. ASSUME NEW h \in Houses, SaveTags(h) PROVE ContentInv'
  <2>1. PICK added \in SUBSET pending :
          /\ pending' = pending \ added
          /\ \E some \in SUBSET added : tags' = tags \cup some
          /\ UNCHANGED <<pictures, bucket, req, successes>>
    BY <1>7 DEF SaveTags
  <2> QED  BY <1>t, <2>1, SavedNext
<1>8. ASSUME NEW p \in Pictures, AddPicture(p) PROVE ContentInv'
  <2>1. /\ {p} \in SUBSET pending
        /\ pending' = pending \ {p}
        /\ pictures' = pictures \cup {p}
        /\ UNCHANGED <<tags, bucket, req, successes>>
    BY <1>8 DEF AddPicture
  <2> QED  BY <1>t, <2>1, SavedNext
<1>9. CASE Crash
  <2>1. UNCHANGED <<pictures, tags, bucket, pending, successes>>
    BY <1>9 DEF Crash
  <2>2. \A s \in Threads : req'[s].phase \in {"idle", "find", "drop"}
    BY <1>9 DEF Crash, NoRequest
  <2> QED  BY <1>t, <2>1, <2>2, RequestsDropped, ContentKept DEF ContentInv
<1>10. CASE UNCHANGED contentVars
  <2>1. UNCHANGED <<pictures, tags, bucket, pending, req, successes>>
    BY <1>10 DEF contentVars
  <2>2. \A s \in Threads : req'[s] = req[s]
    BY <2>1
  <2> QED  BY <1>t, <2>1, <2>2, RequestsDropped, ContentKept DEF ContentInv
<1> QED
  BY <1>1, <1>2, <1>3, <1>4, <1>5, <1>6, <1>7, <1>8, <1>9, <1>10
     DEF Next, Proceed

LEMMA ContentAlways == Spec => []ContentInv
BY ContentInit, ContentNext, PTL DEF Spec

(***************************************************************************)
(* A picture or tag is reported removed once, and then stays away          *)
(* (HouseService.java 227-245 and 275-288).                                *)
(***************************************************************************)
THEOREM OneRemovalEach == Spec => []RemovedOnce
<1>1. ContentInv => RemovedOnce
  BY DEF ContentInv
<1> QED  BY <1>1, ContentAlways, PTL

(***************************************************************************)
(* The file of a removed picture is not in the bucket any more             *)
(* (HouseService.java 233-237).                                            *)
(***************************************************************************)
THEOREM FilesGoFirst == Spec => []NoFileLeftBehind
<1>1. ContentInv => NoFileLeftBehind
  BY DEF ContentInv
<1> QED  BY <1>1, ContentAlways, PTL

(***************************************************************************)
(* The request that is about to delete the row of a picture finds it, for  *)
(* the bucket answers OK to one request only (HouseService.java 234-236).  *)
(***************************************************************************)
THEOREM RowsAreThere == Spec => []BucketArbitrates
<1>1. ContentInv => BucketArbitrates
  BY DEF ContentInv, HoldersHaveRows, Holds, BucketArbitrates
<1> QED  BY <1>1, ContentAlways, PTL

=============================================================================
