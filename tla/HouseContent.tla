----------------------------- MODULE HouseContent -----------------------------
(***************************************************************************)
(* The pictures and tags of houses (HouseService.removePhoto, removeTag,   *)
(* what save and update add to the two tables) and the client of the photo *)
(* bucket (QiNiuServiceImpl.delete).                                       *)
(*                                                                         *)
(* removePhoto is not a transaction: the row is read, the file is deleted  *)
(* over the network, and then the row.  External: the bucket, which deletes*)
(* a file at most once and whose answer may be lost; nothing puts a file   *)
(* into it any more, uploadPhoto writes to the local disk.                 *)
(***************************************************************************)
EXTENDS HouseVocabulary, Mishaps

CONSTANTS
  Threads,         \* request threads of the servlet container
  Pictures,        \* identities of the rows of house_picture
  Paths,           \* names of files in the bucket
  PathOf,          \* PathOf[p]: the path in row p; rows may share one
  Names,           \* names of tags
  MaxRequests      \* bound on the requests to remove something

ASSUME PathsAssumption == PathOf \in [Pictures -> Paths]
ASSUME ContentAssumption ==
  /\ Pictures # {}
  /\ Names # {}
  /\ MaxRequests \in Nat

\* The ids of two tables are never mixed up.
ASSUME TablesAssumption == Pictures \cap (Houses \X Names) = {}

VARIABLES
  pictures,        \* the rows of house_picture
  tags,            \* the rows of house_tag
  bucket,          \* the files in the bucket
  pending,         \* rows and tags of rows that update and save have yet to add
  req,             \* req[t]: the request thread t is serving
  successes,       \* successes[x]: answers saying that x has been removed
  requests         \* requests started, a bound only

contentVars == <<pictures, tags, bucket, pending, req, successes, requests, faults>>

Tags == Houses \X Names

Things == Pictures \cup Tags

\* QiNiuServiceImpl.delete repeats a call 3 times.
MAX_RETRY_OF_DELETE == 3

Phases == {"idle", "file", "answer", "row", "find", "drop"}

\* response.isOK(), response.needRetry(), and any other response or an exception.
Answers == {"ok", "retry", "refused"}

Request ==
  [phase : Phases, picture : Pictures, tag : Tags, answer : Answers,
   retry : 0 .. MAX_RETRY_OF_DELETE]

NoRequest ==
  [phase |-> "idle", picture |-> CHOOSE p \in Pictures : TRUE,
   tag |-> CHOOSE g \in Tags : TRUE, answer |-> "refused", retry |-> 0]

TypeOK ==
  /\ pictures \subseteq Pictures
  /\ tags \subseteq Tags
  /\ bucket \subseteq Paths
  /\ pending \subseteq Things
  /\ req \in [Threads -> Request]
  /\ successes \in [Things -> Nat]
  /\ requests \in 0 .. MaxRequests
  /\ faults \in 0 .. MaxFaults

Init ==
  /\ pictures \in SUBSET Pictures
  /\ tags = {}
  /\ bucket \in SUBSET Paths
  /\ pending = Things \ pictures
  /\ req = [t \in Threads |-> NoRequest]
  /\ successes = [x \in Things |-> 0]
  /\ requests = 0
  /\ faults = 0

-----------------------------------------------------------------------------
Finish(t) == req' = [req EXCEPT ![t] = NoRequest]

Succeed(x) == successes' = [successes EXCEPT ![x] = @ + 1]

Start(t, request) ==
  /\ req[t].phase = "idle"
  /\ requests < MaxRequests
  /\ requests' = requests + 1
  /\ req' = [req EXCEPT ![t] = request]
  /\ NoMishap
  /\ UNCHANGED <<pictures, tags, bucket, pending, successes>>

\* removePhoto reads the row; without one the answer is notFound.
RemovePhoto(t, p) ==
  /\ p \in pictures
  /\ Start(t, [NoRequest EXCEPT !.phase = "file", !.picture = p])

\* What the bucket does with one call to delete a file, and what it answers:
\* a failing call may have deleted the file, and may ask for another one.
BucketDelete(path, answer) ==
  \/ /\ path \in bucket
     /\ bucket' = bucket \ {path}
     /\ answer = "ok"
     /\ NoMishap
  \/ /\ path \notin bucket
     /\ UNCHANGED bucket
     /\ answer = "refused"
     /\ NoMishap
  \/ /\ bucket' \in {bucket, bucket \ {path}}
     /\ answer \in {"retry", "refused"}
     /\ Mishap("file")

\* A variant with a bug: a file that is not there counts as deleted.
DeleteFile_AbsentIsOK(t) ==
  LET path == PathOf[req[t].picture]
  IN /\ req[t].phase = "file"
     /\ \E answer \in Answers :
          /\ BucketDelete(path, answer)
          /\ req' = [req EXCEPT ![t].phase = "answer",
                               ![t].answer = IF path \in bucket THEN answer ELSE "ok"]
     /\ UNCHANGED <<pictures, tags, pending, successes, requests>>

\* One call of QiNiuServiceImpl.delete to the bucket.
DeleteFile(t) ==
  /\ req[t].phase = "file"
  /\ \E answer \in Answers :
       /\ BucketDelete(PathOf[req[t].picture], answer)
       /\ req' = [req EXCEPT ![t].phase = "answer", ![t].answer = answer]
  /\ UNCHANGED <<pictures, tags, pending, successes, requests>>

\* A variant with a bug: the row goes whatever the bucket answered.
TakeAnswer_Unasked(t) ==
  /\ req[t].phase = "answer"
  /\ req' = [req EXCEPT ![t].phase = "row"]
  /\ NoMishap
  /\ UNCHANGED <<pictures, tags, bucket, pending, successes, requests>>

\* A variant with a bug: the repetitions are not counted.
TakeAnswer_Uncounted(t) ==
  /\ req[t].phase = "answer"
  /\ req' = CASE req[t].answer = "ok"      -> [req EXCEPT ![t].phase = "row"]
              [] req[t].answer = "retry"   -> [req EXCEPT ![t].phase = "file"]
              [] req[t].answer = "refused" -> [req EXCEPT ![t] = NoRequest]
  /\ NoMishap
  /\ UNCHANGED <<pictures, tags, bucket, pending, successes, requests>>

\* A variant with a bug: one repetition too many.
TakeAnswer_OneMore(t) ==
  LET again == req[t].answer = "retry" /\ req[t].retry <= MAX_RETRY_OF_DELETE
  IN /\ req[t].phase = "answer"
     /\ \/ again /\ req' = [req EXCEPT ![t].phase = "file", ![t].retry = @ + 1]
        \/ req[t].answer = "ok" /\ req' = [req EXCEPT ![t].phase = "row"]
        \/ req[t].answer # "ok" /\ ~ again /\ Finish(t)
     /\ NoMishap
     /\ UNCHANGED <<pictures, tags, bucket, pending, successes, requests>>

\* The call is repeated while the bucket asks for it and repetitions are left;
\* then the row is deleted if the answer is OK, else the request ends.
TakeAnswer(t) ==
  LET again == req[t].answer = "retry" /\ req[t].retry < MAX_RETRY_OF_DELETE
  IN /\ req[t].phase = "answer"
     /\ \/ /\ again
           /\ req' = [req EXCEPT ![t].phase = "file", ![t].retry = @ + 1]
        \/ /\ req[t].answer = "ok"
           /\ req' = [req EXCEPT ![t].phase = "row"]
        \/ /\ req[t].answer # "ok" /\ ~ again
           /\ Finish(t)
     /\ NoMishap
     /\ UNCHANGED <<pictures, tags, bucket, pending, successes, requests>>

DeleteRow(t) ==
  LET p == req[t].picture
  IN /\ req[t].phase = "row"
     /\ pictures' = pictures \ {p}
     /\ Succeed(p)
     /\ Finish(t)
     /\ NoMishap
     /\ UNCHANGED <<tags, bucket, pending, requests>>

-----------------------------------------------------------------------------
\* removeTag finds the house, and then the tag by its name.
RemoveTag(t, g) ==
  Start(t, [NoRequest EXCEPT !.phase = "find", !.tag = g])

FindTag(t) ==
  /\ req[t].phase = "find"
  /\ \/ req[t].tag \in tags /\ req' = [req EXCEPT ![t].phase = "drop"]
     \/ req[t].tag \notin tags /\ Finish(t)
  /\ NoMishap
  /\ UNCHANGED <<pictures, tags, bucket, pending, successes, requests>>

\* A variant with a bug: deleting a row that is gone passes for a success.
DropTag_Unchecked(t) ==
  /\ req[t].phase = "drop"
  /\ tags' = tags \ {req[t].tag}
  /\ Succeed(req[t].tag)
  /\ Finish(t)
  /\ NoMishap
  /\ UNCHANGED <<pictures, bucket, pending, requests>>

\* Deleting by id throws when another request has deleted the row.
DropTag(t) ==
  LET g == req[t].tag
  IN /\ req[t].phase = "drop"
     /\ tags' = tags \ {g}
     /\ \/ g \in tags /\ Succeed(g)
        \/ g \notin tags /\ UNCHANGED successes
     /\ Finish(t)
     /\ NoMishap
     /\ UNCHANGED <<pictures, bucket, pending, requests>>

-----------------------------------------------------------------------------
\* save writes the tags of a house in one call; no request adds one later, since
\* addHouseTag refuses every request that names a tag.
SaveTags(h) ==
  LET added == {h} \X Names
  IN /\ added \subseteq pending
     /\ \E some \in SUBSET added : tags' = tags \cup some
     /\ pending' = pending \ added
     /\ NoMishap
     /\ UNCHANGED <<pictures, bucket, req, successes, requests>>

\* save and update add rows for the paths in the form (generatePictures).
AddPicture(p) ==
  /\ p \in pending
  /\ pictures' = pictures \cup {p}
  /\ pending' = pending \ {p}
  /\ NoMishap
  /\ UNCHANGED <<tags, bucket, req, successes, requests>>

\* A repository call fails, and the request with it.
CallFails(t) ==
  /\ req[t].phase \in {"row", "find", "drop"}
  /\ Mishap("database")
  /\ Finish(t)
  /\ UNCHANGED <<pictures, tags, bucket, pending, successes, requests>>

Crash ==
  /\ Mishap("crash")
  /\ req' = [t \in Threads |-> NoRequest]
  /\ UNCHANGED <<pictures, tags, bucket, pending, successes, requests>>

Arrive(t) ==
  \/ \E p \in Pictures : RemovePhoto(t, p)
  \/ \E g \in Tags : RemoveTag(t, g)

Proceed(t) ==
  \/ DeleteFile(t)
  \/ TakeAnswer(t)
  \/ DeleteRow(t)
  \/ FindTag(t)
  \/ DropTag(t)
  \/ CallFails(t)

Next ==
  \/ \E t \in Threads : Arrive(t) \/ Proceed(t)
  \/ \E h \in Houses : SaveTags(h)
  \/ \E p \in Pictures : AddPicture(p)
  \/ Crash

Spec == Init /\ [][Next]_contentVars

\* The container goes on running a request; nobody has to send one.
FairSpec == Spec /\ \A t \in Threads : WF_contentVars(Proceed(t))

-----------------------------------------------------------------------------
(***************************************************************************)
(* Properties.                                                             *)
(***************************************************************************)

(***************************************************************************)
(* However many administrators remove a picture or a tag at once, one of   *)
(* them at most is told that he did, and then it is gone for good          *)
(* (removePhoto and removeTag, HouseService.java 227-245 and 275-288).     *)
(***************************************************************************)
RemovedOnce ==
  \A x \in Things :
    /\ successes[x] <= 1
    /\ successes[x] = 1 => x \notin pictures \cup tags \cup pending

(***************************************************************************)
(* A picture that has been removed leaves no file behind that no row names:*)
(* the row goes after the file (removePhoto, HouseService.java 233-237).   *)
(***************************************************************************)
NoFileLeftBehind ==
  \A p \in Pictures : successes[p] > 0 => PathOf[p] \notin bucket

(***************************************************************************)
(* A request that goes on to delete a row finds it: the bucket, which      *)
(* deletes a file once, lets one request of several through, so the        *)
(* deletion of the row does not throw (HouseService.java 234-236).         *)
(***************************************************************************)
BucketArbitrates ==
  \A t \in Threads : req[t].phase = "row" => req[t].picture \in pictures

(***************************************************************************)
(* Every request ends, though the bucket may ask for another call each time*)
(* (QiNiuServiceImpl.java 57-64).                                          *)
(***************************************************************************)
RequestsEnd ==
  \A t \in Threads : req[t].phase # "idle" ~> req[t].phase = "idle"

=============================================================================
