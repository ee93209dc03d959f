# TLA+ development for soufang, the house-renting site

The repository holds a Spring Boot application, `src/soufang` (about 7 300 lines of Java
under `src/soufang/src/main/java/com/wf`, plus templates and a database script), next to
unpacked distributions of the servers it talks to (`elasticsearch-6.2.3`,
`kafka_2.11-1.1.0`, `zookeeper-3.3.6`, `elasticsearch-head-master`) and front-end
libraries. Only the application is the program's own; this directory models it, and of the
servers only what the application relies on. Paths below are relative to
`src/soufang/src/main/java/com/wf`.

## 1. Inventory

| component | state | operations | talks to |
|---|---|---|---|
| **House administration**: `service/house/HouseService.java`, driven by `web/controller/admin/AdminController.java` | MySQL tables `house`, `house_detail`, `house_picture`, `house_tag` | `save`, `update`, `updateStatus`, tags, photos, cover | MySQL; Kafka through `ISearchService.index/remove` |
| **Index listener**: `service/search/SearchService.java`, `handleMessage` | consumer offset; Elasticsearch index `xunwu`; Baidu LBS table | `createOrUpdateIndex`, `removeIndex`, retries | Kafka, MySQL, Elasticsearch, `AddressServiceImpl` |
| **Search**: `SearchService.query`, `suggest`, `mapQuery`, `aggregateDistrictHouse`, `mapAggregate` | none | filters, paging, aggregations | Elasticsearch |
| **House queries**: `HouseService.query`, `simpleQuery`, `adminQuery`, map queries, `HouseController` | none (city in the session) | choose index or database, join ids with rows | MySQL, search |
| **Subscriptions**: `addSubscribeOrder`, `querySubscribeList`, `UserController` | `house_subscribe` | subscribe, list | MySQL |
| **Tags, photos, cover** | `house_tag`, `house_picture`, the photo bucket | add, remove, set cover | MySQL, QiNiu |
| **Photo storage client**: `QiNiuServiceImpl` | none | upload and delete with retries | QiNiu |
| **Addresses, LBS client**: `AddressServiceImpl` | `support_address`, `subway*` (read only) | lookups, geocode, LBS upload/remove | MySQL, Baidu |
| **Login and accounts**: `AuthFilter`, `AuthProvider`, `UserServiceImpl`, `SmsServiceImpl` | `user`, `role`, session | login by name or telephone, profile | MySQL, session |
| **Cluster monitor**: `task/ESmoniter.java` | none | health check by mail, its schedule commented out | Elasticsearch |
| **Pages, DTOs, error pages** | session | binding, layout | all services |

How they interact. Administrators' requests run in servlet threads of one process. `save`
commits table by table (it has no `@Transactional`); `update` and `updateStatus` are
transactions. `updateStatus` checks the status it has read, updates the row, and hands a
message `{houseId, operation, retry}` to the Kafka topic `house_build` *inside* the
transaction. A single listener, in the same process, handles the messages one at a time:
INDEX reads the house and its detail, geocodes the address, searches the index for the house,
creates, updates or deletes-and-creates its document, and uploads the house to the LBS
table; REMOVE deletes by query and removes the LBS entry. What fails is sent again with
`retry + 1`, at the end of the same topic, up to `MAX_RETRY` times.

What is hard here: two administrators on one house; an edit overlapping a status change;
send and commit that do not go together; retries that change the order of messages;
searches that lag behind writes; remote calls that fail half way, or that fail with an
exception nothing catches; a crash between the effect of a message and the commit of its
offset; reads of two tables at two moments. The list, with lines, is `hazards` in
`PROJECT.json`.

What makes each part correct: the status machine keeps its terminal states; rows appear in
an order readers can rely on; messages leave in the order of commits; a document is built
from existing rows and never goes back in time; a house has one document; retries end; and
together, the index follows the listing. A page of search results can be shown although its
ids come from the index and its rows from three tables. A user's list holds a house once and
shows every house that was there to who scrolls through it (two of the same second may change
places between pages). A tag or picture is removed once, and a picture that is gone leaves no
file behind.

## 2. Modules

| module | models | extends / instantiates |
|---|---|---|
| `HouseVocabulary` | `HouseStatus`, `HouseOperation`, `HouseIndexMessage`, tables | |
| `Mishaps` | the failures a run admits and their budget | |
| `HouseService` | `save`, `update`, `updateStatus` in request threads, with locks and rollback | both |
| `SearchService` | the listener, every remote call a step; its environment as two actions | both |
| `ListingIndex` | abstract: an index that applies every change of the listing once and in order | |
| `Soufang` | both services over the shared rows and topic | `HS == INSTANCE HouseService`, `SS == INSTANCE SearchService`, `Listing == INSTANCE ListingIndex` |
| `Browse` | a visitor's page of houses, from the index or the database, beside the listener | `SearchService` |
| `Subscriptions` | the viewing list: adding a house to it, scrolling through it | `HouseVocabulary`, `Mishaps` |
| `HouseContent` | removing pictures and tags, with the client of the photo bucket | `HouseVocabulary`, `Mishaps` |
| `MCHouseService`, `MCSearchService`, `MCBrowse`, `MCSoufang`, `MCSubscriptions`, `MCHouseContent` | instances for TLC | |
| `HouseServiceProofs` | theorems about `HouseService` | `HouseService` |
| `SearchServiceProofs` | theorems about `SearchService` | `SearchService` |
| `ListingIndexProofs` | what the abstract index owes its users | `ListingIndex` |
| `SoufangProofs` | the composition implements the listener's specification and inherits its theorems; terminal statuses; unlisted houses stay out of the index | `Soufang`, `SP == INSTANCE SearchServiceProofs` |
| `SoufangListingProofs` | the composition implements the abstract listing and inherits its theorem | `SoufangProofs`, `LP == INSTANCE ListingIndexProofs` |
| `BrowseProofs`, `SubscriptionsProofs`, `HouseContentProofs` | theorems about these modules | |

### State and actions against the code

`HouseService`. `rows[h]` is the set of tables with a row for house `h`; `status[h]` and
`rev[h]` are the committed status and the number of committed contents (title, price,
detail and so on are one revision number, since nothing distinguishes them). `req[t]` is
where the request of thread `t` is: `detail`, `picture`, `tag` are the commits `save` has
yet to make; `edit` is `update` between its reads and its commit; `status` is
`updateStatus` after its checks, `sent` after the UPDATE and the send. `lock[h]` is the
InnoDB row lock an UPDATE takes and keeps until the transaction ends. Plain reads take no
lock. `UpdateCommit` writes the status that was read, because Hibernate writes every column
of a changed entity. `CallFails` is a repository call that throws, `StatusRollback` a commit
that fails, `Crash`/`Restart` the death of the process.

`SearchService`. `topic` holds the messages since the committed offset, `position` how
many of them were delivered, `handler` the message in work: its phase is the next
read or remote call, `hrev`/`drev` the revisions of the two rows read, `found` the ids the
search returned. `live` are the documents, `seen` those a search sees (they differ between
a write and the next `Refresh` when `RefreshLag` is TRUE), `poi[h]` the LBS entries.
Every remote call may fail (`Mishap(kind)`) as the code sees it: an unsuccessful
`ServiceResult`, a lost send, or a runtime exception, which `handleMessage` does not catch.
`EnvRows` and `EnvSend` are everything the listener relies on: rows do not go away,
contents move on, messages are appended. That the house service is such an environment is
the property `ListenerSpec` of `Soufang`.

`Soufang` joins the two. `Listed`, `Unapplied`, `Changes` and `Pending` are the refinement
mapping to `ListingIndex`: a change counts from the send of its message, a message is applied
by the step that writes or deletes the document, and a message sent again (`retry` > 0) stands
for no change. `Changes(h)` are the places in the topic of the changes of `h` not yet applied,
and `Pending(h)` the sequence of what they ask for: its `k`-th element is that of the `k`-th
place by rank (`Nth`).

`Browse` adds to the listener and its environment the page a visitor is being made: its hits
(`SearchPage` takes any of the documents a search sees, `DatabasePage` any of the house
rows, since filters, order and paging only decide which), then one step for each table read.
`house` and `detail` are `idToHouseMap`: for each house the revision of the row found, or
`Missing`. `Stray` is a row whose house is not in that map, where the code would throw.

`Subscriptions`. `list[u]` is the user's rows of `house_subscribe` in the order of their ids;
a row has the house and the second of its `create_time`. A row is stamped before it is
saved, so ids and times may disagree, and `NewestFirst` allows every order the database may
return: the newest first, equal times in any order, chosen anew for every query. The unique
key of the table is external and is why `Insert` may throw. `walk` is the browser scrolling:
it asks from `start = (page - 1) * size`, the server reads page `start / size`, then the
total (`Count`: Spring Data asks the database only when the page does not tell), then the
houses; the browser goes on while the answer says there is more.

`HouseContent`. `pictures`, `tags` and `bucket` are the rows and the files; rows that `save`
and `update` have yet to add are `pending`. `BucketDelete` is the external bucket: it deletes
a file once and refuses one it does not have; a call that fails (`"file"`) may or may not
have deleted it, and the code either repeats it or gives up. Two rows may name one file.
The path never comes back: `uploadPhoto` writes to the local disk only. A consequence the
model shows: when the answer to a delete that was carried out is lost, the bucket refuses
every later one, and the row can no longer be removed by this program.

Definitions named `X_Something` with the comment "a variant with a bug" are not part of any
specification. They are what `X` would be with a plausible mistake; replacing `X` by one of
them must violate the property `PROJECT.json` names under `mutants`.

## 3. Runs

| run | instance | shows |
|---|---|---|
| `HouseServiceRace` | 2 houses (one edited, one yet to be saved), 2 threads, 5 requests, database errors at will and 1 lost send, rollback or crash; symmetric in the threads | types, commit order of messages, order of rows; a rented or deleted house loses its status only to a request that read the row before, be it an edit or a status change (`FinalOnceSettled`) |
| `SearchServiceLag` | 1 house, 2 messages, 3 documents, pages of 2 hits, lagging searches, 1 mishap of any of six kinds, contents 0..1 | documents come from rows that exist and move forward; unfinished work is never committed; an INDEX that ends has put what it read into the index or is asked for again (`IndexedOrAskedAgain`), which is also how an edited house becomes searchable by its new values once it is listed again; pages are complete and none fails |
| `SearchServiceOutage` | 1 house, 2 messages, every remote call may fail every time, fairness | retries end, and never leave a house with two documents |
| `SoufangCalm` | 2 houses with an administrator each, 4 requests, LBS look-ups failing at will and nothing else, fairness | `Soufang` implements `ListingIndex`, in safety and liveness (`FollowsListing`); a listed house is found; terminal statuses are final |
| `SoufangRace` | 1 house, 2 administrators, 5 requests, database calls and LBS look-ups failing at will | no unlisted house stays in the index; no message is about a house without a row |
| `SoufangMishaps` | 1 house, 2 administrators, one of whom edits, 3 requests, 1 mishap: crash, lost send, rollback, failed geocoding or search | one document per house, index and LBS table agree, the house service is the listener's environment |
| `SubscriptionsRace` | 1 user, 3 houses, 2 windows, pages of 2 rows, 4 requests, 3 seconds, 1 failing call or crash; symmetric in the threads | a house is listed once, no page fails, scrolling misses no house that was there at the start and was not stamped in the same second as another |
| `HouseContentRemoval` | 2 pictures on one file, 1 house with a tag, 2 administrators, 4 requests, the bucket failing at will, 1 failing call or crash, fairness | removals happen once, files go before rows, requests end |
| `HouseServiceStatusRace` | 1 house, 2 threads | *violated*: a terminal status is overwritten |
| `SoufangOvertaken`, `SoufangPhantom` | 1 house, 1 administrator, 1 failure | *violated*: an unlisted house stays in the index |
| `SoufangLost` | 1 house, 1 administrator, no failure, lagging searches | *violated*: a listed house is missing from the index |

The violated ones are the findings of `PROJECT.json`; each states what the code's own
comments or messages promise.

`MirrorsAgree` is checked without failures of the LBS and without exceptions, because with
them it does not hold: when `removeLbs` fails on the last retry of a REMOVE, the document is
gone and the entry stays; an exception out of `handleMessage` ends a message half way in the
same manner. Nothing in the repository promises otherwise, so this is no finding. What the
run does show is that a crash between the two calls, a redelivery or a retry is repaired.

Bounds, and why they are enough. One house suffices where the code treats houses
independently (each message and transaction concerns one); two are used where the order of
messages of different houses could matter. Two threads are the smallest race, and the checks
of `updateStatus` relate only two requests. `MaxRequests` bounds the requests: 3 to 5 let a
house be listed, unlisted and listed again with a request overlapping. `MAX_RETRY` has its
value in the code. Three document ids let a house have two documents and a third be created.
Three houses on pages of two make a list of two pages, or of one that grows into a second
while it is read. Two pictures on one file and two threads are the smallest race for a file.
One mishap is enough for every finding; `SearchServiceOutage` has no bound on them, nor has
the bucket in `HouseContentRemoval`. Runs set
`CHECK_DEADLOCK FALSE` because a system without further requests is at rest.

Fairness. `Soufang!Fairness`: a request being served goes on (the thread is running), the
listener polls and handles (the container thread loops), the index refreshes (by its
interval). Nothing obliges a request to arrive, a failure to happen, or offsets to be
committed. Weak fairness is enough because none of these steps is disabled again by others,
except the write of a row another transaction has locked, and that one ends.
`HouseContent!FairSpec` likewise only says that a thread goes on with its request.

## 4. Theorems

All are proved for every value of the constants, from the assumptions the modules name:
`HousesAssumption` (there is a house), `FaultBudget`, `RevisionsAssumption`,
`DocIdsAssumption`, `RefreshLagAssumption`, `StoredAssumption`, `MaxRequestsAssumption`,
`DutiesAssumption` (`Soufang` states again what `SearchService` and `HouseService` ask of the
constants it hands on to them), `NoThreadAssumption`; `PageSizeAssumption` and
`MissingAssumption` (`Missing` is no revision); `UsersAssumption`, `PageLengthAssumption`
(a page has a row) and `BoundsAssumption`; `PathsAssumption`, `ContentAssumption` and
`TablesAssumption` (ids of pictures are not tags). TLC evaluates each of them in the runs.

| theorem | says | argument |
|---|---|---|
| `HouseServiceProofs!TypeCorrect` | `[]TypeOK` | inductive by itself |
| `HouseServiceProofs!SaveOrder` | `[]RowsInSaveOrder` | not inductive: a `picture` commit needs to know that its request has committed `detail`. `RowsInv` adds what each phase of a request has already made sure of (`RequestsHaveRows`) |
| `HouseServiceProofs!CommitOrder` | `[]MessagesFollowCommits` | `MessagesInv` adds the lemma `LocksAreOwned` (the row lock, which is the model's picture of InnoDB's, is held by the transaction between its write and its end) and `EditsAreDuties` (only a thread with the duty edits, so nobody writes an old status back to a house nobody edits) |
| `HouseServiceProofs!SettledIsFinal` | `FinalOnceSettled`, an action property | with the invariant of `SaveOrder`: a house that is rented or deleted has a row, so no save meets it; a status change refuses it; an edit that starts now reads the final status and writes it back (`SettledNext`, one step per action). It holds with any duties and mishaps, unlike `TerminalIsFinal` |
| `SearchServiceProofs!TypeCorrect` | `[]TypeOK` | `Requeue` is what bounds `retry` |
| `SearchServiceProofs!NothingLost` | `[]UnfinishedIsUncommitted` | inductive with the types: appending leaves delivered messages where they are, offsets are committed only when idle |
| `SearchServiceProofs!DocumentsFromRows` | `[]BuiltFromRows` | inductive with the types, because rows only move on (`NextMovesOn`) and the house row is read before the detail |
| `SearchServiceProofs!SingleDocument` | `[]OneDocument` | not inductive: `Single` adds that what the handler found is what there is, until it writes (`FoundIsCurrent`), true only while searches do not lag |
| `SearchServiceProofs!ContentsMoveOn` | `ContentMovesOn`, an action property | `NoneNewer`: no document of the house in work is newer than the house row the handler has read |
| `SearchServiceProofs!NothingDropped` | `IndexedOrAskedAgain`, an action property | `WrittenAsRead`: a handler that goes on to the LBS with nothing failed has left a document with the content it read, by whichever of create, update and delete-and-create; one with a failure sends the message again or has no retry left |
| `SoufangProofs!ServiceRespectsListener` | `Spec => ListenerSpec` | step refinement: every step of the house service is `EnvRows`, `EnvSend` or invisible to the listener, given `Shared` (a house without rows has no content, an edit concerns a house with rows) |
| `SearchServiceProofs!MirrorsStayTogether`, `SoufangProofs!MirrorsStayTogether` | `Repairable` implies `[]MirrorsAgree` | not inductive: `Attended` says that a house whose mirrors differ has a message, waiting or in hand, that will repair them, and `FirstDone` that index comes before LBS table within a message. `FewRetries` bounds the retries of an INDEX by the failures so far, so none is given up; `EntriesFromRows` and `UniqueIds` see to it that the repairing message finds the rows it needs and leaves the documents of other houses alone |
| `SoufangProofs!HouseServiceUndisturbed` | `[]RowsInSaveOrder` for both services | steps of the listener are none of the house service, but they leave rows, locks and requests alone and put only messages into the topic (`HouseInvKept`); for every other step `HouseStep` uses the invariant of `SaveOrder` |
| `SoufangProofs!MessagesAreOfHouses` | `[]MessagesHaveHouses` | `RequestsHaveRows` of `SaveOrder`: a request that sends has seen the house. A message a step adds is about a house some message was about before (`ListenerNamesNoHouse`) or some request works on (`ServiceNamesItsHouse`), and rows stay (`RowsStay`). Nothing is assumed of failures |
| `SoufangProofs!SingleDocument` | `[]OneDocument` for both services | `SearchServiceProofs!SingleDocument` through the refinement (`ListenerByItself`) |
| `SoufangProofs!TerminalIsFinal` | `OneAdministrator` implies `TerminalStays`, an action property | `Duly`: a request works within the duties of its thread, an edit carries the status the house has; `Open`: a request past the checks of `updateStatus` is about a house that is not rented or deleted. `Turn` is what a step of one thread leaves alone, so no other administrator needs to be looked at |
| `BrowseProofs!BrowseTypeCorrect`, `HitsAreShown`, `PagesSucceed` | `[]BrowseTypeOK`, `[]PageComplete`, `[]NoPageFails` | built on the listener's invariants: documents come from rows, rows stay and contents only grow, so what each read finds is at least what the hit was built from; a house row is there before its detail and tags |
| `SubscriptionsProofs!SubscriptionsTyped`, `ListedOnce`, `PagesHaveHouses` | `[]TypeOK`, `[]SubscribedOnce`, `[]PairsHaveHouses` | rows are only added and only for a house that was found, and houses stay, which also holds of the rows a page has read |
| `SubscriptionsProofs!ScrollingIsComplete` | `[]WalkMissesNothing` | `WalkInv`: the rank of a row is the number of rows newer than it, and never falls; a row that was there at the start and was not shown yet has at least the rank the next page starts from. A page shows all rows of the ranks it spans (`PageTaken`), in whatever order it puts equal times; a house with the time of another may fall between two pages and is excepted (`Untied`) |
| `SoufangProofs!UnlistedStaysOut` | `Calm` implies `[]UnlistedAbsent` | `CalmInv`: the status the last message of a house stands for (`Announced`) is never ahead of the topic, since the message is sent under the row lock; while it is not `passes`, the house is out of the index or a REMOVE is pending behind every INDEX of it (`StaysOut`). An INDEX is never sent again, because a house has one document at most and it is found (`ListenerInv`); a REMOVE that is sent again does no harm |
| `SoufangListingProofs!IndexFollowsListing` | `Undisturbed` implies `Spec => Listing!Safety` | step refinement under `CalmInv`, `UnfinishedIsUncommitted` and `FollowInv`: a house that is listed has all rows its document needs (`Saved`, `Ready`), so an INDEX is never dropped or sent again; a REMOVE that is no repetition finds its document or is of a house gone for good, and a repetition is always of such a house (`MessageInOrder`); whether a house is in the index when a message is reached is told by the change before it (`On`). That `Pending` grows at the end and shrinks at the front is shown by the ranks of the places (`AskedAppend`, `AskedTail`, `AskedShift`) |
| `SoufangListingProofs!ListedIsFound` | `Undisturbed` implies `[]ListedPresent` | `ListingIndexProofs!AppliedIsListed` through that refinement; with nobody at work nothing is pending and no house is locked |
| `HouseContentProofs!ContentTyped`, `OneRemovalEach`, `FilesGoFirst`, `RowsAreThere` | `[]TypeOK`, `[]RemovedOnce`, `[]NoFileLeftBehind`, `[]BucketArbitrates` | not inductive by themselves: a request the bucket has answered `ok` has the only such answer for its path, and that file is gone from then on |
| `ListingIndexProofs!AppliedIsListed` | `[]InSync` for `ListingIndex` | `LeadsToListing`: the last pending change of a house, or what is indexed if none is pending, is its listing |

The hypotheses on the constants, and what each is for:

- `Repairable` (`MirrorsStayTogether`): updates of the LBS table and the handler itself do not
  fail (after such a failure a message may be over with half of it done, see section 3), the
  geocoder fails at most `MAX_RETRY` times in all, and searches see every write. Crashes, lost
  sends, rollbacks, database calls and LBS look-ups are free to fail.
- `OneAdministrator` (`TerminalIsFinal`): two threads never have duties about one house. With
  two, the check of `updateStatus` is stale when it is used (run `HouseServiceStatusRace`).
  Nothing is assumed of failures.
- `Calm` (`UnlistedStaysOut`): only database calls and LBS look-ups may fail, searches see
  every write, and whoever edits a house is its only administrator (any number may operate a
  house nobody edits). A failed step of an INDEX sends it again behind a later REMOVE (run
  `SoufangOvertaken`); a rollback or a crash after the send, or a lost send, parts the message
  from the status (`SoufangPhantom`); an edit writes a status back with no message
  (`HouseService` 218); a search that lags finds nothing to delete. `SoufangRace` is a small
  instance.
- `Undisturbed` (`IndexFollowsListing`, `ListedIsFound`): only LBS look-ups may fail, searches
  see every write, and each house has a single administrator. A database call that fails while a
  house is being saved leaves one that is listed but cannot be indexed; two administrators can
  both take one house off the list, and the second REMOVE finds nothing and comes again, behind a
  later INDEX, as it does in `SoufangLost`. `SoufangCalm` is a small instance.

How the theorems build on each other. `ServiceRespectsListener` is what gives the listener's
theorems their weight: what is proved of `SearchService` with its two environment actions holds
of the listener when the house service is that environment. `SoufangProofs` takes the theorems
over by an instance of their module, `SP`, whose definitions are those of `Soufang!SS` word for
word (`SameListener`), and in the same way what is proved of the house service alone, as `HP`
(`SameService`). `SoufangListingProofs` does the same with the abstract listing (`LP`,
`SameListing`): `AppliedIsListed` is proved of `ListingIndex` alone and holds of everything that
implements it. The run `SoufangMishaps` checks the first refinement on a small instance and
`SoufangCalm` the second.

Only model-checked: `Drains`, `RequestsEnd` and the liveness half of `FollowsListing`, since
liveness and `ENABLED` are outside the prover's reach; its safety half is `IndexFollowsListing`. What
the violated runs show are single behaviours, for which there is nothing to prove. No proof uses
induction over data: the mapping to `ListingIndex` reads the topic by rank, not by a recursive
filter, so that each step of it is a statement about finite sets and their cardinality.

## 5. Not modelled, and why

- Filters, orders, paging of searches, suggestions and aggregations (`SearchService` 215-600
  apart from the choice of hits, the value blocks of price and area): they choose among data
  and no two steps depend on each other. `adminQuery` and `findCompleteOne` only read.
- Uploads to the bucket (`QiNiuServiceImpl` 35-52): nothing calls them any more.
- `addTag`: `AdminController` 294 refuses every request that names a tag, so it is never
  reached (below).
- `updateCover`: it runs a modifying query without a transaction around it, neither in
  `HouseService` nor in the repository; what it does then is decided by Spring Data, and the
  cover is of no concern to any other step.
- Login and accounts (`AuthFilter`, `AuthProvider`, `UserServiceImpl`, `SmsServiceImpl`): a
  login is decided within one request, for the code sent is a constant and removing it does
  nothing; no account is ever made. `modifyUserProfile` sets one column of the user's own
  row in one statement, with the unique keys of the table behind it. No sequence of steps
  depends on another here.
- Address and subway lookups: plain reads of tables nothing writes.
- `ESmoniter`: its schedule is commented out, and a check has no state.
- Pages, DTOs, `WebMvcConfig`; the unpacked servers and front-end libraries, which are not
  the program's own. They are by far most of the lines of the repository.

### Seen while reading

These are defects or oddities of a single call, which no sequence of steps makes better or
worse; they are recorded here and partly under `hazards`.

- `AdminController` 294: `addHouseTag` refuses a request whose `tag` is not null, and the
  parameter is required. Tags can only be given when a house is saved.
- `HouseService` 505 compares two `Long` objects by identity; beyond the small values Java
  caches, a station is taken not to belong to its line.
- `AuthFilter` 43 expects `addUserByPhone` to make an account for a new telephone; it looks
  one up and returns null.
- `HouseService.save` commits the house before its detail, so a visitor may be shown a house
  without one; `rent-list.html` 269 reads the detail.
- `uploadPhoto` keeps the name of the uploaded file, so two uploads of one name overwrite each
  other, and two houses share a path.
- `HouseService` 218: `update` writes back the status it read at 196, so an edit that overlaps a
  status change undoes it, the same overwritten status as in `HouseServiceStatusRace`.
