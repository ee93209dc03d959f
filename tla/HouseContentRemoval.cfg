\* Two administrators, two pictures on one file, and a house with a tag; the
\* bucket may fail at any call.
CONSTANTS
  p1 = p1
  p2 = p2
  a = a
  Threads = {"t1", "t2"}
  Houses = {"h1"}
  Pictures = {p1, p2}
  Paths = {a}
  PathOf <- SharedPath
  Names = {"n1"}
  MaxRequests = 4
  FaultKinds = {"database", "crash"}
  Persistent = {"file"}
  MaxFaults = 1
SPECIFICATION FairSpec
INVARIANTS
  TypeOK
  RemovedOnce
  NoFileLeftBehind
  BucketArbitrates
PROPERTY
  RequestsEnd
CHECK_DEADLOCK FALSE
