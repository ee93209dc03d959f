\* Each of two administrators has a house of his own; nothing fails but look-ups of LBS
\* entries.
CONSTANTS
  h1 = h1
  h2 = h2
  t1 = t1
  t2 = t2
  NoThread = NoThread
  Threads = {t1, t2}
  Houses = {h1, h2}
  Duties <- OneEach
  Stored = {h1}
  MaxRequests = 4
  DocIds = {1, 2, 3}
  RefreshLag = FALSE
  FaultKinds = {}
  Persistent = {"lookup"}
  MaxFaults = 0
SPECIFICATION FairSpec
PROPERTIES
  FollowsListing
  TerminalStays
INVARIANTS
  ListedPresent
CHECK_DEADLOCK FALSE
