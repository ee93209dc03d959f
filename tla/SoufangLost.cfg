\* One administrator, nothing fails, searches miss recent writes.
CONSTANTS
  h1 = h1
  h2 = h2
  t1 = t1
  t2 = t2
  NoThread = NoThread
  Threads = {t1, t2}
  Houses = {h1}
  Duties <- OperatorOnly
  Stored = {h1}
  MaxRequests = 4
  DocIds = {1, 2}
  RefreshLag = TRUE
  FaultKinds = {}
  Persistent = {}
  MaxFaults = 0
SPECIFICATION Spec
INVARIANT ListedPresent
CHECK_DEADLOCK FALSE
