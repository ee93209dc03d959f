\* One administrator, one LBS call that fails.
CONSTANTS
  h1 = h1
  h2 = h2
  t1 = t1
  t2 = t2
  NoThread = NoThread
  Threads = {t1, t2}
  Houses = {h1}
  Duties <- OperatorOnly
  Stored = {h1}
  MaxRequests = 3
  DocIds = {1, 2}
  RefreshLag = FALSE
  FaultKinds = {"lbs"}
  Persistent = {}
  MaxFaults = 1
SPECIFICATION Spec
INVARIANT UnlistedAbsent
CHECK_DEADLOCK FALSE
