\* Two administrators, one house, and one mishap that leaves no message half
\* handled for good.
CONSTANTS
  h1 = h1
  h2 = h2
  t1 = t1
  t2 = t2
  NoThread = NoThread
  Threads = {t1, t2}
  Houses = {h1}
  Duties <- EditAndOperate
  Stored = {h1}
  MaxRequests = 3
  DocIds = {1, 2}
  RefreshLag = FALSE
  FaultKinds = {"crash", "send", "rollback", "geocode", "lookup"}
  Persistent = {}
  MaxFaults = 1
SPECIFICATION Spec
INVARIANTS
  OneDocument
  MirrorsAgree
PROPERTY ListenerSpec
CHECK_DEADLOCK FALSE
