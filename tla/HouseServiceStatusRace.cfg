\* Two administrators operate on one house at the same time.
CONSTANTS
  h1 = h1
  h2 = h2
  t1 = t1
  t2 = t2
  NoThread = NoThread
  Houses = {h1}
  Threads = {t1, t2}
  Duties <- NoEdits
  Stored = {h1}
  MaxRequests = 3
  FaultKinds = {}
  Persistent = {}
  MaxFaults = 0
SPECIFICATION Spec
PROPERTY TerminalStays
CHECK_DEADLOCK FALSE
