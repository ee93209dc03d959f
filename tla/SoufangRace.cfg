\* Two administrators race on one house; database calls and LBS look-ups fail at will.
CONSTANTS
  h1 = h1
  h2 = h2
  t1 = t1
  t2 = t2
  NoThread = NoThread
  Threads = {t1, t2}
  Houses = {h1}
  Duties <- TwoOperators
  Stored = {}
  MaxRequests = 5
  DocIds = {1, 2, 3}
  RefreshLag = FALSE
  FaultKinds = {}
  Persistent = {"database", "lookup"}
  MaxFaults = 0
SPECIFICATION Spec
INVARIANTS
  UnlistedAbsent
  MessagesHaveHouses
CHECK_DEADLOCK FALSE
