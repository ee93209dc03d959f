\* Two administrators on two houses, one of them edited, one yet to be saved.
CONSTANTS
  h1 = h1
  h2 = h2
  t1 = t1
  t2 = t2
  NoThread = NoThread
  Houses = {h1, h2}
  Threads = {t1, t2}
  Duties <- EditsOfOne
  Stored = {h1}
  MaxRequests = 5
  FaultKinds = {"send", "rollback", "crash"}
  Persistent = {"database"}
  MaxFaults = 1
SYMMETRY Symmetry
SPECIFICATION Spec
INVARIANTS
  TypeOK
  MessagesFollowCommits
  RowsInSaveOrder
PROPERTY FinalOnceSettled
CHECK_DEADLOCK FALSE
