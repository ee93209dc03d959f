\* Every remote call may fail every time; searches see every write.
CONSTANTS
  Houses = {"h1"}
  DocIds = {1, 2}
  RefreshLag = FALSE
  Revisions = {0, 1}
  MaxSends = 2
  FaultKinds = {}
  Persistent = {"geocode", "lbs", "exception"}
  MaxFaults = 0
SPECIFICATION MCFairSpec
INVARIANT OneDocument
PROPERTY Drains
CHECK_DEADLOCK FALSE
