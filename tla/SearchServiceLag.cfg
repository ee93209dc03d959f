\* Every mishap of the listener, with searches that may miss recent writes,
\* while a visitor is served pages of up to two hits.
CONSTANTS
  Houses = {"h1"}
  DocIds = {1, 2, 3}
  RefreshLag = TRUE
  Revisions = {0, 1}
  MaxSends = 2
  PageSize = 2
  Missing = Missing
  FaultKinds = {"geocode", "lookup", "lbs", "exception", "send", "crash"}
  Persistent = {}
  MaxFaults = 1
SPECIFICATION MCBrowseSpec
INVARIANTS
  BrowseTypeOK
  BuiltFromRows
  UnfinishedIsUncommitted
  PageComplete
  NoPageFails
PROPERTIES
  ContentMovesOn
  IndexedOrAskedAgain
CHECK_DEADLOCK FALSE
