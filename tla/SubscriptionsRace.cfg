\* One user, three houses and two windows, while the list is scrolled.
CONSTANTS
  t1 = t1
  t2 = t2
  Threads = {t1, t2}
  Users = {"u1"}
  Houses = {"h1", "h2", "h3"}
  PageLength = 2
  MaxRequests = 4
  MaxClock = 2
  FaultKinds = {"database", "crash"}
  Persistent = {}
  MaxFaults = 1
SYMMETRY Symmetry
SPECIFICATION Spec
INVARIANTS
  TypeOK
  SubscribedOnce
  PairsHaveHouses
  WalkMissesNothing
CHECK_DEADLOCK FALSE
