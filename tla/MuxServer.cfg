\* Three sessions under two ids, one after the other or at once; and two
\* connections that open two cones each under one GlobalID, or under none.
CONSTANTS
  Sids = {s1, s2}
  MaxTasks = 3
  Muxes = {m1, m2}
  Ids = {g1}
  MaxCones = 2
SPECIFICATION MuxFairSpec
INVARIANTS OpenIsInTable NoDataAfterEnd CloseStopsReaders SoleUserIsServed SoleReader
PROPERTY LifetimeClosesOrStands
CHECK_DEADLOCK FALSE
