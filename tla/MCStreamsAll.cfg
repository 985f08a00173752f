SPECIFICATION FairSpec
CONSTANTS
  p1 = p1
  p2 = p2
  a1 = a1
  a2 = a2
  w1 = w1
  w2 = w2
  g1 = g1
  Keys = {p1, p2}
  Workers = {}
  Watchers = {}
  Globals = {g1}
  KeyOf <- MCKeyOf
  MaxRuns = 1
  MaxUpdates = 1
INVARIANTS PendingIsSignalled
PROPERTIES EndReachesMembers
CHECK_DEADLOCK FALSE
