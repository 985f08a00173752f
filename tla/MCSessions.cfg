SPECIFICATION FairSpec
CONSTANTS
  PRs = {p1}
  Foreign <- MCForeign
  Undeletable = {1}
  Job = job
  OnDone = {after}
  MaxSessions = 2
  MaxRows = 1
  MaxDue = 1
  MaxRestarts = 1
INVARIANTS TypeOK OnlyUnreachableSwept
PROPERTIES DeadCollected
