SPECIFICATION FairSpec
CONSTANTS
  p1 = p1
  p2 = p2
  PRs = {p1, p2}
  Reviewed = {p1}
  NoPR = NoPR
  Retries = 1
  MaxRuns <- MCRuns
  MaxCalls = 1
  MaxFaults = 2
PROPERTIES  CatchesUp
INVARIANTS TypeOK ShownIsOfPage
