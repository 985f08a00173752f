SPECIFICATION FairSpec
CONSTANTS
  Agents <- MCAgents
  Rank <- MCRank
  Reviewer = "heckl"
  Cancellers = {c1, c2}
  Rerunners = {h1}
  Selections <- FirstSelections
  Stored <- FirstStored
  MaxRuns = 1
INVARIANTS TypeOK NoSpinner CancelReachesAgent
PROPERTIES NoLateProgress ReviewEnds
