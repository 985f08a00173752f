SPECIFICATION Spec
CONSTANTS
  Agents <- MCAgents
  Rank <- MCRank
  Reviewer = "heckl"
  Cancellers = {c1}
  Rerunners = {h1}
  Selections <- RerunSelections
  Stored <- RerunStored
  MaxRuns = 2
PROPERTIES CancelledRerunPersistsNothing
