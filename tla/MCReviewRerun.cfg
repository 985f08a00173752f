SPECIFICATION Spec
CONSTANTS
  Agents <- MCAgents
  Rank <- MCRank
  Reviewer = "heckl"
  Cancellers = {c1}
  Rerunners = {h1}
  Selections <- RerunSelections
  Stored <- RerunStored
  MaxRuns = 3
INVARIANTS SingleFlight OnlyRerunRewritten ConcernsHaveTheirReport FinalMatchesStore
PROPERTIES ImplementsLife
