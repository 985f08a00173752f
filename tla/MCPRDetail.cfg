SPECIFICATION FairSpec
CONSTANTS
  PRs = {"p1", "p2"}
  NoPR = NoPR
  NoFile = NoFile
  NoLine = NoLine
  DiffOf <- MCDiffOf
  Queries <- MCQueries
  Targets <- MCTargets
  MaxActs = 5
  MaxFaults = 1
INVARIANTS TypeOK RenderedIsOfPage SearchShowsItsMatch MatchesAreInFiles AnchorIsTarget
PROPERTIES LocateEnds
CHECK_DEADLOCK FALSE
