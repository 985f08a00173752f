SPECIFICATION Spec
CONSTANTS
  p1 = p1
  p2 = p2
  p3 = p3
  s1 = s1
  s2 = s2
  s3 = s3
  PRs = {p1, p2, p3}
  Shas = {s1, s2, s3}
  Commits <- MCCommits
  Existing <- MCExisting
  Users <- OneOfEach
  Jobs = {job}
  Closers = {closer}
  Cleaners = {cleaner}
  Selections <- MCSelections
  PageSize = 2
  MaxMoves = 1
CONSTRAINT TwoAtATime
INVARIANTS TypeOK SweepSparesConsumers OpenHeadKept
SYMMETRY Symmetry
