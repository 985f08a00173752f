SPECIFICATION FairSpec
CONSTANTS
  NoData = NoData
  PRs = {p1}
  TmuxPRs = {p1, p2}
  Orgs = {o1}
  Ids = {i1, i2}
  Pages <- MCPages
  PageSize = 1
  MaxActs = 3
  MaxFaults = 1
  x1 = x1
  x2 = x2
  Texts = {x1, x2}
  LangOf <- MCLangOf
  ImageOf <- MCImageOf
  Themes = {t1, t2}
  DefaultTheme = t1
  MaxTextActs = 3
  MaxTextFaults = 1
  DiffPRs = {d1, d2}
  NoView = NoView
  FilesOf <- MCFilesOf
  UpToColon <- MCUpToColon
  Answers <- MCAnswers
  MaxNoteActs = 3
  MaxNoteFaults = 1
INVARIANTS TypeOK FilterSettles AnnotationsPlaced KilledLeave
PROPERTIES TextsSettle RunningRowEnds 
CHECK_DEADLOCK FALSE
