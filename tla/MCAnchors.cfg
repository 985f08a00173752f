SPECIFICATION Spec
CONSTANTS
  Diffs <- MCDiffs
  Words <- MCWords
  OneLetter <- MCOneLetter
  DevNull <- MCDevNull
  Quoted <- MCQuoted
  Concerns <- MCConcerns
  MinAnchorLen = 2
  None = None
INVARIANTS IndexIsDiff ResolvedAsReported
