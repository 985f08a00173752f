------------------------------ MODULE DiffView ------------------------------
(***************************************************************************)
(* The diff of a pull request as DiffView keeps it: the CodeView it builds *)
(* from a patch, the selected line, the files that are collapsed, and the  *)
(* search.  The state of the component is one record, and what an event or *)
(* an effect does to it is an operator on that record; PRDetail composes   *)
(* them in the order in which solid runs the effects.                      *)
(*                                                                         *)
(* A diff is the sequence of its files, with the lines and the hunks that  *)
(* parsePatchFiles of the library returns.  A text is the sequence of its  *)
(* letters, in lower case.  A dragged selection is its first line.         *)
(***************************************************************************)
EXTENDS Integers, SequencesExt

CONSTANTS
  PRs,
  NoPR,
  DiffOf,    \* the patch of each pull request, as parsePatchFiles reads it
  Queries,   \* what the user may search for, beside the empty text
  NoFile,
  NoLine

-----------------------------------------------------------------------------
(* What parsePatchFiles returns *)

Texts == Seq(STRING)

Blocks ==
  [type : {"context"}, lines : Nat, additionLineIndex : Nat, deletionLineIndex : Nat]
    \cup [type : {"change"}, deletions : Nat, additions : Nat,
          additionLineIndex : Nat, deletionLineIndex : Nat]
Hunks == [additionStart : Nat, deletionStart : Nat, hunkContent : Seq(Blocks)]
Files == [name : STRING, additionLines : Seq(Texts), deletionLines : Seq(Texts), hunks : Seq(Hunks)]

\* The lines of a block on either side.
Added(block)   == IF block.type = "context" THEN block.lines ELSE block.additions
Deleted(block) == IF block.type = "context" THEN block.lines ELSE block.deletions

\* The lines of a block are there, and the next block begins behind them on both sides.
WellFormed(file, content) ==
  \A k \in DOMAIN content :
    LET adds == content[k].additionLineIndex + Added(content[k])
        dels == content[k].deletionLineIndex + Deleted(content[k])
    IN  /\ adds <= Len(file.additionLines) /\ dels <= Len(file.deletionLines)
        /\ k + 1 \in DOMAIN content => /\ content[k + 1].additionLineIndex = adds
                                       /\ content[k + 1].deletionLineIndex = dels

ASSUME DiffsAssumption ==
  /\ DiffOf \in [PRs -> Seq(Files)] /\ Queries \subseteq Texts
  /\ \A p \in PRs : \A file \in Range(DiffOf[p]) : \A hunk \in Range(file.hunks) :
       WellFormed(file, hunk.hunkContent)

Names == [p \in PRs |-> {DiffOf[p][i].name : i \in DOMAIN DiffOf[p]}]

FileNames(p) == IF p = NoPR THEN {} ELSE Names[p]

-----------------------------------------------------------------------------
(* searchDiff *)

Line(side, line, text) == [side |-> side, line |-> line, text |-> text]

\* The lines of a block, from the line numbers it starts at; indices count from 0.
AdditionsOf(file, block, n, from) ==
  [i \in 1..n |-> Line("additions", from + i - 1, file.additionLines[block.additionLineIndex + i])]
DeletionsOf(file, block, n, from) ==
  [i \in 1..n |-> Line("deletions", from + i - 1, file.deletionLines[block.deletionLineIndex + i])]

\* additionLine and deletionLine after a block, and the lines up to it; and as if a
\* context line were none of the old file's.
AfterBlockOneSided(file, acc, block) ==
  IF block.type = "context"
  THEN [lines |-> acc.lines \o AdditionsOf(file, block, block.lines, acc.add),
        add |-> acc.add + block.lines, del |-> acc.del]
  ELSE [lines |-> acc.lines \o DeletionsOf(file, block, block.deletions, acc.del)
                            \o AdditionsOf(file, block, block.additions, acc.add),
        add |-> acc.add + block.additions, del |-> acc.del + block.deletions]

AfterBlock(file, acc, block) ==
  IF block.type = "context"
  THEN [lines |-> acc.lines \o AdditionsOf(file, block, block.lines, acc.add),
        add |-> acc.add + block.lines, del |-> acc.del + block.lines]
  ELSE [lines |-> acc.lines \o DeletionsOf(file, block, block.deletions, acc.del)
                            \o AdditionsOf(file, block, block.additions, acc.add),
        add |-> acc.add + block.additions, del |-> acc.del + block.deletions]

HunkLines(file, hunk) ==
  FoldLeft(LAMBDA acc, block : AfterBlock(file, acc, block),
           [lines |-> <<>>, add |-> hunk.additionStart, del |-> hunk.deletionStart],
           hunk.hunkContent).lines

FileLines(file) == FlattenSeq([h \in DOMAIN file.hunks |-> HunkLines(file, file.hunks[h])])

\* Every start of the needle that lies behind the match before it.
IsAt(text, needle, i) ==
  i + Len(needle) - 1 <= Len(text) /\ SubSeq(text, i, i + Len(needle) - 1) = needle

Columns(text, needle) ==
  FoldLeft(LAMBDA acc, i :
             IF i < acc.from \/ ~IsAt(text, needle, i) THEN acc
             ELSE [columns |-> Append(acc.columns, i), from |-> i + Len(needle)],
           [columns |-> <<>>, from |-> 1], [i \in 1..Len(text) |-> i]).columns

LineMatches(file, line, needle) ==
  LET columns == Columns(line.text, needle)
  IN  [k \in DOMAIN columns |->
         [file |-> file.name, line |-> line.line, side |-> line.side, column |-> columns[k]]]

FileMatches(file, needle) ==
  LET lines == FileLines(file)
  IN  FlattenSeq([k \in DOMAIN lines |-> LineMatches(file, lines[k], needle)])

SearchDiff(files, needle) ==
  IF needle = <<>> THEN <<>>
  ELSE FlattenSeq([f \in DOMAIN files |-> FileMatches(files[f], needle)])

-----------------------------------------------------------------------------
(* What a diff says of its lines, block by block: the number of a line is that of the first *)
(* line of its hunk, and as many more as lines of its side lie between them.                *)

BlockLines(file, hunk, block) ==
  LET first == hunk.hunkContent[1]
  IN  {Line("additions", hunk.additionStart + (block.additionLineIndex - first.additionLineIndex) + i - 1,
            file.additionLines[block.additionLineIndex + i]) : i \in 1..Added(block)}
      \cup IF block.type = "context" THEN {}
           ELSE {Line("deletions", hunk.deletionStart + (block.deletionLineIndex - first.deletionLineIndex) + i - 1,
                      file.deletionLines[block.deletionLineIndex + i]) : i \in 1..Deleted(block)}

Numbered(file) ==
  UNION {UNION {BlockLines(file, hunk, block) : block \in Range(hunk.hunkContent)}
          : hunk \in Range(file.hunks)}

Located(file, line) == [file |-> file.name, side |-> line.side, line |-> line.line, text |-> line.text]

Contents == [p \in PRs |-> UNION {{Located(file, line) : line \in Numbered(file)} : file \in Range(DiffOf[p])}]

-----------------------------------------------------------------------------
(* The state of the component; of is the pull request the CodeView was built for. *)

Position(m) == [file |-> m.file, line |-> m.line, side |-> m.side]

LinesOf ==
  [p \in PRs |-> UNION {{[file |-> DiffOf[p][f].name, line |-> l.line, side |-> l.side]
                          : l \in Range(FileLines(DiffOf[p][f]))} : f \in DOMAIN DiffOf[p]}]

AllLines == UNION Range(LinesOf)
AllFiles == UNION Range(Names)
Selected == AllLines \cup {NoLine}

View == [of : PRs \cup {NoPR}, rendered : BOOLEAN, collapsed : SUBSET AllFiles,
         sel : Selected, selectedFile : AllFiles \cup {NoFile},
         open : BOOLEAN, query : Queries \cup {<<>>}, index : Nat,
         searchSel : Selected, before : Selected]

NoView == [of |-> NoPR, rendered |-> FALSE, collapsed |-> {},
           sel |-> NoLine, selectedFile |-> NoFile,
           open |-> FALSE, query |-> <<>>, index |-> 0,
           searchSel |-> NoLine, before |-> NoLine]

MatchesIn ==
  [p \in PRs |-> [query \in Queries \cup {<<>>} |-> SearchDiff(DiffOf[p], query)]]

\* The memo of what the parsed files match.
Matches(v) == IF v.of = NoPR THEN <<>> ELSE MatchesIn[v.of][v.query]

\* Both the counter that is shown and the match that is selected; matches count from 0.
CurrentIndex(v) ==
  LET last == Len(Matches(v)) - 1
  IN  IF last < 0 THEN 0 ELSE IF v.index < last THEN v.index ELSE last

-----------------------------------------------------------------------------
(* The search *)

\* The selection goes back to what it was, if it is the search's own.
Restored(v) == IF v.searchSel # NoLine /\ v.sel = v.searchSel THEN v.before ELSE v.sel

CloseSearch(v) ==
  [v EXCEPT !.open = FALSE, !.query = <<>>, !.sel = Restored(v),
            !.searchSel = NoLine, !.before = NoLine]

\* The file is expanded, and its line selected without a notification.
SelectMatch(v, position) ==
  [v EXCEPT !.collapsed = @ \ {position.file}, !.sel = position, !.searchSel = position]

\* The effect on searchOpen, rendered, matches and currentIndex; and as if it left its
\* selection when nothing matches any more.
SearchEffectKeeping(v) ==
  IF v.open /\ v.rendered /\ Matches(v) # <<>>
  THEN SelectMatch(v, Position(Matches(v)[CurrentIndex(v) + 1])) ELSE v

SearchEffect(v) ==
  IF ~v.open \/ ~v.rendered THEN v
  ELSE IF Matches(v) = <<>> THEN [v EXCEPT !.sel = Restored(v), !.searchSel = NoLine]
  ELSE SelectMatch(v, Position(Matches(v)[CurrentIndex(v) + 1]))

\* setMatchIndex, whose effect runs when the index changes.
SetMatchIndex(v, i) == IF i = v.index THEN v ELSE SearchEffect([v EXCEPT !.index = i])

Input(v, query) == SearchEffect([SetMatchIndex(v, 0) EXCEPT !.query = query])

MoveMatch(v, step) ==
  LET n == Len(Matches(v))
  IN  IF n = 0 THEN v ELSE SetMatchIndex(v, (CurrentIndex(v) + step + n) % n)

\* "/": what is selected is remembered, also when the search is open already.
OpenSearch(v) ==
  LET w == [v EXCEPT !.before = v.sel, !.open = TRUE]
  IN  IF v.open THEN w ELSE SearchEffect(w)

-----------------------------------------------------------------------------
(* The view *)

\* A new CodeView for the patch: nothing selected, nothing collapsed; and as if the files
\* stayed collapsed.
RebuiltFolded(v, p) ==
  [v EXCEPT !.of = p, !.rendered = TRUE, !.sel = NoLine,
            !.selectedFile = NoFile, !.searchSel = NoLine, !.before = NoLine]

Rebuilt(v, p) ==
  [v EXCEPT !.of = p, !.rendered = TRUE, !.collapsed = {}, !.sel = NoLine,
            !.selectedFile = NoFile, !.searchSel = NoLine, !.before = NoLine]

\* The effect on owner, repo and prNumber; and as if what is rendered stayed so.
ClosedOnly(v) == CloseSearch(v)
Departed(v)   == [CloseSearch(v) EXCEPT !.rendered = FALSE]

ToggleCollapsed(v, file) ==
  IF file \notin FileNames(v.of) THEN v
  ELSE [v EXCEPT !.collapsed = IF file \in @ THEN @ \ {file} ELSE @ \cup {file}]

\* The effects on focus and fileFocus, once there is a patch.
FocusEffect(v, target) ==
  IF target = NoLine THEN v
  ELSE IF target.file \notin FileNames(v.of) THEN v
  ELSE [v EXCEPT !.collapsed = @ \ {target.file}, !.sel = target, !.selectedFile = target.file]

FileFocusEffect(v, file) == [v EXCEPT !.collapsed = @ \ {file}]

\* The patch arrives, or the page moves to one that is there: the view is built, then
\* the two effects on patchData run, and last the one setRendered makes run.
Arrived(v, p, target, file) ==
  SearchEffect(FileFocusEffect(FocusEffect(Rebuilt(v, p), target), file))

\* Another theme: the view is built again, and neither focus nor patchData changed.
Themed(v) == SearchEffect(Rebuilt(v, v.of))

\* A click on a line number of the library: the line that is selected is deselected.
Clickable(v) == IF v.of = NoPR THEN {} ELSE {l \in LinesOf[v.of] : l.file \notin v.collapsed}

Deselects(v, line) == v.sel = line

\* onSelectedLinesChange, for its own state.
Clicked(v, line) ==
  IF Deselects(v, line) THEN [v EXCEPT !.sel = NoLine, !.selectedFile = NoFile]
  ELSE [v EXCEPT !.sel = line, !.selectedFile = line.file]
=============================================================================
