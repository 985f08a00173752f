------------------------------ MODULE Anchors ------------------------------
(***************************************************************************)
(* Where a concern lies: parseDiffIndex numbers the lines of the diff, and *)
(* resolve pins each concern an agent reports to one of them, by its       *)
(* anchor, by the line it claims, or to the file.                          *)
(*                                                                         *)
(* A path is the sequence of its segments and a text that of its words,    *)
(* with a word for a byte; the blanks that TrimSpace takes off are left    *)
(* out.  The mark of a line is the first prefix the cases of the parser    *)
(* ask for that it has: diff ("diff --git"), path ("+++"), hunk ("@@"),    *)
(* added ("+"), deleted ("-") and context (" "); and note if it has none   *)
(* of them ("\", and the "diff --cc" of a merge).  Line 0 stands for a nil *)
(* line.                                                                   *)
(***************************************************************************)
EXTENDS Integers, SequencesExt, FiniteSetsExt

CONSTANTS
  Diffs,         \* each a sequence of files with their hunks
  Words,         \* the segments of paths, and the words of texts
  OneLetter,     \* the segments of one letter, with which a path may begin
  DevNull,       \* the path /dev/null
  Quoted,        \* by side and path: what git prints of a path that it puts in quotes
  Concerns,      \* what agents may report
  MinAnchorLen,
  None           \* no concern has been resolved

Additions == "additions"
Deletions == "deletions"
AnySide == ""

Paths  == Seq(Words)
Texts  == Seq(Words)
NoFile == <<>>

Lines == [mark : {"added", "deleted", "context", "note"}, text : Texts]
Hunks == [old : Nat, new : Nat, lines : Seq(Lines)]
\* A file of a merge has a combined diff.
Files == [old : Paths, new : Paths, combined : BOOLEAN, hunks : Seq(Hunks)]

\* A path as a header has it, and as the index has that of the new side.
Spelled(side, path) ==
  IF path = DevNull THEN path
  ELSE IF <<side, path>> \in DOMAIN Quoted THEN Quoted[side, path]
  ELSE <<side>> \o path
NameOf(f) == IF <<"b", f.new>> \in DOMAIN Quoted THEN Quoted["b", f.new] ELSE f.new

ASSUME AnchorsAssumption ==
  /\ {"a", "b"} \subseteq OneLetter /\ {"a", "b", "--"} \subseteq Words /\ MinAnchorLen \in Nat
  /\ DevNull \in Paths /\ DevNull # NoFile /\ DevNull[1] # "b"
  /\ \A q \in DOMAIN Quoted :
       Quoted[q] \in Paths \ {NoFile, DevNull} /\ Quoted[q][1] \notin OneLetter
  /\ Concerns \subseteq [file : Paths, line : Nat, side : {AnySide, Additions, Deletions}, anchor : Texts]

\* What git prints: a file once, by its paths, and a start of 0 for a side without lines.  The
\* header of a combined hunk does not parse: both its starts are 0.
ASSUME DiffsAssumption ==
  \A d \in Diffs :
    /\ d \in Seq(Files)
    /\ \A i, j \in DOMAIN d : NameOf(d[i]) = NameOf(d[j]) /\ d[i].new # DevNull => i = j
    /\ \A i \in DOMAIN d :
       /\ d[i].new # NoFile /\ (d[i].combined => d[i].hunks # <<>>)
       /\ \A k \in DOMAIN d[i].hunks :
           LET h == d[i].hunks[k]
           IN  h.old + h.new # 0 =>
                 \A l \in DOMAIN h.lines :
                   /\ h.lines[l].mark \in {"deleted", "context"} => h.old # 0
                   /\ h.lines[l].mark \in {"added", "context"} => h.new # 0

VARIABLES
  diff,      \* the diff of the pull request
  at,        \* its line that is read next: of which file, in which hunk (0: the header), which one
  file, oldLine, newLine,
  index,     \* by path: the lines read so far, each a side, a number and a text
  scan,      \* of the concern that is being resolved: the lines still to be scored, the best so far
  result     \* the concern that was just resolved, and as what

parser == <<at, file, oldLine, newLine, index>>
vars == <<diff, at, file, oldLine, newLine, index, scan, result>>

-----------------------------------------------------------------------------
(* What git prints of a file: its header, with its paths if a text changes, and its hunks. *)

Raw(mark, text) == [mark |-> mark, text |-> text]

Header(f) ==
  LET first == Raw(IF f.combined THEN "note" ELSE "diff", <<>>)
  IN  IF f.hunks = <<>> THEN <<first>>
      ELSE <<first, Raw("deleted", <<"--">> \o Spelled("a", f.old)), Raw("path", Spelled("b", f.new))>>

\* An added line that begins with "++ " reads as a path, as "--- " reads as a deleted line.
PrintedLine(l) ==
  IF l.mark = "added" /\ l.text # <<>> /\ l.text[1] = "++" THEN Raw("path", Tail(l.text)) ELSE l

Printed(f, hunk, line) ==
  IF hunk = 0 THEN Header(f)[line]
  ELSE IF line = 0 THEN Raw("hunk", <<>>)
  ELSE PrintedLine(f.hunks[hunk].lines[line])

After(d, p) ==
  LET f == d[p.file]
      last == IF p.hunk = 0 THEN Len(Header(f)) ELSE Len(f.hunks[p.hunk].lines)
  IN  IF p.line < last THEN [p EXCEPT !.line = @ + 1]
      ELSE IF p.hunk < Len(f.hunks) THEN [p EXCEPT !.hunk = @ + 1, !.line = 0]
      ELSE [file |-> p.file + 1, hunk |-> 0, line |-> 1]

AllRead == at.file > Len(diff)

raw == Printed(diff[at.file], at.hunk, at.line)

-----------------------------------------------------------------------------
(* parseDiffIndex *)

TrimDiffPath(path) ==
  IF path = DevNull THEN NoFile
  ELSE IF Len(path) > 1 /\ path[1] \in OneLetter THEN Tail(path)
  ELSE path

Init ==
  /\ diff \in Diffs
  /\ at = [file |-> 1, hunk |-> 0, line |-> 1]
  /\ file = NoFile /\ oldLine = 0 /\ newLine = 0
  /\ index = [f \in {} |-> <<>>]
  /\ scan = None /\ result = None

Read(marks) ==
  /\ ~AllRead /\ raw.mark \in marks
  /\ at' = After(diff, at)
  /\ UNCHANGED <<diff, scan, result>>

FileHeader ==
  /\ Read({"diff"})
  /\ file' = NoFile /\ oldLine' = 0 /\ newLine' = 0
  /\ UNCHANGED index

\* A file that was seen before keeps its lines.
Path ==
  /\ Read({"path"})
  /\ file' = TrimDiffPath(raw.text)
  /\ index' = IF file' = NoFile \/ file' \in DOMAIN index THEN index
              ELSE [f \in DOMAIN index \cup {file'} |-> IF f = file' THEN <<>> ELSE index[f]]
  /\ UNCHANGED <<oldLine, newLine>>

Hunk ==
  /\ Read({"hunk"})
  /\ LET h == diff[at.file].hunks[at.hunk] IN oldLine' = h.old /\ newLine' = h.new
  /\ UNCHANGED <<file, index>>

Outside == file = NoFile \/ (oldLine = 0 /\ newLine = 0)

Skipped ==
  /\ Read({"added", "deleted", "context", "note"})
  /\ Outside \/ raw.mark = "note"
  /\ UNCHANGED <<file, oldLine, newLine, index>>

Indexes(side, number) ==
  index' = [index EXCEPT ![file] =
              Append(@, [side |-> side, number |-> number, text |-> raw.text])]

Added ==
  /\ Read({"added"}) /\ ~Outside
  /\ Indexes(Additions, newLine)
  /\ newLine' = newLine + 1
  /\ UNCHANGED <<file, oldLine>>

Deleted ==
  /\ Read({"deleted"}) /\ ~Outside
  /\ Indexes(Deletions, oldLine)
  /\ oldLine' = oldLine + 1
  /\ UNCHANGED <<file, newLine>>

\* As if a line of context counted for the new file alone.
ContextOfNew ==
  /\ Read({"context"}) /\ ~Outside
  /\ Indexes(Additions, newLine)
  /\ newLine' = newLine + 1
  /\ UNCHANGED <<file, oldLine>>

Context ==
  /\ Read({"context"}) /\ ~Outside
  /\ Indexes(Additions, newLine)
  /\ oldLine' = oldLine + 1 /\ newLine' = newLine + 1
  /\ UNCHANGED file

-----------------------------------------------------------------------------
(* resolve *)

\* The files a name may be taken for: a map has no order, any candidate may come first.  No
\* path ends like an empty one.
LookupFile(name) ==
  LET path == TrimDiffPath(name)
      related == {f \in DOMAIN index :
                    path # NoFile /\ (IsStrictSuffix(path, f) \/ IsStrictSuffix(f, path))}
  IN IF path \in DOMAIN index THEN {path} ELSE related

HasPart(text, part) ==
  \E i \in 1..Len(text) : i + Len(part) - 1 <= Len(text) /\ SubSeq(text, i, i + Len(part) - 1) = part

\* 3: exact, 2: contains the anchor, 1: covers at least half of it, 0: none.
ScoreAnchor(text, anchor) ==
  Max({0} \cup {n \in 1..3 : text # <<>> /\
                 \/ n = 3 /\ text = anchor
                 \/ n = 2 /\ HasPart(text, anchor)
                 \/ n = 1 /\ Len(text) * 2 >= Len(anchor) /\ HasPart(anchor, text)})

Distance(a, b) == IF a > b THEN a - b ELSE b - a

OnSide(l, side) == side = AnySide \/ l.side = side

NoMatch == [score |-> 0, line |-> [side |-> AnySide, number |-> 0, text |-> <<>>]]

\* The file is found, and the scan of its lines begins; an anchor that is too short is not
\* looked for.
Lookup(c, f) ==
  /\ AllRead /\ scan = None /\ result = None
  /\ f \in LookupFile(c.file)
  /\ scan' = [claim |-> c, file |-> f, best |-> NoMatch,
              lines |-> IF Len(c.anchor) >= MinAnchorLen THEN index[f] ELSE <<>>]
  /\ UNCHANGED <<diff, parser, result>>

UnknownFile(c) ==
  /\ AllRead /\ scan = None /\ result = None
  /\ LookupFile(c.file) = {}
  /\ result' = [claim |-> c, to |-> [file |-> TrimDiffPath(c.file), line |-> 0, side |-> AnySide]]
  /\ UNCHANGED <<diff, parser, scan>>

\* As if the last of the lines that are as near were taken.
BetterOrEqual(l, score) ==
  \/ score > scan.best.score
  \/ /\ score = scan.best.score /\ scan.claim.line # 0
     /\ Distance(l.number, scan.claim.line) <= Distance(scan.best.line.number, scan.claim.line)

\* A line replaces the best so far with a higher score, or nearer to the claimed line.
Better(l, score) ==
  \/ score > scan.best.score
  \/ /\ score = scan.best.score /\ scan.claim.line # 0
     /\ Distance(l.number, scan.claim.line) < Distance(scan.best.line.number, scan.claim.line)

BestAnchorMatch ==
  /\ scan # None /\ scan.lines # <<>>
  /\ LET l == Head(scan.lines)
         score == ScoreAnchor(l.text, scan.claim.anchor)
         match == IF OnSide(l, scan.claim.side) /\ score # 0 /\ Better(l, score)
                  THEN [score |-> score, line |-> l] ELSE scan.best
     IN scan' = [scan EXCEPT !.lines = Tail(@), !.best = match]
  /\ UNCHANGED <<diff, parser, result>>

\* The place of the claimed line, 0 if it is not in the diff.
Claimed(c, lines) ==
  SelectInSeq(lines, LAMBDA l : c.line # 0 /\ l.number = c.line /\ OnSide(l, c.side))

Resolves(line, side) ==
  /\ result' = [claim |-> scan.claim, to |-> [file |-> scan.file, line |-> line, side |-> side]]
  /\ scan' = None
  /\ UNCHANGED <<diff, parser>>

Scanned == scan # None /\ scan.lines = <<>>

ByAnchor ==
  /\ Scanned /\ scan.best # NoMatch
  /\ Resolves(scan.best.line.number, scan.best.line.side)

ByClaim ==
  /\ Scanned /\ scan.best = NoMatch
  /\ LET i == Claimed(scan.claim, index[scan.file])
     IN i # 0 /\ Resolves(scan.claim.line, index[scan.file][i].side)

FileLevel ==
  /\ Scanned /\ scan.best = NoMatch
  /\ Claimed(scan.claim, index[scan.file]) = 0
  /\ Resolves(0, AnySide)

\* The concern is appended to those of the review; the next is resolved on its own.
Collected ==
  /\ result # None
  /\ result' = None
  /\ UNCHANGED <<diff, parser, scan>>

Next ==
  \/ FileHeader \/ Path \/ Hunk \/ Skipped \/ Added \/ Deleted \/ Context
  \/ \E c \in Concerns : UnknownFile(c) \/ \E f \in DOMAIN index : Lookup(c, f)
  \/ BestAnchorMatch \/ ByAnchor \/ ByClaim \/ FileLevel
  \/ Collected

Spec == Init /\ [][Next]_vars

-----------------------------------------------------------------------------
(* Properties *)

\* The files of the diff that have a new side and a text that changes.
Shown == {f \in ToSet(diff) : f.new # DevNull /\ f.hunks # <<>>}

\* A line of a hunk lies as far behind its start as lines of its side precede it.
NumberOf(h, i) ==
  LET Before(marks) == Quantify(1..(i - 1), LAMBDA j : h.lines[j].mark \in marks)
  IN IF h.lines[i].mark = "deleted" THEN h.old + Before({"deleted", "context"}) ELSE h.new + Before({"added", "context"})

\* The numbered lines of a file: those of its hunks, but what git says of its last line and
\* the hunks of a merge.
LinesOf(f) ==
  UNION {{[side |-> IF h.lines[i].mark = "deleted" THEN Deletions ELSE Additions,
           number |-> NumberOf(h, i), text |-> h.lines[i].text] :
             i \in {j \in DOMAIN h.lines : h.lines[j].mark # "note"}} :
         h \in {g \in ToSet(f.hunks) : g.old # 0 \/ g.new # 0}}

\* A merge does not start with a line the parser knows: its old path reads as one more deleted
\* line of the file before it, if that ends in a hunk with numbers.
MergeBehind(f) ==
  LET last == Last(f.hunks)
      end  == last.old + Quantify(DOMAIN last.lines, LAMBDA l : last.lines[l].mark \in {"deleted", "context"})
  IN  {[side |-> Deletions, number |-> end, text |-> <<"--">> \o Spelled("a", diff[i + 1].old)] :
         i \in {j \in 1..(Len(diff) - 1) :
                  diff[j] = f /\ diff[j + 1].combined /\ (last.old # 0 \/ last.new # 0)}}

\* The index has nothing but the files of the diff, each under its name or what git makes of
\* one it quotes, with lines of its own hunks under the numbers they have in the file, and once
\* the diff is read it has them all: but for the header of a merge no header is taken for a
\* line, no line for another file's, and the two counters stay in step (parseDiffIndex).
IndexIsDiff ==
  /\ \A path \in DOMAIN index \cup ({file} \ {NoFile}) : \E f \in Shown : NameOf(f) = path
  /\ \A f \in Shown :
       LET lines == IF NameOf(f) \in DOMAIN index THEN index[NameOf(f)] ELSE <<>>
       IN ToSet(lines) \subseteq LinesOf(f) \cup MergeBehind(f)
          /\ (AllRead => ToSet(lines) = LinesOf(f) \cup MergeBehind(f))

\* The concern is on a line that is in the diff of its file, on the side it was reported for,
\* or on the file.
PlacedInDiff(c, to) ==
  IF to.line = 0 THEN to.side = AnySide
  ELSE \E f \in Shown :
         /\ NameOf(f) = to.file
         /\ \E l \in LinesOf(f) : l.number = to.line /\ l.side = to.side /\ OnSide(l, c.side)

\* No line of the side matches better, and of those that match as well none is nearer to the
\* claimed line, nor as near and before it in the diff.
PinnedToBest(c, to) ==
  LET lines == index[to.file]
      Score(i) == IF OnSide(lines[i], c.side) THEN ScoreAnchor(lines[i].text, c.anchor) ELSE 0
      Off(i) == IF c.line = 0 THEN 0 ELSE Distance(lines[i].number, c.line)
      Beats(i, j) ==
        \/ Score(i) > Score(j)
        \/ Score(i) = Score(j) /\ (Off(i) < Off(j) \/ (Off(i) = Off(j) /\ i < j))
  IN (\E i \in DOMAIN lines : Score(i) > 0) =>
       \E i \in DOMAIN lines :
         /\ Score(i) > 0 /\ \A j \in DOMAIN lines \ {i} : ~Beats(j, i)
         /\ lines[i].number = to.line /\ lines[i].side = to.side

\* A concern that gives the path of a file as the "+++" line of the diff has it is of that file,
\* though another's path may end the same way; and so is one that gives it without the "b/" if
\* git does not quote it and its first directory has more than one letter.
OfNamedFile(c, to) ==
  \A f \in Shown :
    \/ c.file = Spelled("b", f.new)
    \/ c.file = f.new /\ f.new = NameOf(f) /\ (Len(f.new) > 1 => f.new[1] \notin OneLetter)
    => to.file = NameOf(f)

\* Whatever an agent gets wrong of line, side and anchor, its concern is in the file whose path
\* it gives in one of these two forms; and whatever it gives for a path, on the best line for
\* its anchor of the file it is put in, and never on a line the diff does not have, where it
\* would not be drawn.  A diff with a merge is left out (resolve, lookupFile, bestAnchorMatch).
ResolvedAsReported ==
  result # None /\ (\A f \in ToSet(diff) : ~f.combined) =>
    LET c == result.claim
        to == result.to
    IN /\ PlacedInDiff(c, to) /\ OfNamedFile(c, to)
       /\ to.file \in DOMAIN index /\ Len(c.anchor) >= MinAnchorLen => PinnedToBest(c, to)

\* As if that no concern is on a line the diff does not have were so of merges as well.
PlacedInMerges == result # None => PlacedInDiff(result.claim, result.to)

\* "The exact source text of that line, copied verbatim from the diff ... is what pins the
\* concern to a location" (internal/bundle/tools/report.ts:21): a concern with the file, the
\* side and the whole text of a line, long enough, lies on a line with this text.
AnchorPins ==
  result # None =>
    \A f \in Shown :
      LET its == {l \in LinesOf(f) : l.side = result.claim.side /\ l.text = result.claim.anchor}
      IN (result.claim.file = Spelled("b", f.new) /\ Len(result.claim.anchor) >= MinAnchorLen /\ its # {})
           => \E l \in its : l.number = result.to.line
=============================================================================
