--------------------------- MODULE AnchorsProofs ---------------------------
(***************************************************************************)
(* For any concerns and length of an anchor, and any diffs without merges  *)
(* and without added lines that read as paths: the index numbers the lines *)
(* of the diff, and a concern lies on the best of them.                    *)
(***************************************************************************)
EXTENDS Anchors, SequenceTheorems, FiniteSetTheorems, WellFoundedInduction, TLAPS

Sides == {Additions, Deletions}
Indexed == [side : Sides, number : Nat, text : Texts]
Claims == [file : Paths, line : Nat, side : Sides \cup {AnySide}, anchor : Texts]

-----------------------------------------------------------------------------
(* How well a line matches *)

\* What the scan compares of a line: its score, on the side of the concern, and how far it
\* is from the line that is claimed.
ScoreOf(c, l) == IF OnSide(l, c.side) THEN ScoreAnchor(l.text, c.anchor) ELSE 0
OffOf(c, l)   == IF c.line = 0 THEN 0 ELSE Distance(l.number, c.line)

BeatsIn(c, lines, i, j) ==
  \/ ScoreOf(c, lines[i]) > ScoreOf(c, lines[j])
  \/ /\ ScoreOf(c, lines[i]) = ScoreOf(c, lines[j])
     /\ \/ OffOf(c, lines[i]) < OffOf(c, lines[j])
        \/ OffOf(c, lines[i]) = OffOf(c, lines[j]) /\ i < j

\* The best of the first n lines, or none if none of them matches.
BestOf(c, lines, n, best) ==
  \/ best = NoMatch /\ \A i \in 1..n : ScoreOf(c, lines[i]) = 0
  \/ \E i \in 1..n : /\ best = [score |-> ScoreOf(c, lines[i]), line |-> lines[i]]
                     /\ ScoreOf(c, lines[i]) > 0
                     /\ \A j \in (1..n) \ {i} : ~BeatsIn(c, lines, j, i)

\* A score is one of four: what ScoreAnchor takes the maximum of is never empty
\* (scoreAnchor).
LEMMA ScoreType ==
  ASSUME NEW text, NEW anchor
  PROVE  ScoreAnchor(text, anchor) \in 0..3
  <1> DEFINE S == {0} \cup {n \in 1..3 : text # <<>> /\
                    \/ n = 3 /\ text = anchor
                    \/ n = 2 /\ HasPart(text, anchor)
                    \/ n = 1 /\ Len(text) * 2 >= Len(anchor) /\ HasPart(anchor, text)}
  <1>1. S \subseteq 0..3 /\ 0 \in S
    OBVIOUS
  <1>2. ScoreAnchor(text, anchor) = Max(S)
    BY DEF ScoreAnchor
  <1> HIDE DEF S
  <1>3. \E x \in S : \A y \in S : x >= y
    <2>1. CASE 3 \in S  BY <1>1, <2>1
    <2>2. CASE 3 \notin S /\ 2 \in S  BY <1>1, <2>2
    <2>3. CASE 3 \notin S /\ 2 \notin S /\ 1 \in S  BY <1>1, <2>3
    <2>4. CASE 3 \notin S /\ 2 \notin S /\ 1 \notin S  BY <1>1, <2>4
    <2> QED  BY <2>1, <2>2, <2>3, <2>4
  <1>4. Max(S) \in S
    BY <1>3 DEF Max
  <1> QED  BY <1>1, <1>2, <1>4

LEMMA ScoreOfType ==
  ASSUME NEW c, NEW l
  PROVE  ScoreOf(c, l) \in 0..3
  BY ScoreType DEF ScoreOf

LEMMA OffOfType ==
  ASSUME NEW c \in Claims, NEW l \in Indexed
  PROVE  OffOf(c, l) \in Nat
  BY DEF OffOf, Distance, Claims, Indexed

\* One more line is scored: the best of n + 1 lines is that of n, or the new one
\* (bestAnchorMatch).
LEMMA BestStep ==
  ASSUME NEW c \in Claims, NEW lines \in Seq(Indexed), NEW n \in Nat, n < Len(lines),
         NEW best, BestOf(c, lines, n, best),
         NEW match,
         LET l == lines[n + 1]
             score == ScoreAnchor(l.text, c.anchor)
         IN  match = IF /\ OnSide(l, c.side) /\ score # 0
                        /\ \/ score > best.score
                           \/ /\ score = best.score /\ c.line # 0
                              /\ Distance(l.number, c.line) < Distance(best.line.number, c.line)
                     THEN [score |-> score, line |-> l] ELSE best
  PROVE  BestOf(c, lines, n + 1, match)
  <1> DEFINE I == 1..(n + 1)
             S == [i \in I |-> ScoreOf(c, lines[i])]
             D == [i \in I |-> OffOf(c, lines[i])]
             Beats(i, j) == S[i] > S[j] \/ (S[i] = S[j] /\ (D[i] < D[j] \/ (D[i] = D[j] /\ i < j)))
             new == [score |-> S[n + 1], line |-> lines[n + 1]]
  <1>1. \A i \in I : lines[i] \in Indexed
    OBVIOUS
  <1>2. S \in [I -> 0..3] /\ D \in [I -> Nat]
    BY <1>1, ScoreOfType, OffOfType
  <1>3. I = (1..n) \cup {n + 1} /\ n + 1 \in I /\ n + 1 \notin 1..n /\ 1..n \subseteq I
    OBVIOUS
  <1>4. \A i, j \in I : BeatsIn(c, lines, i, j) <=> Beats(i, j)
    BY DEF BeatsIn
  <1>5. \A i \in I : S[i] = ScoreOf(c, lines[i]) /\ (c.line = 0 => D[i] = 0)
    BY DEF OffOf
  <1>6. c.line # 0 => \A i \in I : D[i] = Distance(lines[i].number, c.line)
    BY DEF OffOf
  <1>7. ASSUME NEW m \in {n, n + 1}, NEW b
        PROVE  BestOf(c, lines, m, b) <=>
                 \/ b = NoMatch /\ \A i \in 1..m : S[i] = 0
                 \/ \E i \in 1..m : /\ b = [score |-> S[i], line |-> lines[i]]
                                    /\ S[i] > 0 /\ \A j \in (1..m) \ {i} : ~Beats(j, i)
    <2>1. 1..m \subseteq I  OBVIOUS
    <2> QED  BY <1>4, <1>5, <2>1, Zenon DEF BestOf
  <1>8. match = IF /\ OnSide(lines[n + 1], c.side) /\ ScoreAnchor(lines[n + 1].text, c.anchor) # 0
                   /\ \/ ScoreAnchor(lines[n + 1].text, c.anchor) > best.score
                      \/ /\ ScoreAnchor(lines[n + 1].text, c.anchor) = best.score /\ c.line # 0
                         /\ Distance(lines[n + 1].number, c.line) < Distance(best.line.number, c.line)
                THEN [score |-> ScoreAnchor(lines[n + 1].text, c.anchor), line |-> lines[n + 1]] ELSE best
    OBVIOUS
  <1>9. S[n + 1] = IF OnSide(lines[n + 1], c.side)
                   THEN ScoreAnchor(lines[n + 1].text, c.anchor) ELSE 0
    BY <1>3, <1>5 DEF ScoreOf
  <1> HIDE DEF I, S, D
  <1>t. \A i \in I : S[i] \in Nat /\ D[i] \in Nat
    BY <1>2
  <1>10. CASE best = NoMatch /\ \A i \in 1..n : S[i] = 0
    <2>1. match = IF S[n + 1] # 0 THEN new ELSE NoMatch
      BY <1>2, <1>3, <1>8, <1>9, <1>10 DEF NoMatch
    <2>2. CASE S[n + 1] = 0
      BY <1>3, <1>7, <1>10, <2>1, <2>2
    <2>3. CASE S[n + 1] # 0
      <3>1. S[n + 1] > 0 /\ \A j \in I \ {n + 1} : ~Beats(j, n + 1)
        BY <1>2, <1>3, <1>10, <2>3
      <3> QED  BY <1>3, <1>7, <2>1, <2>3, <3>1 DEF I
    <2> QED  BY <2>2, <2>3
  <1>11. ASSUME NEW i \in 1..n, best = [score |-> S[i], line |-> lines[i]], S[i] > 0,
                \A j \in (1..n) \ {i} : ~Beats(j, i)
         PROVE  BestOf(c, lines, n + 1, match)
    <2> DEFINE better == S[n + 1] > S[i] \/ (S[n + 1] = S[i] /\ c.line # 0 /\ D[n + 1] < D[i])
    <2>1. i \in I /\ i # n + 1 /\ best.score = S[i] /\ best.line = lines[i]
      BY <1>3, <1>11
    <2>2. match = IF better THEN new ELSE best
      BY <1>2, <1>3, <1>6, <1>8, <1>9, <1>11, <2>1
    <2>3. CASE better
      <3>1. S[n + 1] > 0 /\ (S[n + 1] > S[i] \/ (S[n + 1] = S[i] /\ D[n + 1] < D[i]))
        BY <1>2, <1>3, <1>11, <2>1, <2>3
      <3>2. ASSUME NEW j \in I \ {n + 1}  PROVE  ~Beats(j, n + 1)
        <4>1. S[n + 1] \in Nat /\ S[i] \in Nat /\ S[j] \in Nat /\ D[n + 1] \in Nat /\ D[i] \in Nat /\ D[j] \in Nat
          BY <1>t, <1>3, <2>1
        <4>2. j = i \/ ~Beats(j, i)  BY <1>3, <1>11
        <4> QED  BY <3>1, <4>1, <4>2
      <3> QED  BY <1>3, <1>7, <2>2, <2>3, <3>1, <3>2 DEF I
    <2>4. CASE ~better
      <3>1. \A j \in I \ {i} : ~Beats(j, i)
        BY <1>2, <1>3, <1>5, <1>11, <2>1, <2>4
      <3> QED  BY <1>3, <1>7, <1>11, <2>1, <2>2, <2>4, <3>1 DEF I
    <2> QED  BY <2>3, <2>4
  <1> QED  BY <1>7, <1>10, <1>11

-----------------------------------------------------------------------------
(* The diff as it is printed *)

theFile == diff[at.file]
theHunk == theFile.hunks[at.hunk]

Placed ==
  /\ at \in [file : 1..(Len(diff) + 1), hunk : Nat, line : Nat]
  /\ AllRead => at.hunk = 0 /\ at.line = 1
  /\ ~AllRead => /\ at.hunk \in 0..Len(theFile.hunks)
                 /\ at.hunk = 0 => at.line \in 1..Len(Header(theFile))
                 /\ at.hunk # 0 => at.line \in 0..Len(theHunk.lines)

Read1 == ~AllRead /\ at' = After(diff, at) /\ diff' = diff

LEMMA DiffType ==
  ASSUME diff \in Diffs, Placed
  PROVE  /\ Len(diff) \in Nat
         /\ \A i \in DOMAIN diff : diff[i] \in Files
         /\ ~AllRead => /\ at.file \in DOMAIN diff /\ theFile \in Files /\ theFile.new # NoFile
                        /\ Len(theFile.hunks) \in Nat
                        /\ at.hunk # 0 => at.hunk \in DOMAIN theFile.hunks /\ theHunk \in Hunks /\ Len(theHunk.lines) \in Nat
  <1>1. diff \in Seq(Files)  BY DiffsAssumption
  <1>2. Len(diff) \in Nat /\ DOMAIN diff = 1..Len(diff) /\ \A i \in DOMAIN diff : diff[i] \in Files
    BY <1>1
  <1>3. ASSUME ~AllRead
        PROVE  /\ at.file \in DOMAIN diff /\ theFile \in Files /\ theFile.new # NoFile
               /\ theFile.hunks \in Seq(Hunks) /\ at.hunk \in 0..Len(theFile.hunks)
    <2>1. at.file \in DOMAIN diff  BY <1>2, <1>3 DEF Placed, AllRead
    <2>2. theFile \in Files  BY <1>2, <2>1 DEF theFile
    <2> QED  BY <1>3, <2>1, <2>2, DiffsAssumption DEF Files, Placed, theFile
  <1>4. ASSUME ~AllRead, at.hunk # 0
        PROVE  at.hunk \in DOMAIN theFile.hunks /\ theHunk \in Hunks
    BY <1>3, <1>4 DEF theHunk
  <1>5. \A g \in Hunks : Len(g.lines) \in Nat  BY DEF Hunks
  <1> QED  BY <1>2, <1>3, <1>4, <1>5

LEMMA Joined ==
  ASSUME NEW e \in Words, NEW s \in Seq(Words)
  PROVE  /\ <<e>> \o s \in Seq(Words) /\ Len(<<e>> \o s) = Len(s) + 1
         /\ (<<e>> \o s)[1] = e /\ Tail(<<e>> \o s) = s
  <1>1. <<e>> \in Seq(Words) /\ Len(<<e>>) = 1 /\ <<e>>[1] = e  OBVIOUS
  <1>2. /\ <<e>> \o s \in Seq(Words) /\ Len(<<e>> \o s) = Len(s) + 1
        /\ \A i \in 1..(Len(s) + 1) : (<<e>> \o s)[i] = IF i <= 1 THEN <<e>>[i] ELSE s[i - 1]
    BY <1>1, ConcatProperties
  <1>3. /\ Tail(<<e>> \o s) \in Seq(Words) /\ Len(Tail(<<e>> \o s)) = Len(s)
        /\ \A i \in 1..Len(s) : Tail(<<e>> \o s)[i] = (<<e>> \o s)[i + 1]
    <2> DEFINE t == <<e>> \o s
    <2>1. t \in Seq(Words) /\ Len(t) = Len(s) + 1  BY <1>2
    <2>2. t # <<>> /\ Len(s) \in Nat  BY <2>1
    <2> HIDE DEF t
    <2> QED  BY <2>1, <2>2, HeadTailProperties
  <1>4. Tail(<<e>> \o s) = s
    <2>1. \A i \in 1..Len(s) : Tail(<<e>> \o s)[i] = s[i]
      BY <1>2, <1>3
    <2> QED  BY <1>3, <2>1, SeqEqual
  <1> QED  BY <1>1, <1>2, <1>4

LEMMA HeaderLength ==
  ASSUME NEW g
  PROVE  /\ Len(Header(g)) = IF g.hunks = <<>> THEN 1 ELSE 3
         /\ Len(Header(g)) \in 1..3
  BY DEF Header

LastLine == IF at.hunk = 0 THEN Len(Header(theFile)) ELSE Len(theHunk.lines)

\* Where the cursor goes next.
LEMMA NextPlace ==
  ASSUME diff \in Diffs, Placed, Read1,
         NEW last, last = LastLine
  PROVE  \/ at.line < last /\ at' = [file |-> at.file, hunk |-> at.hunk, line |-> at.line + 1]
         \/ /\ at.line = last /\ at.hunk < Len(theFile.hunks)
            /\ at' = [file |-> at.file, hunk |-> at.hunk + 1, line |-> 0]
         \/ /\ at.line = last /\ at.hunk = Len(theFile.hunks)
            /\ at' = [file |-> at.file + 1, hunk |-> 0, line |-> 1]
  <1>1. /\ Len(theFile.hunks) \in Nat
        /\ at.hunk # 0 => Len(theHunk.lines) \in Nat
    BY DiffType DEF Read1
  <1>2. at.hunk \in 0..Len(theFile.hunks) /\ at.line \in Nat
    BY DEF Placed, Read1, AllRead
  <1>3. last \in Nat /\ at.line <= last
    BY <1>1, HeaderLength DEF Placed, Read1, LastLine
  <1>4. at \in [file : 1..(Len(diff) + 1), hunk : Nat, line : Nat]  BY DEF Placed
  <1>5. at' = IF at.line < last THEN [at EXCEPT !.line = @ + 1]
              ELSE IF at.hunk < Len(theFile.hunks) THEN [at EXCEPT !.hunk = @ + 1, !.line = 0]
              ELSE [file |-> at.file + 1, hunk |-> 0, line |-> 1]
    BY DEF Read1, After, theFile, theHunk, LastLine
  <1>6. ASSUME NEW p, p = [at EXCEPT !.line = @ + 1]
        PROVE  p = [file |-> at.file, hunk |-> at.hunk, line |-> at.line + 1]
    BY <1>4, <1>6
  <1>7. ASSUME NEW p, p = [at EXCEPT !.hunk = @ + 1, !.line = 0]
        PROVE  p = [file |-> at.file, hunk |-> at.hunk + 1, line |-> 0]
    BY <1>4, <1>7
  <1>8. ~(at.line < last) => at.line = last
    BY <1>2, <1>3
  <1>9. ~(at.hunk < Len(theFile.hunks)) => at.hunk = Len(theFile.hunks)
    BY <1>1, <1>2
  <1> QED  BY <1>5, <1>6, <1>7, <1>8, <1>9

LEMMA AfterPlaced ==
  ASSUME diff \in Diffs, Placed, Read1
  PROVE  Placed'
  <1>1. /\ at.file \in DOMAIN diff /\ theFile \in Files /\ Len(theFile.hunks) \in Nat /\ Len(diff) \in Nat
        /\ at.hunk # 0 => at.hunk \in DOMAIN theFile.hunks /\ theHunk \in Hunks /\ Len(theHunk.lines) \in Nat
    BY DiffType DEF Read1
  <1>2. at.file \in 1..Len(diff) /\ at.hunk \in 0..Len(theFile.hunks) /\ at.line \in Nat
    BY DEF Placed, Read1, AllRead
  <1> DEFINE last == LastLine
  <1>3. last \in Nat /\ at.line <= last
    BY <1>1, HeaderLength DEF Placed, Read1, LastLine
  <1>p. at \in [file : 1..(Len(diff) + 1), hunk : Nat, line : Nat]  BY DEF Placed
  <1>n. /\ last = IF at.hunk = 0 THEN Len(Header(theFile)) ELSE Len(theHunk.lines)
        /\ last = LastLine
    BY DEF LastLine
  <1> HIDE DEF last
  <1>4. CASE at.line < last /\ at' = [file |-> at.file, hunk |-> at.hunk, line |-> at.line + 1]
    BY <1>1, <1>2, <1>3, <1>4, <1>p, <1>n DEF Placed, Read1, AllRead, theFile, theHunk
  <1>5. CASE at.hunk < Len(theFile.hunks) /\ at' = [file |-> at.file, hunk |-> at.hunk + 1, line |-> 0]
    <2>2. at.hunk + 1 \in DOMAIN theFile.hunks
      BY <1>1, <1>2, <1>5 DEF Files
    <2>3. theFile.hunks[at.hunk + 1] \in Hunks
      BY <1>1, <2>2 DEF Files
    <2> DEFINE lines == theFile.hunks[at.hunk + 1].lines
    <2>4. lines \in Seq(Lines)
      BY <2>3 DEF Hunks
    <2>5. Len(lines) \in Nat
      BY <2>4
    <2>6. /\ at'.file = at.file /\ at'.hunk = at.hunk + 1 /\ at'.line = 0 /\ diff' = diff
          /\ at' \in [file : 1..(Len(diff) + 1), hunk : Nat, line : Nat]
      BY <1>2, <1>5, <1>p DEF Read1
    <2>7. theFile' = theFile /\ theHunk' = theFile.hunks[at.hunk + 1]
      BY <2>6 DEF theFile, theHunk
    <2>8. ~AllRead' /\ theFile'.hunks = theFile.hunks /\ theHunk'.lines = lines
      BY <1>2, <2>6, <2>7 DEF AllRead
    <2>9. at'.hunk \in 0..Len(theFile'.hunks) /\ at'.hunk # 0 /\ at'.line \in 0..Len(theHunk'.lines)
      BY <1>1, <1>2, <1>5, <2>5, <2>6, <2>8
    <2> QED  BY <2>6, <2>8, <2>9 DEF Placed
  <1>6. CASE at' = [file |-> at.file + 1, hunk |-> 0, line |-> 1]
    <2>3. at.file + 1 <= Len(diff) => Len(diff[at.file + 1].hunks) \in Nat
      BY <1>1, <1>2, DiffType DEF Files
    <2>4. /\ at'.file = at.file + 1 /\ at'.hunk = 0 /\ at'.line = 1 /\ diff' = diff
          /\ at' \in [file : 1..(Len(diff) + 1), hunk : Nat, line : Nat]
      BY <1>1, <1>2, <1>6 DEF Read1
    <2>5. theFile' = diff[at.file + 1]
      BY <2>4 DEF theFile
    <2>6. ~AllRead' => Len(theFile'.hunks) \in Nat
      BY <1>1, <1>2, <2>3, <2>4, <2>5 DEF AllRead
    <2>7. at' \in [file : 1..(Len(diff') + 1), hunk : Nat, line : Nat]  BY <2>4
    <2>8. ~AllRead' => at'.hunk \in 0..Len(theFile'.hunks)  BY <2>4, <2>6
    <2>9. at'.line \in 1..Len(Header(theFile'))
      <3> DEFINE n == Len(Header(theFile'))
      <3>1. n \in 1..3
        <4> DEFINE g == theFile'
        <4> HIDE DEF g
        <4>1. Len(Header(g)) \in 1..3  BY HeaderLength
        <4> QED  BY <4>1 DEF g
      <3> HIDE DEF n
      <3>2. at'.line \in 1..n  BY <2>4, <3>1
      <3> QED  BY <3>2 DEF n
    <2> QED  BY <2>4, <2>7, <2>8, <2>9 DEF Placed
  <1> QED  BY <1>4, <1>5, <1>6, <1>n, NextPlace

\* The line that is read is the header of the file, its paths, the header of a hunk, or a
\* line of one.
LEMMA RawCases ==
  ASSUME diff \in Diffs, Placed, ~AllRead
  PROVE  \/ at.hunk = 0 /\ at.line = 1 /\ raw = Raw(IF theFile.combined THEN "note" ELSE "diff", <<>>)
         \/ at.hunk = 0 /\ at.line = 2 /\ theFile.hunks # <<>> /\ raw.mark = "deleted"
         \/ at.hunk = 0 /\ at.line = 3 /\ theFile.hunks # <<>> /\ raw = Raw("path", Spelled("b", theFile.new))
         \/ at.hunk # 0 /\ at.line = 0 /\ raw = Raw("hunk", <<>>)
         \/ /\ at.hunk # 0 /\ at.line # 0 /\ at.line \in DOMAIN theHunk.lines
            /\ raw = PrintedLine(theHunk.lines[at.line])
  <1>1. CASE at.hunk = 0
    <2>1. raw = Header(theFile)[at.line] /\ at.line \in 1..Len(Header(theFile))
      BY <1>1 DEF raw, Printed, Placed, theFile
    <2>2. CASE theFile.hunks = <<>>  BY <1>1, <2>1, <2>2, HeaderLength DEF Header, Raw
    <2>3. CASE theFile.hunks # <<>>
      <3>1. at.line \in {1, 2, 3}  BY <2>1, <2>3, HeaderLength
      <3> QED  BY <1>1, <2>1, <2>3, <3>1 DEF Header, Raw
    <2> QED  BY <2>2, <2>3
  <1>2. CASE at.hunk # 0 /\ at.line = 0
    BY <1>2 DEF raw, Printed
  <1>3. CASE at.hunk # 0 /\ at.line # 0
    <2>1. at.line \in 1..Len(theHunk.lines)
      BY <1>3 DEF Placed
    <2>2. theHunk \in Hunks  BY <1>3, DiffType
    <2>3. DOMAIN theHunk.lines = 1..Len(theHunk.lines)  BY <2>2 DEF Hunks
    <2> QED  BY <1>3, <2>1, <2>3 DEF raw, Printed, theFile, theHunk
  <1> QED  BY <1>1, <1>2, <1>3

LEMMA TrimType ==
  ASSUME NEW path \in Paths
  PROVE  TrimDiffPath(path) \in Paths
  <1>1. path # <<>> => Tail(path) \in Paths  BY HeadTailProperties DEF Paths
  <1>2. Len(path) > 1 => path # <<>>  OBVIOUS
  <1>3. <<>> \in Paths  BY DEF Paths
  <1> QED  BY <1>1, <1>2, <1>3 DEF TrimDiffPath, NoFile

LEMMA RawText ==
  ASSUME diff \in Diffs, Placed, ~AllRead
  PROVE  raw.text \in Texts
  <1>1. theFile \in Files /\ (at.hunk # 0 => theHunk \in Hunks)
    BY DiffType
  <1>2. Spelled("b", theFile.new) \in Texts /\ Spelled("a", theFile.old) \in Texts
    <2>1. theFile.new \in Seq(Words) /\ theFile.old \in Seq(Words) /\ DevNull \in Seq(Words)
      BY <1>1, AnchorsAssumption DEF Files, Paths
    <2>2. /\ "a" \in Words /\ "b" \in Words
          /\ \A q \in DOMAIN Quoted : Quoted[q] \in Seq(Words)
      BY AnchorsAssumption DEF Paths
    <2>3. ASSUME NEW side \in {"a", "b"}, NEW path \in Seq(Words)
          PROVE  Spelled(side, path) \in Seq(Words)
      <3>1. <<side>> \o path \in Seq(Words)  BY <2>2, Joined
      <3>2. <<side, path>> \in DOMAIN Quoted => Quoted[side, path] \in Seq(Words)  BY <2>2
      <3> QED  BY <2>1, <3>1, <3>2 DEF Spelled
    <2> QED  BY <2>1, <2>3 DEF Texts
  <1>3. CASE at.hunk = 0
    <2>1. raw = Header(theFile)[at.line] /\ at.line \in 1..Len(Header(theFile))
      BY <1>3 DEF raw, Printed, Placed, theFile
    <2>2. at.line \in {1, 2, 3}
      BY <2>1, HeaderLength
    <2>3. <<"--">> \o Spelled("a", theFile.old) \in Texts
      <3>1. "--" \in Words  BY AnchorsAssumption
      <3> QED  BY <1>2, <3>1, Joined DEF Texts
    <2>4. <<>> \in Texts  BY DEF Texts
    <2>5. CASE theFile.hunks = <<>>
      <3>1. at.line = 1  BY <2>1, <2>5, HeaderLength
      <3> QED  BY <2>1, <2>4, <2>5, <3>1 DEF Header, Raw
    <2>6. CASE theFile.hunks # <<>>
      <3>1. Header(theFile)[1].text = <<>> /\ Header(theFile)[2].text = <<"--">> \o Spelled("a", theFile.old)
            /\ Header(theFile)[3].text = Spelled("b", theFile.new)
        BY <2>6 DEF Header, Raw
      <3> QED  BY <1>2, <2>1, <2>2, <2>3, <2>4, <3>1
    <2> QED  BY <2>5, <2>6
  <1>4. CASE at.hunk # 0 /\ at.line = 0
    BY <1>4 DEF raw, Printed, Raw, Texts
  <1>5. CASE at.hunk # 0 /\ at.line # 0
    <2>1. at.line \in DOMAIN theHunk.lines /\ raw = PrintedLine(theHunk.lines[at.line])
      BY <1>5, RawCases
    <2>2. theHunk.lines[at.line].text \in Texts
      <3>1. theHunk.lines \in Seq(Lines)
        BY <1>1, <1>5 DEF Hunks
      <3>2. theHunk.lines[at.line] \in Lines
        BY <2>1, <3>1
      <3> QED  BY <3>2 DEF Lines
    <2>3. theHunk.lines[at.line].text # <<>> => Tail(theHunk.lines[at.line].text) \in Texts
      BY <2>2, HeadTailProperties DEF Texts
    <2> QED  BY <2>1, <2>2, <2>3 DEF PrintedLine, Raw
  <1> QED  BY <1>3, <1>4, <1>5

\* What the mark of a line tells of its place.
LEMMA RawMarks ==
  ASSUME diff \in Diffs, Placed, ~AllRead
  PROVE  /\ raw.mark = "diff" => at.hunk = 0 /\ at.line = 1
         /\ raw.mark = "hunk" <=> at.hunk # 0 /\ at.line = 0
         /\ raw.mark = "path" => (at.hunk = 0 /\ at.line = 3) \/ (at.hunk # 0 /\ at.line # 0)
         /\ raw.mark \in {"added", "deleted", "context", "note"} =>
              \/ at.hunk = 0 /\ at.line = 1 /\ theFile.combined
              \/ at.hunk = 0 /\ at.line = 2 /\ raw.mark = "deleted"
              \/ at.hunk # 0 /\ at.line # 0
  <1>1. ASSUME at.hunk # 0, at.line # 0
        PROVE  raw.mark \in {"added", "deleted", "context", "note", "path"}
    <2>1. theHunk \in Hunks  BY <1>1, DiffType
    <2>2. theHunk.lines \in Seq(Lines)  BY <2>1 DEF Hunks
    <2>3. theHunk.lines[at.line] \in Lines  BY <1>1, <2>2, RawCases
    <2>4. raw = PrintedLine(theHunk.lines[at.line])  BY <1>1, RawCases
    <2> QED  BY <2>3, <2>4 DEF PrintedLine, Raw, Lines
  <1>2. CASE at.hunk = 0 /\ at.line = 1 /\ raw = Raw(IF theFile.combined THEN "note" ELSE "diff", <<>>)
    <2>1. raw.mark = IF theFile.combined THEN "note" ELSE "diff"  BY <1>2 DEF Raw
    <2>2. raw.mark # "hunk" /\ raw.mark # "path" /\ ~(at.hunk # 0)  BY <1>2, <2>1
    <2>3. raw.mark \in {"added", "deleted", "context", "note"} => theFile.combined  BY <2>1
    <2> QED  BY <1>2, <2>2, <2>3
  <1>3. CASE at.hunk = 0 /\ at.line = 2 /\ raw.mark = "deleted"
    BY <1>3
  <1>4. CASE at.hunk = 0 /\ at.line = 3 /\ raw = Raw("path", Spelled("b", theFile.new))
    <2>1. raw.mark = "path"  BY <1>4 DEF Raw
    <2>2. raw.mark # "diff" /\ raw.mark # "hunk" /\ raw.mark \notin {"added", "deleted", "context", "note"}  BY <2>1
    <2>3. at.hunk = 0 /\ at.line = 3 /\ ~(at.hunk # 0) /\ at.line # 1  BY <1>4
    <2> QED  BY <2>1, <2>2, <2>3
  <1>5. CASE at.hunk # 0 /\ at.line = 0 /\ raw = Raw("hunk", <<>>)
    <2>1. raw.mark = "hunk"  BY <1>5 DEF Raw
    <2> QED  BY <1>5, <2>1
  <1>6. CASE at.hunk # 0 /\ at.line # 0
    BY <1>1, <1>6
  <1> QED  BY <1>2, <1>3, <1>4, <1>5, <1>6, RawCases

-----------------------------------------------------------------------------
(* The index is one, whatever is read *)

Typed ==
  /\ diff \in Diffs /\ Placed
  /\ file \in Paths /\ (file # NoFile => file \in DOMAIN index)
  /\ oldLine \in Nat /\ newLine \in Nat
  /\ DOMAIN index \subseteq Paths /\ index = [p \in DOMAIN index |-> index[p]]
  /\ \A p \in DOMAIN index : index[p] \in Seq(Indexed)

Parser == FileHeader \/ Path \/ Hunk \/ Skipped \/ Added \/ Deleted \/ Context

LEMMA ReadIsStep ==
  ASSUME NEW marks, Read(marks)
  PROVE  Read1 /\ raw.mark \in marks
  BY DEF Read, Read1

StillIndex ==
  /\ file \in DOMAIN index /\ DOMAIN index' = DOMAIN index
  /\ index' = [p \in DOMAIN index' |-> index'[p]]
  /\ \A p \in DOMAIN index : index'[p] \in Seq(Indexed)

OneAdded(line) ==
  /\ \A p \in DOMAIN index \ {file} : index'[p] = index[p]
  /\ ToSet(index'[file]) = ToSet(index[file]) \cup {line}

\* A line that is indexed is added to those of its file.
LEMMA IndexesAdds ==
  ASSUME Typed, ~AllRead, ~Outside, NEW side \in Sides, NEW number \in Nat, Indexes(side, number)
  PROVE  StillIndex /\ OneAdded([side |-> side, number |-> number, text |-> raw.text])
  <1> DEFINE l == [side |-> side, number |-> number, text |-> raw.text]
  <1>1. file \in DOMAIN index /\ index[file] \in Seq(Indexed)
    BY DEF Typed, Outside
  <1>2. l \in Indexed
    BY RawText DEF Typed, Indexed
  <1>3. index' = [p \in DOMAIN index |-> IF p = file THEN Append(index[file], l) ELSE index[p]]
    <2>1. index' = [index EXCEPT ![file] = Append(@, l)]  BY DEF Indexes
    <2> QED  BY <1>1, <2>1 DEF Typed
  <1> HIDE DEF l
  <1>4. /\ Append(index[file], l) \in Seq(Indexed)
        /\ ToSet(Append(index[file], l)) = ToSet(index[file]) \cup {l}
    BY <1>1, <1>2, AppendProperties DEF ToSet
  <1>5. \A p \in DOMAIN index : index[p] \in Seq(Indexed)  BY DEF Typed
  <1>6. /\ DOMAIN index' = DOMAIN index
        /\ \A p \in DOMAIN index : index'[p] = IF p = file THEN Append(index[file], l) ELSE index[p]
    BY <1>3
  <1> QED  BY <1>1, <1>3, <1>4, <1>5, <1>6 DEF l, StillIndex, OneAdded

LEMMA TypedStep ==
  ASSUME Typed, Parser
  PROVE  Typed'
  <1>1. ASSUME NEW marks, Read(marks)  PROVE diff' \in Diffs /\ Placed'
    BY <1>1, ReadIsStep, AfterPlaced DEF Typed, Read1
  <1>2. CASE FileHeader
    <2>1. <<>> \in Paths  BY DEF Paths
    <2> QED  BY <1>1, <1>2, <2>1 DEF FileHeader, Typed, NoFile
  <1>3. CASE Path
    <2>1. file' \in Paths
      BY <1>3, RawText, TrimType DEF Path, Read, Typed, Texts, Paths
    <2>2. diff' \in Diffs /\ Placed'  BY <1>1, <1>3 DEF Path
    <2>3. <<>> \in Seq(Indexed)  OBVIOUS
    <2>4. CASE file' = NoFile \/ file' \in DOMAIN index
      BY <1>3, <2>1, <2>2, <2>4 DEF Path, Typed
    <2>5. CASE file' # NoFile /\ file' \notin DOMAIN index
      <3>1. index' = [p \in DOMAIN index \cup {file'} |-> IF p = file' THEN <<>> ELSE index[p]]
        BY <1>3, <2>5 DEF Path
      <3>2. /\ DOMAIN index' = DOMAIN index \cup {file'}
            /\ \A p \in DOMAIN index' : index'[p] \in Seq(Indexed)
        BY <2>3, <3>1 DEF Typed
      <3> QED  BY <1>3, <2>1, <2>2, <3>1, <3>2 DEF Path, Typed
    <2> QED  BY <2>4, <2>5
  <1>4. CASE Hunk
    <2>1. raw.mark = "hunk" /\ ~AllRead  BY <1>4 DEF Hunk, Read
    <2>2. theHunk \in Hunks  BY <2>1, RawMarks, DiffType DEF Typed
    <2> QED  BY <1>1, <1>4, <2>2 DEF Hunk, Typed, Hunks, theHunk, theFile
  <1>5. CASE Skipped
    BY <1>1, <1>5 DEF Skipped, Typed
  <1>6. ASSUME NEW side \in Sides, NEW number \in {oldLine, newLine},
               ~AllRead, ~Outside, Indexes(side, number), file' = file,
               oldLine' \in Nat, newLine' \in Nat, diff' \in Diffs, Placed'
        PROVE  Typed'
    <2>1. number \in Nat  BY DEF Typed
    <2>2. StillIndex  BY <1>6, <2>1, IndexesAdds
    <2>3. file' \in Paths /\ file' \in DOMAIN index' /\ DOMAIN index' \subseteq Paths
      BY <1>6, <2>2 DEF Typed, StillIndex
    <2>4. \A p \in DOMAIN index' : index'[p] \in Seq(Indexed)  BY <2>2 DEF StillIndex
    <2> QED  BY <1>6, <2>2, <2>3, <2>4 DEF Typed, StillIndex
  <1>7. ASSUME NEW marks, Read(marks)  PROVE ~AllRead
    BY <1>7 DEF Read
  <1>8. oldLine + 1 \in Nat /\ newLine + 1 \in Nat /\ oldLine \in Nat /\ newLine \in Nat
    BY DEF Typed
  <1>9. CASE Added    BY <1>1, <1>6, <1>7, <1>8, <1>9 DEF Added, Sides
  <1>10. CASE Deleted  BY <1>1, <1>6, <1>7, <1>8, <1>10 DEF Deleted, Sides
  <1>11. CASE Context  BY <1>1, <1>6, <1>7, <1>8, <1>11 DEF Context, Sides
  <1> QED  BY <1>2, <1>3, <1>4, <1>5, <1>9, <1>10, <1>11 DEF Parser

-----------------------------------------------------------------------------
(* The index is the diff *)

\* No added line begins with "++ ": its printed form would read as a path, and the lines behind
\* it would be indexed under that (resolve.go:32).
NoPathLines ==
  \A d \in Diffs : \A i \in DOMAIN d : \A k \in DOMAIN d[i].hunks :
    \A l \in DOMAIN d[i].hunks[k].lines : PrintedLine(d[i].hunks[k].lines[l]) = d[i].hunks[k].lines[l]

\* No file is that of a merge: its header does not start one for the parser (resolve.go:28).
NoMerges == \A d \in Diffs : \A i \in DOMAIN d : ~d[i].combined

PlainDiffs == NoPathLines /\ NoMerges

Numbered(g) == g.old # 0 \/ g.new # 0

LineAt(g, i) ==
  [side |-> IF g.lines[i].mark = "deleted" THEN Deletions ELSE Additions,
   number |-> NumberOf(g, i), text |-> g.lines[i].text]

BeforeOf(g, n, marks) == Cardinality({j \in 1..(n - 1) : g.lines[j].mark \in marks})

\* Line l of hunk k of file i has a number, and the parser has read it.
Shows(i, k, l) ==
  /\ k \in DOMAIN diff[i].hunks /\ l \in DOMAIN diff[i].hunks[k].lines
  /\ Numbered(diff[i].hunks[k]) /\ diff[i].hunks[k].lines[l].mark # "note"

WasRead(i, k, l) ==
  i < at.file \/ (i = at.file /\ (k < at.hunk \/ (k = at.hunk /\ l < at.line)))

HasRead(i, x) == \E k, l : Shows(i, k, l) /\ WasRead(i, k, l) /\ x = LineAt(diff[i].hunks[k], l)

LinesFor(path) == IF path \in DOMAIN index THEN index[path] ELSE <<>>

\* The index has the files whose paths were read, and of each the lines that were.
Content ==
  /\ \A p \in DOMAIN index : \E i \in DOMAIN diff :
       NameOf(diff[i]) = p /\ diff[i].new # DevNull /\ diff[i].hunks # <<>>
  /\ \A i \in DOMAIN diff : diff[i].new # DevNull =>
       /\ NameOf(diff[i]) \in DOMAIN index <=>
            diff[i].hunks # <<>> /\ (i < at.file \/ (i = at.file /\ at.hunk # 0))
       /\ \A x : x \in ToSet(LinesFor(NameOf(diff[i]))) <=> HasRead(i, x)

\* The counters are as far from the start of a hunk as its lines before the n-th make them; those
\* of a hunk of a merge stay at 0.
InStepAt(g, n, old, new) ==
  IF Numbered(g)
  THEN old = g.old + BeforeOf(g, n, {"deleted", "context"}) /\ new = g.new + BeforeOf(g, n, {"added", "context"})
  ELSE old = 0 /\ new = 0

InStep == InStepAt(theHunk, at.line, oldLine, newLine)

Counting ==
  ~AllRead =>
    /\ at.hunk = 0 /\ at.line # 1 => file = NoFile /\ oldLine = 0 /\ newLine = 0
    /\ at.hunk # 0 => file = IF theFile.new = DevNull THEN NoFile ELSE NameOf(theFile)
    /\ at.hunk # 0 /\ at.line # 0 /\ file # NoFile => InStep

IndexInv == Typed /\ Content /\ Counting

LEMMA BeforeStep ==
  ASSUME NEW g, NEW marks, NEW n \in Nat \ {0}
  PROVE  /\ BeforeOf(g, n, marks) \in Nat /\ BeforeOf(g, 1, marks) = 0
         /\ BeforeOf(g, n + 1, marks) =
              BeforeOf(g, n, marks) + (IF g.lines[n].mark \in marks THEN 1 ELSE 0)
  <1> DEFINE S(m) == {j \in 1..(m - 1) : g.lines[j].mark \in marks}
  <1>1. IsFiniteSet(1..(n - 1)) /\ S(n) \subseteq 1..(n - 1)
    BY FS_Interval
  <1>2. IsFiniteSet(S(n))
    BY <1>1, FS_Subset
  <1>3. Cardinality(S(n)) \in Nat
    BY <1>2, FS_CardinalityType
  <1>4. S(1) = {}
    OBVIOUS
  <1>5. CASE g.lines[n].mark \in marks
    <2>1. S(n + 1) = S(n) \cup {n} /\ n \notin S(n)
      BY <1>5
    <2>2. Cardinality(S(n) \cup {n}) = Cardinality(S(n)) + 1
      BY <1>2, <2>1, FS_AddElement
    <2> QED  BY <1>3, <1>4, <1>5, <2>1, <2>2, FS_EmptySet DEF BeforeOf
  <1>6. CASE g.lines[n].mark \notin marks
    <2>1. S(n + 1) = S(n)
      BY <1>6
    <2>2. /\ BeforeOf(g, n, marks) = Cardinality(S(n)) /\ BeforeOf(g, n + 1, marks) = Cardinality(S(n + 1))
          /\ BeforeOf(g, 1, marks) = Cardinality(S(1))
      BY DEF BeforeOf
    <2>3. Cardinality(S(1)) = 0  BY <1>4, FS_EmptySet
    <2> HIDE DEF S
    <2>4. Cardinality(S(n + 1)) = Cardinality(S(n)) + 0  BY <1>3, <2>1
    <2> QED  BY <1>3, <1>6, <2>2, <2>3, <2>4
  <1> QED  BY <1>5, <1>6

LEMMA BeforeFirst ==
  ASSUME NEW g, NEW marks
  PROVE  BeforeOf(g, 1, marks) = 0
  <1>1. {j \in 1..(1 - 1) : g.lines[j].mark \in marks} = {}  OBVIOUS
  <1> QED  BY <1>1, FS_EmptySet DEF BeforeOf

\* The counters stay in step when a line moves those of its sides.
LEMMA InStepMoves ==
  ASSUME NEW g \in Hunks, NEW n \in Nat \ {0}, NEW o \in Nat, NEW w \in Nat, InStepAt(g, n, o, w)
  PROVE  /\ Numbered(g) <=> o # 0 \/ w # 0
         /\ InStepAt(g, n + 1,
                     IF Numbered(g) /\ g.lines[n].mark \in {"deleted", "context"} THEN o + 1 ELSE o,
                     IF Numbered(g) /\ g.lines[n].mark \in {"added", "context"} THEN w + 1 ELSE w)
  <1> DEFINE a == BeforeOf(g, n, {"deleted", "context"})
             a1 == BeforeOf(g, n + 1, {"deleted", "context"})
             b == BeforeOf(g, n, {"added", "context"})
             b1 == BeforeOf(g, n + 1, {"added", "context"})
             go == g.old
             gn == g.new
             d == IF g.lines[n].mark \in {"deleted", "context"} THEN 1 ELSE 0
             e == IF g.lines[n].mark \in {"added", "context"} THEN 1 ELSE 0
  <1>1. a \in Nat /\ b \in Nat /\ a1 = a + d /\ b1 = b + e /\ d \in {0, 1} /\ e \in {0, 1}
    BY BeforeStep
  <1>2. go \in Nat /\ gn \in Nat  BY DEF Hunks
  <1>3. /\ Numbered(g) => o = go + a /\ w = gn + b
        /\ ~Numbered(g) => o = 0 /\ w = 0
        /\ Numbered(g) <=> go # 0 \/ gn # 0
    BY DEF InStepAt, Numbered
  <1>4. ASSUME NEW o1, NEW w1
        PROVE  InStepAt(g, n + 1, o1, w1) <=>
                 IF Numbered(g) THEN o1 = go + a1 /\ w1 = gn + b1 ELSE o1 = 0 /\ w1 = 0
    BY DEF InStepAt
  <1>5. CASE Numbered(g)
    <2> DEFINE o1 == IF g.lines[n].mark \in {"deleted", "context"} THEN o + 1 ELSE o
               w1 == IF g.lines[n].mark \in {"added", "context"} THEN w + 1 ELSE w
    <2>1. o1 = o + d /\ w1 = w + e  OBVIOUS
    <2> HIDE DEF a, a1, b, b1, go, gn, d, e, o1, w1
    <2>2. o = go + a /\ w = gn + b /\ (go # 0 \/ gn # 0)  BY <1>3, <1>5
    <2>3. o1 = go + a1 /\ w1 = gn + b1 /\ (o # 0 \/ w # 0)
      BY <1>1, <1>2, <2>1, <2>2
    <2>4. InStepAt(g, n + 1, o1, w1)  BY <1>4, <1>5, <2>3
    <2> QED  BY <1>5, <2>3, <2>4 DEF o1, w1
  <1>6. CASE ~Numbered(g)
    BY <1>3, <1>4, <1>6
  <1> QED  BY <1>5, <1>6

LEMMA NumberIs ==
  ASSUME NEW g, NEW i
  PROVE  NumberOf(g, i) = IF g.lines[i].mark = "deleted" THEN g.old + BeforeOf(g, i, {"deleted", "context"})
                          ELSE g.new + BeforeOf(g, i, {"added", "context"})
  BY DEF NumberOf, BeforeOf, Quantify

\* Of the lines of hunks, a step reads the one the cursor is at.
LEMMA WasReadStep ==
  ASSUME diff \in Diffs, Placed, Read1,
         NEW i \in DOMAIN diff, NEW k \in DOMAIN diff[i].hunks, NEW l \in DOMAIN diff[i].hunks[k].lines
  PROVE  WasRead(i, k, l)' <=> WasRead(i, k, l) \/ (i = at.file /\ k = at.hunk /\ l = at.line)
  <1>1. /\ at.file \in DOMAIN diff /\ Len(theFile.hunks) \in Nat /\ Len(diff) \in Nat
        /\ at.hunk # 0 => at.hunk \in DOMAIN theFile.hunks /\ Len(theHunk.lines) \in Nat
        /\ diff[i] \in Files
    BY DiffType DEF Read1
  <1>2. at.file \in 1..Len(diff) /\ at.hunk \in 0..Len(theFile.hunks) /\ at.line \in Nat
    BY DEF Placed, Read1, AllRead
  <1>3. i \in 1..Len(diff) /\ k \in 1..Len(diff[i].hunks) /\ l \in 1..Len(diff[i].hunks[k].lines)
        /\ Len(diff[i].hunks) \in Nat /\ Len(diff[i].hunks[k].lines) \in Nat
    <2>1. diff \in Seq(Files)  BY DiffsAssumption
    <2>2. diff[i].hunks \in Seq(Hunks)  BY <1>1 DEF Files
    <2>3. diff[i].hunks[k] \in Hunks  BY <2>2
    <2>4. diff[i].hunks[k].lines \in Seq(Lines)  BY <2>3 DEF Hunks
    <2> QED  BY <2>1, <2>2, <2>4
  <1> DEFINE last == LastLine
  <1>4. last \in Nat /\ at.line <= last /\ last = LastLine
    BY <1>1, HeaderLength DEF Placed, Read1, LastLine
  <1>5. i = at.file => /\ diff[i] = theFile
                       /\ k = at.hunk => diff[i].hunks[k] = theHunk /\ last = Len(theHunk.lines)
    BY <1>3 DEF theFile, theHunk, LastLine
  <1>6. WasRead(i, k, l)' <=>
          i < at'.file \/ (i = at'.file /\ (k < at'.hunk \/ (k = at'.hunk /\ l < at'.line)))
    BY DEF WasRead
  <1> HIDE DEF last
  <1>7. CASE at.line < last /\ at' = [file |-> at.file, hunk |-> at.hunk, line |-> at.line + 1]
    BY <1>2, <1>3, <1>4, <1>6, <1>7 DEF WasRead
  <1>8. CASE at.line = last /\ at' = [file |-> at.file, hunk |-> at.hunk + 1, line |-> 0]
    BY <1>2, <1>3, <1>4, <1>5, <1>6, <1>8 DEF WasRead
  <1>9. CASE at.line = last /\ at.hunk = Len(theFile.hunks) /\ at' = [file |-> at.file + 1, hunk |-> 0, line |-> 1]
    <2>1. i = at.file => k <= at.hunk  BY <1>3, <1>5, <1>9
    <2> QED  BY <1>2, <1>3, <1>4, <1>5, <1>6, <1>9, <2>1 DEF WasRead
  <1> QED  BY <1>4, <1>7, <1>8, <1>9, NextPlace

LEMMA HasReadStep ==
  ASSUME diff \in Diffs, Placed, Read1, NEW i \in DOMAIN diff, NEW x
  PROVE  HasRead(i, x)' <=>
           \/ HasRead(i, x)
           \/ i = at.file /\ Shows(i, at.hunk, at.line) /\ x = LineAt(theHunk, at.line)
  <1>1. diff' = diff  BY DEF Read1
  <1>2. \A k, l : Shows(i, k, l)' <=> Shows(i, k, l)
    BY <1>1 DEF Shows
  <1>3. \A k, l : Shows(i, k, l) =>
          (WasRead(i, k, l)' <=> WasRead(i, k, l) \/ (i = at.file /\ k = at.hunk /\ l = at.line))
    BY WasReadStep DEF Shows
  <1>4. HasRead(i, x)' <=>
          \E k, l : Shows(i, k, l) /\ WasRead(i, k, l)' /\ x = LineAt(diff[i].hunks[k], l)
    BY <1>1, <1>2 DEF HasRead
  <1>5. i = at.file => diff[i].hunks[at.hunk] = theHunk
    BY DEF theFile, theHunk
  <1> QED  BY <1>3, <1>4, <1>5, Zenon DEF HasRead

\* TrimDiffPath takes from the new path of a header what Spelled put before it, and leaves one
\* that is quoted as it is.
LEMMA TrimSpelled ==
  ASSUME NEW g \in Files, g.new # NoFile
  PROVE  /\ g.new = DevNull => TrimDiffPath(Spelled("b", g.new)) = NoFile
         /\ g.new # DevNull => /\ TrimDiffPath(Spelled("b", g.new)) = NameOf(g)
                               /\ NameOf(g) # NoFile
  <1>1. "b" \in Words /\ "b" \in OneLetter /\ DevNull[1] # "b" /\ g.new \in Paths
    BY AnchorsAssumption DEF Files
  <1>2. CASE g.new = DevNull
    BY <1>2 DEF Spelled, TrimDiffPath
  <1>3. CASE g.new # DevNull /\ <<"b", g.new>> \in DOMAIN Quoted
    <2> DEFINE t == Quoted["b", g.new]
    <2>1. t \in Paths \ {NoFile, DevNull} /\ t[1] \notin OneLetter  BY <1>3, AnchorsAssumption
    <2>2. Spelled("b", g.new) = t /\ NameOf(g) = t  BY <1>3 DEF Spelled, NameOf
    <2> HIDE DEF t
    <2> QED  BY <1>3, <2>1, <2>2 DEF TrimDiffPath
  <1>4. CASE g.new # DevNull /\ <<"b", g.new>> \notin DOMAIN Quoted
    <2> DEFINE path == g.new
               t == <<"b">> \o path
    <2>1. Spelled("b", g.new) = t /\ NameOf(g) = path  BY <1>4 DEF Spelled, NameOf
    <2>2. path \in Paths /\ path # NoFile  BY <1>1
    <2> HIDE DEF path
    <2>3. t[1] = "b" /\ Tail(t) = path /\ Len(t) = Len(path) + 1
      BY <1>1, <2>2, Joined DEF Paths
    <2>4. Len(path) > 0 /\ Len(path) \in Nat  BY <2>2 DEF Paths, NoFile
    <2> HIDE DEF t
    <2>5. t # DevNull /\ Len(t) > 1  BY <1>1, <2>3, <2>4
    <2>6. TrimDiffPath(t) = path  BY <1>1, <2>3, <2>5 DEF TrimDiffPath
    <2> QED  BY <1>4, <2>1, <2>2, <2>6
  <1> QED  BY <1>2, <1>3, <1>4

InHeader(n) == at.hunk = 0 /\ at.line = n
InHunk == at.hunk # 0 /\ at.line # 0

\* What a step reads: a header only starts a file, and its paths only name it.
LEMMA ParserCases ==
  ASSUME IndexInv, PlainDiffs, Parser
  PROVE  /\ Read1 /\ ~AllRead
         /\ \/ InHeader(1) /\ FileHeader
            \/ InHeader(2) /\ theFile.hunks # <<>> /\ Skipped
            \/ InHeader(3) /\ theFile.hunks # <<>> /\ Path /\ raw.text = Spelled("b", theFile.new)
            \/ at.hunk # 0 /\ at.line = 0 /\ Hunk
            \/ /\ InHunk /\ at.line \in DOMAIN theHunk.lines /\ raw = theHunk.lines[at.line]
               /\ Skipped \/ Added \/ Deleted \/ Context
  <1>1. Read1 /\ ~AllRead
    BY ReadIsStep DEF Parser, FileHeader, Path, Hunk, Skipped, Added, Deleted, Context, Read1
  <1>2. diff \in Diffs /\ Placed  BY DEF IndexInv, Typed
  <1>3. /\ FileHeader => raw.mark = "diff"
        /\ Path => raw.mark = "path"
        /\ Hunk => raw.mark = "hunk"
        /\ Skipped \/ Added \/ Deleted \/ Context => raw.mark \in {"added", "deleted", "context", "note"}
    BY DEF FileHeader, Path, Hunk, Skipped, Added, Deleted, Context, Read
  <1>m. ~theFile.combined
    <2>1. at.file \in DOMAIN diff  BY <1>1, <1>2, DiffType
    <2> QED  BY <1>2, <2>1 DEF PlainDiffs, NoMerges, theFile
  <1>4. CASE FileHeader
    BY <1>1, <1>2, <1>3, <1>4, RawMarks DEF InHeader
  <1>5. CASE Hunk
    BY <1>1, <1>2, <1>3, <1>5, RawMarks
  <1>6. ASSUME InHunk
        PROVE  /\ at.line \in DOMAIN theHunk.lines /\ raw = theHunk.lines[at.line]
               /\ raw.mark \in {"added", "deleted", "context", "note"}
    <2>1. at.line \in DOMAIN theHunk.lines /\ raw = PrintedLine(theHunk.lines[at.line])
      BY <1>1, <1>2, <1>6, RawCases DEF InHunk
    <2>2. at.file \in DOMAIN diff /\ at.hunk \in DOMAIN theFile.hunks /\ theHunk \in Hunks
      BY <1>1, <1>2, <1>6, DiffType DEF InHunk
    <2>3. PrintedLine(theHunk.lines[at.line]) = theHunk.lines[at.line]
      BY <1>2, <2>1, <2>2 DEF PlainDiffs, NoPathLines, theHunk, theFile
    <2>4. theHunk.lines \in Seq(Lines)  BY <2>2 DEF Hunks
    <2>5. theHunk.lines[at.line] \in Lines  BY <2>1, <2>4
    <2> QED  BY <2>1, <2>3, <2>5 DEF Lines
  <1>7. CASE Path
    <2>1. ~InHunk  BY <1>3, <1>6, <1>7
    <2>2. InHeader(3)  BY <1>1, <1>2, <1>3, <1>7, <2>1, RawMarks DEF InHunk, InHeader
    <2>3. theFile.hunks # <<>> /\ raw = Raw("path", Spelled("b", theFile.new))
      BY <1>1, <1>2, <2>2, RawCases DEF InHeader
    <2> QED  BY <1>1, <1>7, <2>2, <2>3 DEF Raw
  <1>8. CASE Skipped \/ Added \/ Deleted \/ Context
    <2>1. InHunk \/ (InHeader(2) /\ raw.mark = "deleted")
      BY <1>1, <1>2, <1>3, <1>m, <1>8, RawMarks DEF InHunk, InHeader
    <2>2. CASE InHunk  BY <1>1, <1>6, <1>8, <2>2
    <2>3. CASE InHeader(2) /\ raw.mark = "deleted"
      <3>1. theFile.hunks # <<>>
        BY <1>1, <1>2, <2>3, RawCases DEF InHeader
      <3>2. Outside
        BY <1>1, <2>3 DEF IndexInv, Counting, InHeader, Outside
      <3>3. Skipped
        BY <1>8, <2>3, <3>2 DEF Added, Deleted, Context, Read
      <3> QED  BY <1>1, <2>3, <3>1, <3>3
    <2> QED  BY <2>1, <2>2, <2>3
  <1> QED  BY <1>4, <1>5, <1>7, <1>8 DEF Parser

\* The counters are set by the header of a hunk, and every line moves those of its sides
\* (parseDiffIndex).
LEMMA CountingStep ==
  ASSUME IndexInv, PlainDiffs, Parser
  PROVE  Counting'
  <1>1. diff \in Diffs /\ Placed /\ Typed /\ Counting /\ Read1 /\ ~AllRead
    BY ParserCases DEF IndexInv, Typed
  <1>2. /\ theFile \in Files /\ theFile.new # NoFile /\ Len(theFile.hunks) \in Nat
        /\ at.hunk # 0 => theHunk \in Hunks /\ Len(theHunk.lines) \in Nat
    BY <1>1, DiffType
  <1>3. at.hunk \in 0..Len(theFile.hunks) /\ at.line \in Nat /\ oldLine \in Nat /\ newLine \in Nat
    BY <1>1 DEF Placed, Typed
  <1>4. CASE at' = [file |-> at.file + 1, hunk |-> 0, line |-> 1]
    BY <1>4 DEF Counting
  <1>5. ASSUME at'.file = at.file  PROVE theFile' = theFile
    BY <1>1, <1>5 DEF Read1, theFile
  <1>6. CASE at.hunk = 0 /\ at' # [file |-> at.file + 1, hunk |-> 0, line |-> 1]
    <2>1. theFile.hunks # <<>> /\ Len(Header(theFile)) = 3
      <3>1. SUFFICES ASSUME theFile.hunks = <<>>  PROVE FALSE
        BY HeaderLength
      <3>2. Len(theFile.hunks) = 0  BY <3>1
      <3>3. LastLine = 1  BY <1>6, <3>1, HeaderLength DEF LastLine
      <3>4. at.line \in 1..1  BY <1>1, <1>6, <3>1, HeaderLength DEF Placed
      <3> QED  BY <1>1, <1>6, <3>2, <3>3, <3>4, NextPlace
    <2>2. LastLine = 3  BY <1>6, <2>1 DEF LastLine
    <2>3. CASE at.line # 3
      <3>1. at' = [file |-> at.file, hunk |-> 0, line |-> at.line + 1]
        BY <1>1, <1>6, <2>2, <2>3, NextPlace
      <3>2. file' = NoFile /\ oldLine' = 0 /\ newLine' = 0
        BY <1>1, <1>6, <2>3, ParserCases DEF FileHeader, Skipped, InHeader, InHunk, Counting
      <3> QED  BY <3>1, <3>2 DEF Counting
    <2>4. CASE at.line = 3
      <3>1. at' = [file |-> at.file, hunk |-> 1, line |-> 0]
        BY <1>1, <1>3, <1>6, <2>2, <2>4, NextPlace
      <3>2. theFile' = theFile  BY <1>5, <3>1
      <3>3. file' = TrimDiffPath(Spelled("b", theFile.new))
        BY <1>1, <1>6, <2>4, ParserCases DEF InHeader, InHunk, Path
      <3>4. file' = IF theFile.new = DevNull THEN NoFile ELSE NameOf(theFile)
        BY <1>2, <3>3, TrimSpelled
      <3>5. at'.hunk # 0 /\ at'.line = 0  BY <3>1
      <3>6. file' = IF theFile'.new = DevNull THEN NoFile ELSE NameOf(theFile')  BY <3>2, <3>4
      <3> QED  BY <3>5, <3>6 DEF Counting
    <2> QED  BY <2>3, <2>4
  <1>7. CASE at.hunk # 0 /\ at' # [file |-> at.file + 1, hunk |-> 0, line |-> 1]
    <2>1. file' = file /\ file = IF theFile.new = DevNull THEN NoFile ELSE NameOf(theFile)
      BY <1>1, <1>7, ParserCases DEF InHeader, Hunk, Skipped, Added, Deleted, Context, Counting
    <2>2. at'.file = at.file /\ theFile' = theFile
      BY <1>1, <1>5, <1>7, NextPlace
    <2>3. CASE at' = [file |-> at.file, hunk |-> at.hunk + 1, line |-> 0]
      <3>1. at'.hunk # 0 /\ at'.line = 0  BY <1>3, <2>3
      <3>2. file' = IF theFile'.new = DevNull THEN NoFile ELSE NameOf(theFile')  BY <2>1, <2>2
      <3> QED  BY <3>1, <3>2 DEF Counting
    <2>4. CASE at' = [file |-> at.file, hunk |-> at.hunk, line |-> at.line + 1]
      <3>1. theHunk' = theHunk  BY <2>2, <2>4 DEF theHunk
      <3>2. SUFFICES file # NoFile => InStepAt(theHunk, at.line + 1, oldLine', newLine')
        <4> DEFINE g == theHunk'
                   n == at'.line
        <4>1. InStep' <=> InStepAt(g, n, oldLine', newLine')
          BY DEF InStep, InStepAt, Numbered, BeforeOf
        <4>2. g = theHunk /\ n = at.line + 1  BY <2>4, <3>1
        <4> HIDE DEF g, n
        <4>3. InStep' <=> InStepAt(theHunk, at.line + 1, oldLine', newLine')
          BY <4>1, <4>2
        <4>4. at'.hunk # 0 /\ file' = IF theFile'.new = DevNull THEN NoFile ELSE NameOf(theFile')
          BY <1>7, <2>1, <2>2, <2>4
        <4>5. file' # NoFile => InStep'  BY <2>1, <3>2, <4>3
        <4> QED  BY <4>4, <4>5 DEF Counting
      <3> HAVE file # NoFile
      <3>3. CASE at.line = 0
        <4>1. oldLine' = theHunk.old /\ newLine' = theHunk.new
          BY <1>1, <1>7, <3>3, ParserCases DEF InHeader, InHunk, Hunk, theHunk, theFile
        <4>2. theHunk.old \in Nat /\ theHunk.new \in Nat  BY <1>2, <1>7 DEF Hunks
        <4> QED  BY <3>3, <4>1, <4>2, BeforeFirst DEF InStepAt, Numbered
      <3>4. CASE at.line # 0
        <4> DEFINE mark == theHunk.lines[at.line].mark
        <4>1. /\ mark = raw.mark /\ mark \in {"added", "deleted", "context", "note"}
              /\ Skipped \/ Added \/ Deleted \/ Context
          BY <1>1, <1>7, <3>4, ParserCases DEF InHeader, Skipped, Added, Deleted, Context, Read
        <4>2. InStepAt(theHunk, at.line, oldLine, newLine)
          BY <1>1, <1>7, <3>4 DEF Counting, InStep
        <4>3. Outside <=> ~Numbered(theHunk)
          BY <1>2, <1>3, <1>7, <3>4, <4>2, InStepMoves DEF Outside
        <4> HIDE DEF mark
        <4>4. /\ oldLine' = IF Numbered(theHunk) /\ mark \in {"deleted", "context"} THEN oldLine + 1 ELSE oldLine
              /\ newLine' = IF Numbered(theHunk) /\ mark \in {"added", "context"} THEN newLine + 1 ELSE newLine
          <5>1. CASE Skipped
            BY <4>1, <4>3, <5>1 DEF Skipped
          <5>2. CASE Added
            BY <4>1, <4>3, <5>2 DEF Added, Read
          <5>3. CASE Deleted
            BY <4>1, <4>3, <5>3 DEF Deleted, Read
          <5>4. CASE Context
            BY <4>1, <4>3, <5>4 DEF Context, Read
          <5> QED  BY <4>1, <5>1, <5>2, <5>3, <5>4
        <4> QED  BY <1>2, <1>3, <1>7, <3>4, <4>2, <4>4, InStepMoves DEF mark
      <3> QED  BY <3>3, <3>4
    <2> QED  BY <1>1, <1>7, <2>3, <2>4, NextPlace
  <1> QED  BY <1>4, <1>6, <1>7

\* A line that is not indexed, and is not the path of a file with a new side, changes nothing.
LEMMA ContentKept ==
  ASSUME diff \in Diffs, Placed, Content, Read1, index' = index,
         Shows(at.file, at.hunk, at.line) => theFile.new = DevNull,
         ~InHeader(3) \/ theFile.new = DevNull
  PROVE  Content'
  <1>1. diff' = diff /\ ~AllRead  BY DEF Read1
  <1>2. /\ at.file \in 1..Len(diff) /\ Len(theFile.hunks) \in Nat /\ Len(diff) \in Nat
        /\ at.hunk \in 0..Len(theFile.hunks) /\ at.line \in Nat /\ DOMAIN diff = 1..Len(diff)
    <2>1. diff \in Seq(Files)  BY DiffsAssumption
    <2> QED  BY <1>1, <2>1, DiffType DEF Placed, AllRead
  <1>3. ASSUME NEW i \in DOMAIN diff, diff[i].new # DevNull
        PROVE  /\ NameOf(diff[i]) \in DOMAIN index <=>
                    diff[i].hunks # <<>> /\ (i < at'.file \/ (i = at'.file /\ at'.hunk # 0))
               /\ \A x : x \in ToSet(LinesFor(NameOf(diff[i]))) <=> HasRead(i, x)'
    <2>1. NameOf(diff[i]) \in DOMAIN index <=>
            diff[i].hunks # <<>> /\ (i < at.file \/ (i = at.file /\ at.hunk # 0))
      BY <1>3 DEF Content
    <2>2. \A x : x \in ToSet(LinesFor(NameOf(diff[i]))) <=> HasRead(i, x)
      BY <1>3 DEF Content
    <2>3. \A x : HasRead(i, x)' <=> HasRead(i, x)
      BY <1>3, HasReadStep DEF theFile
    <2>4. i = at.file => diff[i].hunks = theFile.hunks /\ ~InHeader(3)
      BY <1>3 DEF theFile
    <2>5. diff[i].hunks # <<>> =>
            ((i < at.file \/ (i = at.file /\ at.hunk # 0)) <=> (i < at'.file \/ (i = at'.file /\ at'.hunk # 0)))
      <3>1. CASE at' = [file |-> at.file, hunk |-> at.hunk, line |-> at.line + 1]
        BY <1>2, <3>1
      <3>2. CASE /\ at.line = LastLine
                 /\ at' = [file |-> at.file, hunk |-> at.hunk + 1, line |-> 0]
        <4>1. i = at.file /\ diff[i].hunks # <<>> => at.hunk # 0
          BY <2>4, <3>2, HeaderLength DEF LastLine, InHeader
        <4>2. at'.file = at.file /\ at'.hunk # 0  BY <1>2, <3>2
        <4> QED  BY <4>1, <4>2
      <3>3. CASE /\ at.hunk = Len(theFile.hunks)
                 /\ at' = [file |-> at.file + 1, hunk |-> 0, line |-> 1]
        <4>1. i = at.file /\ diff[i].hunks # <<>> => at.hunk # 0
          <5>1. theFile \in Files  BY <1>1, DiffType
          <5>2. theFile.hunks \in Seq(Hunks)  BY <5>1 DEF Files
          <5>3. Len(theFile.hunks) = 0 => theFile.hunks = <<>>  BY <5>2, EmptySeq
          <5> QED  BY <2>4, <3>3, <5>3
        <4>2. at'.file = at.file + 1 /\ at'.hunk = 0  BY <3>3
        <4>3. i \in Nat /\ at.file \in Nat  BY <1>2
        <4> QED  BY <4>1, <4>2, <4>3
      <3> QED  BY <3>1, <3>2, <3>3, NextPlace
    <2> QED  BY <2>1, <2>2, <2>3, <2>5
  <1>4. ASSUME NEW p  PROVE LinesFor(p)' = LinesFor(p)  BY DEF LinesFor
  <1> QED  BY <1>1, <1>3, <1>4 DEF Content

\* The path of a file, read from its header, starts an entry of the index for it.
LEMMA ContentOfPath ==
  ASSUME IndexInv, PlainDiffs, Path, theFile.new # DevNull
  PROVE  Content'
  <1>1. /\ Read1 /\ ~AllRead /\ InHeader(3) /\ theFile.hunks # <<>>
        /\ raw.text = Spelled("b", theFile.new)
    <2>1. Parser /\ raw.mark = "path"  BY DEF Parser, Path, Read
    <2>2. ~FileHeader /\ ~Skipped /\ ~Hunk /\ ~Added /\ ~Deleted /\ ~Context
      BY <2>1 DEF FileHeader, Skipped, Hunk, Added, Deleted, Context, Read
    <2> QED  BY <2>1, <2>2, ParserCases
  <1>2. diff \in Diffs /\ Placed /\ Content /\ diff' = diff
    BY <1>1 DEF IndexInv, Typed, Read1
  <1>3. /\ at.file \in 1..Len(diff) /\ Len(diff) \in Nat /\ DOMAIN diff = 1..Len(diff)
        /\ theFile \in Files /\ theFile.new # NoFile
    <2>1. diff \in Seq(Files)  BY <1>2, DiffsAssumption
    <2> QED  BY <1>1, <1>2, <2>1, DiffType DEF Placed, AllRead
  <1> DEFINE p == NameOf(theFile)
  <1>4. p \notin DOMAIN index
    BY <1>1, <1>2, <1>3 DEF Content, InHeader, theFile
  <1>5. DOMAIN index' = DOMAIN index \cup {p} /\ \A q : LinesFor(q)' = LinesFor(q)
    <2>0. p # NoFile  BY <1>3, TrimSpelled
    <2>1. file' = p
      BY <1>1, <1>3, TrimSpelled DEF Path
    <2>2. index' = [f \in DOMAIN index \cup {p} |-> IF f = p THEN <<>> ELSE index[f]]
      BY <1>4, <2>0, <2>1 DEF Path
    <2> QED  BY <1>4, <2>2 DEF LinesFor
  <1>6. at'.file = at.file /\ at'.hunk # 0
    <2>1. Len(theFile.hunks) # 0
      <3>1. theFile.hunks \in Seq(Hunks)  BY <1>3 DEF Files
      <3> QED  BY <1>1, <3>1, EmptySeq
    <2>2. LastLine = 3  BY <1>1, HeaderLength DEF InHeader, LastLine
    <2>3. at' = [file |-> at.file, hunk |-> at.hunk + 1, line |-> 0]
      BY <1>1, <1>2, <2>1, <2>2, NextPlace DEF InHeader
    <2> QED  BY <1>1, <2>3 DEF InHeader
  <1>7. \A q \in DOMAIN index' : \E i \in DOMAIN diff : NameOf(diff[i]) = q /\ diff[i].new # DevNull /\ diff[i].hunks # <<>>
    <2>1. \A q \in DOMAIN index : \E i \in DOMAIN diff : NameOf(diff[i]) = q /\ diff[i].new # DevNull /\ diff[i].hunks # <<>>
      BY <1>2 DEF Content
    <2>2. at.file \in DOMAIN diff /\ NameOf(diff[at.file]) = p
          /\ diff[at.file].new # DevNull /\ diff[at.file].hunks # <<>>
      BY <1>1, <1>3 DEF theFile
    <2> QED  BY <1>5, <2>1, <2>2
  <1>8. ASSUME NEW i \in DOMAIN diff, diff[i].new # DevNull
        PROVE  /\ NameOf(diff[i]) \in DOMAIN index' <=>
                    diff[i].hunks # <<>> /\ (i < at'.file \/ (i = at'.file /\ at'.hunk # 0))
               /\ \A x : x \in ToSet(LinesFor(NameOf(diff[i]))) <=> HasRead(i, x)'
    <2>1. NameOf(diff[i]) = p <=> i = at.file
      BY <1>2, <1>3, <1>8, DiffsAssumption DEF theFile
    <2>2. NameOf(diff[i]) \in DOMAIN index <=>
            diff[i].hunks # <<>> /\ (i < at.file \/ (i = at.file /\ at.hunk # 0))
      BY <1>2, <1>8 DEF Content
    <2>3. \A x : x \in ToSet(LinesFor(NameOf(diff[i]))) <=> HasRead(i, x)
      BY <1>2, <1>8 DEF Content
    <2>4. ~Shows(at.file, at.hunk, at.line)
      <3>1. theFile.hunks \in Seq(Hunks)  BY <1>3 DEF Files
      <3>2. 0 \notin DOMAIN theFile.hunks  BY <3>1
      <3> QED  BY <1>1, <3>2 DEF Shows, InHeader, theFile
    <2>5. \A x : HasRead(i, x)' <=> HasRead(i, x)
      BY <1>1, <1>2, <2>4, HasReadStep
    <2>6. i = at.file => diff[i].hunks # <<>>  BY <1>1 DEF theFile
    <2> QED  BY <1>1, <1>5, <1>6, <2>1, <2>2, <2>3, <2>5, <2>6 DEF InHeader
  <1> QED  BY <1>2, <1>5, <1>7, <1>8 DEF Content

\* A line of a file with a new side is read past iff its hunk is one of a merge or it is git's
\* note, and the counter of its side is its number.
LEMMA HunkLine ==
  ASSUME IndexInv, ~AllRead, InHunk, file # NoFile
  PROVE  /\ file = NameOf(theFile) /\ theFile.new # DevNull
         /\ Outside <=> ~Numbered(theHunk)
         /\ ~Outside => NumberOf(theHunk, at.line) =
                          IF theHunk.lines[at.line].mark = "deleted" THEN oldLine ELSE newLine
  <1>1. InStepAt(theHunk, at.line, oldLine, newLine) /\ file = NameOf(theFile) /\ theFile.new # DevNull
    BY DEF IndexInv, Counting, InHunk, InStep
  <1>2. theHunk \in Hunks /\ at.line \in Nat \ {0} /\ oldLine \in Nat /\ newLine \in Nat
    BY DiffType DEF IndexInv, Typed, Placed, InHunk
  <1>3. Outside <=> ~Numbered(theHunk)
    BY <1>1, <1>2, InStepMoves DEF Outside
  <1> QED  BY <1>1, <1>3, NumberIs DEF InStepAt

\* A line that is indexed is the one that was read, under its number.
LEMMA ContentOfLine ==
  ASSUME IndexInv, PlainDiffs, Added \/ Deleted \/ Context
  PROVE  Content'
  <1>1. /\ Read1 /\ ~AllRead /\ InHunk /\ ~Outside
        /\ at.line \in DOMAIN theHunk.lines /\ raw = theHunk.lines[at.line]
        /\ theHunk.lines[at.line].mark # "note"
    <2>1. Parser /\ raw.mark \in {"added", "deleted", "context"} /\ ~Outside
      BY DEF Parser, Added, Deleted, Context, Read
    <2>2. ~FileHeader /\ ~Skipped /\ ~Hunk /\ ~Path
      BY <2>1 DEF FileHeader, Skipped, Hunk, Path, Read
    <2> QED  BY <2>1, <2>2, ParserCases
  <1>2. diff \in Diffs /\ Placed /\ Content /\ Typed /\ diff' = diff
    BY <1>1 DEF IndexInv, Typed, Read1
  <1>3. /\ at.file \in DOMAIN diff /\ DOMAIN diff = 1..Len(diff) /\ Len(diff) \in Nat
        /\ at.hunk \in DOMAIN theFile.hunks /\ at.hunk # 0 /\ at.line # 0
    <2>1. diff \in Seq(Files)  BY <1>2, DiffsAssumption
    <2> QED  BY <1>1, <1>2, <2>1, DiffType DEF InHunk
  <1>4. /\ file = NameOf(theFile) /\ theFile.new # DevNull /\ Numbered(theHunk)
        /\ NumberOf(theHunk, at.line) =
             IF theHunk.lines[at.line].mark = "deleted" THEN oldLine ELSE newLine
    BY <1>1, HunkLine DEF Outside
  <1> DEFINE new == LineAt(theHunk, at.line)
  <1>5. StillIndex /\ OneAdded(new)
    <2>1. oldLine \in Nat /\ newLine \in Nat  BY <1>2 DEF Typed
    <2>2. CASE Deleted
      <3>1. new = [side |-> Deletions, number |-> oldLine, text |-> raw.text]
        BY <1>1, <1>4, <2>2 DEF LineAt, Deleted, Read
      <3>2. Indexes(Deletions, oldLine)  BY <2>2 DEF Deleted
      <3> QED  BY <1>1, <1>2, <2>1, <3>1, <3>2, IndexesAdds DEF Sides
    <2>3. CASE Added \/ Context
      <3>1. new = [side |-> Additions, number |-> newLine, text |-> raw.text]
        BY <1>1, <1>4, <2>3 DEF LineAt, Added, Context, Read
      <3>2. Indexes(Additions, newLine)  BY <2>3 DEF Added, Context
      <3> QED  BY <1>1, <1>2, <2>1, <3>1, <3>2, IndexesAdds DEF Sides
    <2> QED  BY <2>2, <2>3
  <1> HIDE DEF new
  <1>6. Shows(at.file, at.hunk, at.line)
    BY <1>1, <1>3, <1>4 DEF Shows, theFile, theHunk
  <1>7. ASSUME NEW i \in DOMAIN diff, diff[i].new # DevNull
        PROVE  /\ NameOf(diff[i]) \in DOMAIN index' <=>
                    diff[i].hunks # <<>> /\ (i < at'.file \/ (i = at'.file /\ at'.hunk # 0))
               /\ \A x : x \in ToSet(LinesFor(NameOf(diff[i]))') <=> HasRead(i, x)'
    <2>1. NameOf(diff[i]) = file <=> i = at.file
      BY <1>2, <1>3, <1>4, <1>7, DiffsAssumption DEF theFile
    <2>2. NameOf(diff[i]) \in DOMAIN index <=>
            diff[i].hunks # <<>> /\ (i < at.file \/ (i = at.file /\ at.hunk # 0))
      BY <1>2, <1>7 DEF Content
    <2>3. \A x : x \in ToSet(LinesFor(NameOf(diff[i]))) <=> HasRead(i, x)
      BY <1>2, <1>7 DEF Content
    <2>4. \A x : HasRead(i, x)' <=> HasRead(i, x) \/ (i = at.file /\ x = new)
      BY <1>1, <1>2, <1>6, HasReadStep DEF new
    <2>5. /\ i = at.file => ToSet(LinesFor(NameOf(diff[i]))') = ToSet(LinesFor(NameOf(diff[i]))) \cup {new}
          /\ i # at.file => LinesFor(NameOf(diff[i]))' = LinesFor(NameOf(diff[i]))
      BY <1>2, <1>5, <2>1 DEF StillIndex, OneAdded, LinesFor
    <2>6. (i < at.file \/ (i = at.file /\ at.hunk # 0)) <=> (i < at'.file \/ (i = at'.file /\ at'.hunk # 0))
      <3>1. i \in Nat /\ at.file \in Nat /\ at.hunk \in Nat /\ at.hunk # 0  BY <1>2, <1>3 DEF Placed
      <3>2. \/ at'.file = at.file /\ at'.hunk = at.hunk
            \/ at'.file = at.file /\ at'.hunk = at.hunk + 1
            \/ at'.file = at.file + 1 /\ at'.hunk = 0
        BY <1>1, <1>2, NextPlace
      <3> QED  BY <3>1, <3>2
    <2>7. DOMAIN index' = DOMAIN index  BY <1>5 DEF StillIndex
    <2> QED  BY <2>2, <2>3, <2>4, <2>5, <2>6, <2>7
  <1>8. DOMAIN index' = DOMAIN index  BY <1>5 DEF StillIndex
  <1> QED  BY <1>2, <1>7, <1>8 DEF Content

LEMMA ContentStep ==
  ASSUME IndexInv, PlainDiffs, Parser
  PROVE  Content'
  <1>1. diff \in Diffs /\ Placed /\ Content /\ Read1 /\ ~AllRead
    BY ParserCases DEF IndexInv, Typed
  <1>2. CASE Added \/ Deleted \/ Context
    BY <1>2, ContentOfLine
  <1>3. CASE Path /\ theFile.new # DevNull
    BY <1>3, ContentOfPath
  <1>4. CASE FileHeader \/ Hunk \/ Skipped \/ (Path /\ theFile.new = DevNull)
    <2>1. index' = index
      <3>1. CASE Path /\ theFile.new = DevNull
        <4>1. raw.text = Spelled("b", theFile.new)
          <5>1. raw.mark = "path"  BY <3>1 DEF Path, Read
          <5>2. ~FileHeader /\ ~Skipped /\ ~Hunk /\ ~Added /\ ~Deleted /\ ~Context
            BY <5>1 DEF FileHeader, Skipped, Hunk, Added, Deleted, Context, Read
          <5> QED  BY <5>2, ParserCases
        <4>2. theFile \in Files /\ theFile.new # NoFile  BY <1>1, DiffType
        <4>3. file' = NoFile  BY <3>1, <4>1, <4>2, TrimSpelled DEF Path
        <4> QED  BY <3>1, <4>3 DEF Path
      <3> QED  BY <1>4, <3>1 DEF FileHeader, Hunk, Skipped
    <2>2. ~InHeader(3) \/ theFile.new = DevNull
      <3>1. InHeader(3) => raw.mark = "path"  BY <1>1, RawCases DEF InHeader, Raw
      <3> QED  BY <1>4, <3>1 DEF FileHeader, Hunk, Skipped, Read
    <2>3. Shows(at.file, at.hunk, at.line) => theFile.new = DevNull
      <3>1. SUFFICES ASSUME Shows(at.file, at.hunk, at.line)  PROVE theFile.new = DevNull
        OBVIOUS
      <3>2. at.hunk # 0 /\ at.line # 0
        <4>1. theFile \in Files /\ at.hunk \in DOMAIN theFile.hunks /\ at.line \in DOMAIN theFile.hunks[at.hunk].lines
          BY <1>1, <3>1, DiffType DEF Shows, theFile
        <4>2. theFile.hunks \in Seq(Hunks)  BY <4>1 DEF Files
        <4>3. theFile.hunks[at.hunk] \in Hunks  BY <4>1, <4>2
        <4>4. theFile.hunks[at.hunk].lines \in Seq(Lines)  BY <4>3 DEF Hunks
        <4> QED  BY <4>1, <4>2, <4>4
      <3>3. Skipped /\ raw.mark # "note"
        <4>1. /\ raw = theHunk.lines[at.line]
              /\ Skipped \/ Added \/ Deleted \/ Context
          BY <3>2, ParserCases DEF InHeader
        <4>2. ~Added /\ ~Deleted /\ ~Context
          <5>1. Skipped => Outside \/ raw.mark = "note"  BY DEF Skipped
          <5> QED  BY <1>4, <5>1 DEF FileHeader, Hunk, Skipped, Path, Added, Deleted, Context, Read
        <4> QED  BY <3>1, <4>1, <4>2 DEF Shows, theHunk, theFile
      <3>4. Outside  BY <3>3 DEF Skipped
      <3>5. file = NoFile
        BY <1>1, <3>1, <3>2, <3>4, HunkLine DEF InHunk, Shows, theHunk, theFile
      <3>6. file = IF theFile.new = DevNull THEN NoFile ELSE NameOf(theFile)
        BY <1>1, <3>2 DEF IndexInv, Counting
      <3>7. theFile.new # DevNull => NameOf(theFile) # NoFile  BY <1>1, DiffType, TrimSpelled
      <3> QED  BY <3>5, <3>6, <3>7
    <2> QED  BY <1>1, <2>1, <2>2, <2>3, ContentKept
  <1> QED  BY <1>2, <1>3, <1>4 DEF Parser

\* The diff is left alone, and the parser with it.
LEMMA IndexInvKept ==
  ASSUME IndexInv, UNCHANGED <<diff, parser>>
  PROVE  IndexInv'
  <1>1. /\ diff' = diff /\ at' = at /\ file' = file /\ oldLine' = oldLine /\ newLine' = newLine
        /\ index' = index
    BY DEF parser
  <1>2. Typed'
    BY <1>1 DEF IndexInv, Typed, Placed, AllRead, theFile, theHunk
  <1>3. Content'
    <2>1. ASSUME NEW i, NEW x  PROVE HasRead(i, x)' <=> HasRead(i, x)
      BY <1>1 DEF HasRead, Shows, WasRead
    <2>2. ASSUME NEW p  PROVE LinesFor(p)' = LinesFor(p)
      BY <1>1 DEF LinesFor
    <2> QED  BY <1>1, <2>1, <2>2 DEF IndexInv, Content
  <1>4. Counting'
    <2>1. InStep' <=> InStep
      BY <1>1 DEF InStep, theHunk, theFile, InStepAt, Numbered, BeforeOf
    <2>2. theFile' = theFile  BY <1>1 DEF theFile
    <2> QED  BY <1>1, <2>1, <2>2 DEF IndexInv, Counting, AllRead
  <1> QED  BY <1>2, <1>3, <1>4 DEF IndexInv

LEMMA IndexInvInit ==
  ASSUME Init
  PROVE  IndexInv
  <1>1. diff \in Seq(Files) /\ at = [file |-> 1, hunk |-> 0, line |-> 1] /\ file = NoFile
        /\ oldLine = 0 /\ newLine = 0 /\ index = [f \in {} |-> <<>>]
    BY DiffsAssumption DEF Init
  <1>2. Len(diff) \in Nat /\ DOMAIN diff = 1..Len(diff)  BY <1>1
  <1>3. Placed
    <2>1. at \in [file : 1..(Len(diff) + 1), hunk : Nat, line : Nat]  BY <1>1, <1>2
    <2>2. ~AllRead => Len(theFile.hunks) \in Nat
      <3>1. ~AllRead => 1 \in DOMAIN diff  BY <1>1, <1>2 DEF AllRead
      <3>2. ~AllRead => diff[1] \in Files  BY <1>1, <3>1
      <3> QED  BY <1>1, <3>2 DEF theFile, Files
    <2>3. at.line \in 1..Len(Header(theFile))
      <3> DEFINE n == Len(Header(theFile))
      <3>1. n \in 1..3  BY HeaderLength
      <3> HIDE DEF n
      <3>2. at.line \in 1..n  BY <1>1, <3>1
      <3> QED  BY <3>2 DEF n
    <2> QED  BY <1>1, <2>1, <2>2, <2>3 DEF Placed
  <1>4. Typed
    <2>1. <<>> \in Paths  BY DEF Paths
    <2> QED  BY <1>1, <1>3, <2>1 DEF Typed, Init, NoFile
  <1>5. Content
    <2>1. \A i \in DOMAIN diff : ~(i < 1) /\ ~(i = 1 /\ 0 # 0)  BY <1>2
    <2>2. \A i \in DOMAIN diff : \A k, l : Shows(i, k, l) => ~WasRead(i, k, l)
      <3> SUFFICES ASSUME NEW i \in DOMAIN diff, NEW k, NEW l, Shows(i, k, l)  PROVE ~WasRead(i, k, l)
        OBVIOUS
      <3>1. diff[i] \in Files  BY <1>1
      <3>2. diff[i].hunks \in Seq(Hunks)  BY <3>1 DEF Files
      <3>3. k \in DOMAIN diff[i].hunks  BY DEF Shows
      <3>4. k \in Nat /\ k > 0  BY <3>2, <3>3
      <3> QED  BY <1>1, <1>2, <3>4 DEF WasRead
    <2>3. \A p : ToSet(LinesFor(p)) = {}  BY <1>1 DEF LinesFor, ToSet
    <2> QED  BY <1>1, <2>1, <2>2, <2>3 DEF Content, HasRead
  <1>6. Counting  BY <1>1 DEF Counting
  <1> QED  BY <1>4, <1>5, <1>6 DEF IndexInv

LEMMA IndexInvStep ==
  ASSUME IndexInv, PlainDiffs, [Next]_vars
  PROVE  IndexInv'
  <1>1. CASE Parser
    BY <1>1, TypedStep, ContentStep, CountingStep DEF IndexInv
  <1>2. CASE ~Parser
    <2>1. UNCHANGED <<diff, parser>>
      BY <1>2 DEF Parser, Next, vars, parser, UnknownFile, Lookup, BestAnchorMatch, ByAnchor,
                  ByClaim, FileLevel, Resolves, Collected
    <2> QED  BY <2>1, IndexInvKept
  <1> QED  BY <1>1, <1>2

\* The lines of a file of the diff, by their places.
LEMMA LinesOfFile ==
  ASSUME diff \in Diffs, NEW i \in DOMAIN diff, NEW x
  PROVE  x \in LinesOf(diff[i]) <=> \E k, l : Shows(i, k, l) /\ x = LineAt(diff[i].hunks[k], l)
  <1> DEFINE f == diff[i]
             At(h) == {LineAt(h, l) : l \in {j \in DOMAIN h.lines : h.lines[j].mark # "note"}}
  <1>1. LinesOf(f) = UNION {At(h) : h \in {g \in ToSet(f.hunks) : g.old # 0 \/ g.new # 0}}
    BY DEF LinesOf, LineAt
  <1>2. \A h : x \in At(h) <=> \E l \in DOMAIN h.lines : h.lines[l].mark # "note" /\ x = LineAt(h, l)
    OBVIOUS
  <1> HIDE DEF At
  <1>3. x \in LinesOf(f) <=> \E h \in ToSet(f.hunks) : Numbered(h) /\ x \in At(h)
    BY <1>1 DEF Numbered
  <1>4. \A h : h \in ToSet(f.hunks) <=> \E k \in DOMAIN f.hunks : h = f.hunks[k]
    BY DEF ToSet
  <1> QED  BY <1>2, <1>3, <1>4 DEF Shows

\* What the invariant says of the index is what the property does.
LEMMA IndexInvIndexIsDiff ==
  ASSUME IndexInv, PlainDiffs
  PROVE  IndexIsDiff
  <1>1. diff \in Diffs /\ Placed /\ Content /\ (file # NoFile => file \in DOMAIN index)
    BY DEF IndexInv, Typed
  <1>2. diff \in Seq(Files) /\ Len(diff) \in Nat /\ DOMAIN diff = 1..Len(diff) /\ at.file \in 1..(Len(diff) + 1)
    BY <1>1, DiffsAssumption DEF Placed
  <1>3. \A f : f \in Shown <=> \E i \in DOMAIN diff : f = diff[i] /\ diff[i].new # DevNull /\ diff[i].hunks # <<>>
    BY DEF Shown, ToSet
  <1>4. ASSUME NEW path \in DOMAIN index \cup ({file} \ {NoFile})
        PROVE  \E f \in Shown : NameOf(f) = path
    <2>1. path \in DOMAIN index  BY <1>1
    <2>2. PICK i \in DOMAIN diff : NameOf(diff[i]) = path /\ diff[i].new # DevNull /\ diff[i].hunks # <<>>
      BY <1>1, <2>1 DEF Content
    <2> QED  BY <1>3, <2>2
  <1>5. ASSUME NEW f \in Shown
        PROVE  /\ ToSet(LinesFor(NameOf(f))) \subseteq LinesOf(f)
               /\ AllRead => ToSet(LinesFor(NameOf(f))) = LinesOf(f)
    <2>1. PICK i \in DOMAIN diff : f = diff[i] /\ diff[i].new # DevNull  BY <1>3
    <2>2. \A x : x \in ToSet(LinesFor(NameOf(f))) <=> HasRead(i, x)
      BY <1>1, <2>1 DEF Content
    <2>3. \A x : x \in LinesOf(f) <=> \E k, l : Shows(i, k, l) /\ x = LineAt(diff[i].hunks[k], l)
      BY <1>1, <2>1, LinesOfFile
    <2>4. AllRead => \A k, l : WasRead(i, k, l)
      BY <1>2 DEF AllRead, WasRead
    <2>5. \A x : HasRead(i, x) => x \in LinesOf(f)
      BY <2>3, Zenon DEF HasRead
    <2>6. AllRead => \A x : x \in LinesOf(f) => HasRead(i, x)
      BY <2>3, <2>4, Zenon DEF HasRead
    <2> QED  BY <2>2, <2>5, <2>6
  <1>6. ASSUME NEW f  PROVE MergeBehind(f) = {}
    <2>1. \A i \in 1..(Len(diff) - 1) : ~diff[i + 1].combined
      BY <1>1, <1>2 DEF PlainDiffs, NoMerges
    <2> QED  BY <2>1 DEF MergeBehind
  <1> QED  BY <1>4, <1>5, <1>6 DEF IndexIsDiff, LinesFor

\* The index has nothing but the files of the diff, each under its name or what git makes of
\* one it quotes, with the lines of its own hunks under their numbers, and in the end all of
\* them: whatever diff git prints that has no merge and no added line that reads as a path
\* (parseDiffIndex).
THEOREM IndexIsTheDiff ==
  ASSUME PlainDiffs
  PROVE  Spec => []IndexIsDiff
  <1>1. Init => IndexInv  BY IndexInvInit
  <1>2. IndexInv /\ [Next]_vars => IndexInv'  BY IndexInvStep
  <1>3. IndexInv => IndexIsDiff  BY IndexInvIndexIsDiff
  <1> QED  BY <1>1, <1>2, <1>3, PTL DEF Spec

-----------------------------------------------------------------------------
(* A concern lies on the best of the lines *)

\* The lines that are searched for an anchor.
Scored(c, f) == IF Len(c.anchor) >= MinAnchorLen THEN index[f] ELSE <<>>

\* n lines are scored, the rest is not.
ScoredTo(c, f, lines, best, n) ==
  /\ n \in 0..Len(Scored(c, f)) /\ lines = SubSeq(Scored(c, f), n + 1, Len(Scored(c, f)))
  /\ BestOf(c, Scored(c, f), n, best)

Scanning ==
  /\ scan # None \/ result # None => AllRead
  /\ scan # None =>
       /\ scan = [claim |-> scan.claim, file |-> scan.file, best |-> scan.best, lines |-> scan.lines]
       /\ scan.claim \in Concerns /\ scan.file \in LookupFile(scan.claim.file)
       /\ scan.file \in DOMAIN index
       /\ \E n \in Nat : ScoredTo(scan.claim, scan.file, scan.lines, scan.best, n)

AnchorInv == IndexInv /\ Scanning /\ ResolvedAsReported

LEMMA MinIsLeast ==
  ASSUME NEW S \in SUBSET Nat, S # {}
  PROVE  Min(S) \in S /\ \A y \in S : Min(S) <= y
  <1>1. \E x \in S : \A y \in S : ~(<<y, x>> \in OpToRel(<, Nat))
    BY WFMin, NatLessThanWellFounded
  <1>2. \A x, y \in Nat : y < x => <<y, x>> \in OpToRel(<, Nat)
    BY DEF OpToRel
  <1>3. \E x \in S : \A y \in S : x <= y
    <2>1. PICK x \in S : \A y \in S : ~(<<y, x>> \in OpToRel(<, Nat))  BY <1>1
    <2>2. ASSUME NEW y \in S  PROVE x <= y
      <3>1. x \in Nat /\ y \in Nat /\ ~(y < x)  BY <1>2, <2>1
      <3> QED  BY <3>1
    <2> QED  BY <2>2
  <1> QED  BY <1>3 DEF Min

\* The first line the concern claims.
LEMMA ClaimedIs ==
  ASSUME NEW c, NEW lines, Len(lines) \in Nat,
         NEW i, i = Claimed(c, lines), i # 0
  PROVE  i \in 1..Len(lines) /\ c.line # 0 /\ lines[i].number = c.line /\ OnSide(lines[i], c.side)
  <1> DEFINE I == {j \in 1..Len(lines) : c.line # 0 /\ lines[j].number = c.line /\ OnSide(lines[j], c.side)}
  <1>1. i = IF I # {} THEN Min(I) ELSE 0
    BY DEF Claimed, SelectInSeq
  <1>2. I \in SUBSET Nat /\ I # {}  BY <1>1
  <1>3. i \in I
    <2> HIDE DEF I
    <2> QED  BY <1>1, <1>2, MinIsLeast
  <1> QED  BY <1>3

\* No line of the index has the number 0.
LEMMA NumbersCount ==
  ASSUME IndexInv, NEW p \in DOMAIN index, NEW l \in ToSet(index[p])
  PROVE  \E f \in Shown : NameOf(f) = p /\ l \in LinesOf(f) /\ l.number # 0 /\ l \in Indexed
  <1>1. diff \in Diffs /\ Content /\ index[p] \in Seq(Indexed)  BY DEF IndexInv, Typed
  <1>2. PICK i \in DOMAIN diff : NameOf(diff[i]) = p /\ diff[i].new # DevNull /\ diff[i].hunks # <<>>
    BY <1>1 DEF Content
  <1>3. HasRead(i, l)  BY <1>1, <1>2 DEF Content, LinesFor
  <1>4. PICK k, n : Shows(i, k, n) /\ l = LineAt(diff[i].hunks[k], n)  BY <1>3 DEF HasRead
  <1>5. diff[i] \in Shown /\ l \in LinesOf(diff[i])
    BY <1>1, <1>2, <1>4, LinesOfFile DEF Shown, ToSet
  <1> DEFINE h == diff[i].hunks[k]
  <1>6. h \in Hunks /\ n \in Nat \ {0} /\ h.lines[n] \in Lines /\ n \in DOMAIN h.lines
    <2>1. diff[i] \in Files  BY <1>1, DiffsAssumption
    <2>2. diff[i].hunks \in Seq(Hunks) /\ k \in DOMAIN diff[i].hunks  BY <1>4, <2>1 DEF Files, Shows
    <2>3. h \in Hunks  BY <2>2
    <2>4. h.lines \in Seq(Lines) /\ n \in DOMAIN h.lines  BY <1>4, <2>3 DEF Hunks, Shows
    <2>5. n \in 1..Len(h.lines) /\ Len(h.lines) \in Nat  BY <2>4
    <2> QED  BY <2>3, <2>4, <2>5
  <1>7. /\ h.lines[n].mark \in {"deleted", "context"} => h.old # 0
        /\ h.lines[n].mark \in {"added", "context"} => h.new # 0
    <2>1. h.old + h.new # 0
      <3>1. h.old \in Nat /\ h.new \in Nat  BY <1>6 DEF Hunks
      <3> QED  BY <1>4, <3>1 DEF Shows, Numbered
    <2>2. k \in DOMAIN diff[i].hunks  BY <1>4 DEF Shows
    <2> QED  BY <1>1, <1>6, <2>1, <2>2, DiffsAssumption
  <1>8. h.lines[n].mark \in {"added", "deleted", "context"}
    BY <1>4, <1>6 DEF Lines, Shows
  <1>9. l.number # 0
    <2> DEFINE o == h.old
               w == h.new
               a == BeforeOf(h, n, {"deleted", "context"})
               b == BeforeOf(h, n, {"added", "context"})
    <2>1. o \in Nat /\ w \in Nat /\ a \in Nat /\ b \in Nat  BY <1>6, BeforeStep DEF Hunks
    <2>2. l.number = IF h.lines[n].mark = "deleted" THEN o + a ELSE w + b
      BY <1>4, NumberIs DEF LineAt
    <2>3. IF h.lines[n].mark = "deleted" THEN o # 0 ELSE w # 0  BY <1>7, <1>8
    <2> HIDE DEF o, w, a, b
    <2> QED  BY <2>1, <2>2, <2>3
  <1>10. l \in Indexed  BY <1>1 DEF ToSet
  <1> QED  BY <1>2, <1>5, <1>9, <1>10

\* A name for a file: its path as the diff has it, or as it is if nothing is taken off it.
NameFor(name, f) ==
  \/ name = Spelled("b", f.new)
  \/ name = f.new /\ f.new = NameOf(f) /\ (Len(f.new) > 1 => f.new[1] \notin OneLetter)

\* A file that is named is the only candidate.
LEMMA NamedFile ==
  ASSUME IndexInv, AllRead, NEW c \in Concerns, NEW f \in Shown, NameFor(c.file, f)
  PROVE  LookupFile(c.file) = {NameOf(f)} /\ TrimDiffPath(c.file) = NameOf(f)
  <1>1. diff \in Diffs /\ Placed /\ Content  BY DEF IndexInv, Typed
  <1>2. diff \in Seq(Files) /\ Len(diff) \in Nat /\ DOMAIN diff = 1..Len(diff) /\ at.file \in 1..(Len(diff) + 1)
    BY <1>1, DiffsAssumption DEF Placed
  <1>3. PICK i \in DOMAIN diff : f = diff[i] /\ diff[i].new # DevNull /\ diff[i].hunks # <<>>
    BY DEF Shown, ToSet
  <1>4. NameOf(f) \in DOMAIN index
    <2>1. NameOf(diff[i]) \in DOMAIN index
      BY <1>1, <1>2, <1>3 DEF Content, AllRead
    <2> QED  BY <1>3, <2>1
  <1>5. f \in Files /\ f.new # NoFile /\ f.new # DevNull
    BY <1>1, <1>2, <1>3, DiffsAssumption
  <1>6. TrimDiffPath(c.file) = NameOf(f)
    <2>1. CASE c.file = Spelled("b", f.new)  BY <1>5, <2>1, TrimSpelled
    <2>2. CASE c.file = f.new /\ f.new = NameOf(f) /\ (Len(f.new) > 1 => f.new[1] \notin OneLetter)
      BY <1>5, <2>2 DEF TrimDiffPath
    <2> QED  BY <2>1, <2>2 DEF NameFor
  <1> QED  BY <1>4, <1>6 DEF LookupFile

\* The scan ends with the best of all lines.
LEMMA PinnedToBestOf ==
  ASSUME NEW c, NEW f, NEW to, NEW best, Len(c.anchor) >= MinAnchorLen,
         Len(index[f]) \in Nat, DOMAIN index[f] = 1..Len(index[f]),
         to.file = f, BestOf(c, index[f], Len(index[f]), best),
         best # NoMatch => to.line = best.line.number /\ to.side = best.line.side
  PROVE  PinnedToBest(c, to)
  <1> DEFINE lines == index[f]
             Score(i) == IF OnSide(lines[i], c.side) THEN ScoreAnchor(lines[i].text, c.anchor) ELSE 0
             Off(i) == IF c.line = 0 THEN 0 ELSE Distance(lines[i].number, c.line)
             Beats(i, j) == \/ Score(i) > Score(j)
                            \/ Score(i) = Score(j) /\ (Off(i) < Off(j) \/ (Off(i) = Off(j) /\ i < j))
  <1>1. \A i : Score(i) = ScoreOf(c, lines[i]) /\ Off(i) = OffOf(c, lines[i])
    BY DEF ScoreOf, OffOf
  <1>2. \A i, j : Beats(i, j) <=> BeatsIn(c, lines, i, j)
    BY <1>1 DEF BeatsIn
  <1>3. PinnedToBest(c, to) <=>
          ((\E i \in DOMAIN lines : Score(i) > 0) =>
             \E i \in DOMAIN lines :
               /\ Score(i) > 0 /\ \A j \in DOMAIN lines \ {i} : ~Beats(j, i)
               /\ lines[i].number = to.line /\ lines[i].side = to.side)
    BY DEF PinnedToBest
  <1> HIDE DEF Score, Off, Beats, lines
  <1>4. CASE \A i \in 1..Len(lines) : ScoreOf(c, lines[i]) = 0
    BY <1>1, <1>3, <1>4 DEF lines
  <1>5. ASSUME NEW i \in 1..Len(lines),
               best = [score |-> ScoreOf(c, lines[i]), line |-> lines[i]],
               ScoreOf(c, lines[i]) > 0,
               \A j \in (1..Len(lines)) \ {i} : ~BeatsIn(c, lines, j, i)
        PROVE  PinnedToBest(c, to)
    <2>1. best # NoMatch /\ best.line = lines[i]
      BY <1>5 DEF NoMatch
    <2>2. to.line = lines[i].number /\ to.side = lines[i].side  BY <2>1
    <2>3. Score(i) > 0 /\ \A j \in DOMAIN lines \ {i} : ~Beats(j, i)
      BY <1>1, <1>2, <1>5 DEF lines
    <2> QED  BY <1>3, <1>5, <2>2, <2>3 DEF lines
  <1> QED  BY <1>4, <1>5 DEF BestOf, lines

\* The scan goes on in an index that does not change.
LEMMA ScanningAfter ==
  ASSUME AllRead, UNCHANGED <<diff, parser>>, NEW c \in Concerns, NEW f \in DOMAIN index,
         f \in LookupFile(c.file), NEW best, NEW lines,
         scan' = [claim |-> c, file |-> f, best |-> best, lines |-> lines],
         NEW n \in Nat, ScoredTo(c, f, lines, best, n)
  PROVE  Scanning'
  <1>1. UNCHANGED <<diff, at, index>>  BY DEF parser
  <1>2. /\ scan'.claim = c /\ scan'.file = f /\ scan'.best = best /\ scan'.lines = lines
    OBVIOUS
  <1>3. LookupFile(c.file)' = LookupFile(c.file) /\ Scored(c, f)' = Scored(c, f) /\ AllRead' = AllRead
    BY <1>1 DEF LookupFile, Scored, AllRead
  <1>4. ScoredTo(c, f, lines, best, n)' <=> ScoredTo(c, f, lines, best, n)
    BY <1>3 DEF ScoredTo, BestOf, BeatsIn
  <1> QED  BY <1>1, <1>2, <1>3, <1>4 DEF Scanning

\* The file is found, and none of its lines is scored yet.
LEMMA LookupScans ==
  ASSUME AnchorInv, NEW c \in Concerns, NEW f \in DOMAIN index, Lookup(c, f)
  PROVE  Scanning'
  <1>1. /\ scan' = [claim |-> c, file |-> f, best |-> NoMatch, lines |-> Scored(c, f)]
        /\ AllRead /\ f \in LookupFile(c.file) /\ UNCHANGED <<diff, parser>>
    BY DEF Lookup, Scored
  <1> DEFINE S == Scored(c, f)
  <1>2. S \in Seq(Indexed)
    BY EmptySeq DEF AnchorInv, IndexInv, Typed, Scored
  <1>3. SubSeq(S, 1, Len(S)) = S /\ Len(S) \in Nat  BY <1>2, SubSeqFull
  <1>4. BestOf(c, S, 0, NoMatch)  BY DEF BestOf
  <1>5. ScoredTo(c, f, S, NoMatch, 0)
    <2> HIDE DEF S
    <2>1. 0 \in 0..Len(S) /\ S = SubSeq(S, 0 + 1, Len(S))  BY <1>3
    <2> QED  BY <1>4, <2>1 DEF S, ScoredTo
  <1> QED  BY <1>1, <1>5, ScanningAfter

\* One line is scored.
LEMMA MatchScans ==
  ASSUME AnchorInv, BestAnchorMatch
  PROVE  Scanning'
  <1> DEFINE c == scan.claim
             f == scan.file
             S == Scored(c, f)
             l == Head(scan.lines)
             score == ScoreAnchor(l.text, c.anchor)
             match == IF OnSide(l, c.side) /\ score # 0 /\ Better(l, score)
                      THEN [score |-> score, line |-> l] ELSE scan.best
  <1>1. /\ scan = [claim |-> c, file |-> f, best |-> scan.best, lines |-> scan.lines]
        /\ AllRead /\ c \in Concerns /\ f \in LookupFile(c.file) /\ f \in DOMAIN index
        /\ UNCHANGED <<diff, parser>> /\ scan.lines # <<>>
        /\ scan' = [scan EXCEPT !.lines = Tail(@), !.best = match]
    BY DEF AnchorInv, Scanning, BestAnchorMatch
  <1>2. PICK n \in Nat : ScoredTo(c, f, scan.lines, scan.best, n)
    BY DEF AnchorInv, Scanning, BestAnchorMatch
  <1>3. S \in Seq(Indexed) /\ Len(S) \in Nat
    <2>1. S \in Seq(Indexed)
      BY <1>1, EmptySeq DEF AnchorInv, IndexInv, Typed, Scored
    <2> QED  BY <2>1
  <1>4. n < Len(S) /\ n \in 0..Len(S) /\ scan.lines = SubSeq(S, n + 1, Len(S))
    <2>1. n \in 0..Len(S) /\ scan.lines = SubSeq(S, n + 1, Len(S))  BY <1>2 DEF ScoredTo
    <2> HIDE DEF S
    <2>2. n = Len(S) => SubSeq(S, n + 1, Len(S)) = <<>>  BY <1>3, SubSeqEmpty
    <2> QED  BY <1>1, <1>3, <2>1, <2>2
  <1>5. l = S[n + 1] /\ Tail(scan.lines) = SubSeq(S, n + 2, Len(S))
    <2> HIDE DEF S
    <2>1. n + 1 \in 1..Len(S) /\ Len(S) \in (n + 1)..Len(S) /\ n + 1 + 1 = n + 2  BY <1>3, <1>4
    <2> QED  BY <1>3, <1>4, <2>1, HeadTailOfSubSeq
  <1>6. BestOf(c, S, n + 1, match)
    <2>1. c \in Claims  BY <1>1, AnchorsAssumption DEF Claims, Sides
    <2>2. BestOf(c, S, n, scan.best)  BY <1>2 DEF ScoredTo
    <2>3. match = IF /\ OnSide(S[n + 1], c.side) /\ ScoreAnchor(S[n + 1].text, c.anchor) # 0
                     /\ \/ ScoreAnchor(S[n + 1].text, c.anchor) > scan.best.score
                        \/ /\ ScoreAnchor(S[n + 1].text, c.anchor) = scan.best.score /\ c.line # 0
                           /\ Distance(S[n + 1].number, c.line) < Distance(scan.best.line.number, c.line)
                  THEN [score |-> ScoreAnchor(S[n + 1].text, c.anchor), line |-> S[n + 1]] ELSE scan.best
      BY <1>5 DEF Better
    <2> HIDE DEF match, S, c
    <2> QED  BY <1>3, <1>4, <2>1, <2>2, <2>3, BestStep
  <1>7. ScoredTo(c, f, Tail(scan.lines), match, n + 1)
    <2> HIDE DEF match
    <2>1. n + 1 \in 0..Len(S) /\ n + 1 + 1 = n + 2  BY <1>3, <1>4
    <2> QED  BY <1>5, <1>6, <2>1 DEF ScoredTo
  <1>8. scan' = [claim |-> c, file |-> f, best |-> match, lines |-> Tail(scan.lines)]
    <2> HIDE DEF match
    <2> QED  BY <1>1
  <1> DEFINE rest == Tail(scan.lines)
             m == n + 1
  <1>9. m \in Nat /\ ScoredTo(c, f, rest, match, m)  BY <1>7
  <1>10. /\ scan' = [claim |-> c, file |-> f, best |-> match, lines |-> rest]
         /\ AllRead /\ c \in Concerns /\ f \in LookupFile(c.file) /\ f \in DOMAIN index
         /\ UNCHANGED <<diff, parser>>
    BY <1>1, <1>8
  <1> HIDE DEF c, f, match, rest, m
  <1> QED  BY <1>9, <1>10, ScanningAfter

\* What a concern is resolved as is right for the index as it stands.
Right(c, to) ==
  /\ PlacedInDiff(c, to) /\ OfNamedFile(c, to)
  /\ to.file \in DOMAIN index /\ Len(c.anchor) >= MinAnchorLen => PinnedToBest(c, to)

LEMMA ResolvedAfter ==
  ASSUME UNCHANGED <<diff, parser>>, NEW c, NEW to, Right(c, to), result' = [claim |-> c, to |-> to]
  PROVE  ResolvedAsReported'
  <1>1. diff' = diff /\ index' = index  BY DEF parser
  <1>2. result'.claim = c /\ result'.to = to  OBVIOUS
  <1>3. PlacedInDiff(c, to)' <=> PlacedInDiff(c, to)
    BY <1>1 DEF PlacedInDiff, Shown
  <1>4. OfNamedFile(c, to)' <=> OfNamedFile(c, to)
    BY <1>1 DEF OfNamedFile, Shown
  <1>5. PinnedToBest(c, to)' <=> PinnedToBest(c, to)
    BY <1>1 DEF PinnedToBest
  <1> QED  BY <1>1, <1>2, <1>3, <1>4, <1>5 DEF ResolvedAsReported, Right

\* No file has the name: it is not that of a file of the diff.
LEMMA UnknownIsRight ==
  ASSUME AnchorInv, NEW c \in Concerns, UnknownFile(c)
  PROVE  ResolvedAsReported'
  <1> DEFINE to == [file |-> TrimDiffPath(c.file), line |-> 0, side |-> AnySide]
  <1>1. /\ LookupFile(c.file) = {} /\ AllRead /\ UNCHANGED <<diff, parser>>
        /\ result' = [claim |-> c, to |-> to]
    BY DEF UnknownFile
  <1>2. PlacedInDiff(c, to)  BY DEF PlacedInDiff
  <1>3. OfNamedFile(c, to)
    <2> SUFFICES ASSUME NEW f \in Shown, NameFor(c.file, f)  PROVE FALSE
      BY DEF OfNamedFile, NameFor
    <2> QED  BY <1>1, NamedFile DEF AnchorInv
  <1>4. to.file \notin DOMAIN index  BY <1>1 DEF LookupFile
  <1>5. Right(c, to)  BY <1>2, <1>3, <1>4 DEF Right
  <1> HIDE DEF to
  <1> QED  BY <1>1, <1>5, ResolvedAfter

\* All lines are scored: the concern is of the file it names, and the best is the best of them.
LEMMA ScannedAll ==
  ASSUME AnchorInv, Scanned
  PROVE  /\ scan.claim \in Concerns /\ scan.file \in DOMAIN index /\ AllRead
         /\ index[scan.file] \in Seq(Indexed)
         /\ \A to : to.file = scan.file => OfNamedFile(scan.claim, to)
         /\ BestOf(scan.claim, Scored(scan.claim, scan.file),
                   Len(Scored(scan.claim, scan.file)), scan.best)
  <1> DEFINE c == scan.claim
             f == scan.file
             S == Scored(c, f)
  <1>1. scan # None /\ scan.lines = <<>> /\ c \in Concerns /\ f \in DOMAIN index /\ AllRead
        /\ f \in LookupFile(c.file)
    BY DEF Scanned, AnchorInv, Scanning
  <1>2. index[f] \in Seq(Indexed)  BY <1>1 DEF AnchorInv, IndexInv, Typed
  <1>3. S \in Seq(Indexed) /\ Len(S) \in Nat
    <2>1. S \in Seq(Indexed)  BY <1>2, EmptySeq DEF Scored
    <2> QED  BY <2>1
  <1>4. ASSUME NEW to, to.file = f  PROVE OfNamedFile(c, to)
    <2> SUFFICES ASSUME NEW g \in Shown, NameFor(c.file, g)  PROVE f = NameOf(g)
      BY <1>4 DEF OfNamedFile, NameFor
    <2> QED  BY <1>1, NamedFile DEF AnchorInv
  <1>5. PICK n \in Nat : ScoredTo(c, f, scan.lines, scan.best, n)
    BY DEF AnchorInv, Scanning, Scanned
  <1>6. n \in 0..Len(S) /\ SubSeq(S, n + 1, Len(S)) = <<>> /\ BestOf(c, S, n, scan.best)
    BY <1>1, <1>5 DEF ScoredTo
  <1> HIDE DEF S
  <1>7. n = Len(S)
    <2> SUFFICES ASSUME n # Len(S)  PROVE FALSE
      OBVIOUS
    <2>1. n + 1 <= Len(S) /\ \A i \in (n + 1)..Len(S) : S[i] \in Indexed  BY <1>3, <1>6
    <2>2. Len(SubSeq(S, n + 1, Len(S))) = Len(S) - (n + 1) + 1
      BY <1>3, <2>1, SubSeqProperties
    <2>3. Len(SubSeq(S, n + 1, Len(S))) = 0  BY <1>6
    <2> QED  BY <1>3, <1>6, <2>2, <2>3
  <1> QED  BY <1>1, <1>2, <1>4, <1>6, <1>7 DEF S

\* A line of the index is one of the diff.
LEMMA PlacedOn ==
  ASSUME IndexInv, NEW f \in DOMAIN index, NEW i \in DOMAIN index[f], NEW c, NEW to,
         to.file = f, to.line = index[f][i].number, to.side = index[f][i].side,
         OnSide(index[f][i], c.side)
  PROVE  PlacedInDiff(c, to)
  <1>1. index[f][i] \in ToSet(index[f])  BY DEF ToSet
  <1>2. PICK g \in Shown : NameOf(g) = f /\ index[f][i] \in LinesOf(g) /\ index[f][i].number # 0
    BY <1>1, NumbersCount
  <1> QED  BY <1>2 DEF PlacedInDiff

LEMMA ByAnchorIsRight ==
  ASSUME AnchorInv, ByAnchor
  PROVE  ResolvedAsReported'
  <1> DEFINE c == scan.claim
             f == scan.file
             lines == index[f]
             to == [file |-> f, line |-> scan.best.line.number, side |-> scan.best.line.side]
  <1>1. Scanned /\ scan.best # NoMatch /\ UNCHANGED <<diff, parser>> /\ result' = [claim |-> c, to |-> to]
    BY DEF ByAnchor, Resolves
  <1>2. /\ c \in Concerns /\ f \in DOMAIN index /\ lines \in Seq(Indexed)
        /\ OfNamedFile(c, to) /\ BestOf(c, Scored(c, f), Len(Scored(c, f)), scan.best)
    BY <1>1, ScannedAll
  <1>3. Len(lines) \in Nat /\ DOMAIN lines = 1..Len(lines)  BY <1>2
  <1>4. Len(c.anchor) >= MinAnchorLen
    <2> SUFFICES ASSUME ~(Len(c.anchor) >= MinAnchorLen)  PROVE FALSE
      OBVIOUS
    <2>1. Scored(c, f) = <<>>  BY DEF Scored
    <2>2. BestOf(c, <<>>, 0, scan.best)  BY <1>2, <2>1
    <2> QED  BY <1>1, <2>2 DEF BestOf
  <1>5. BestOf(c, lines, Len(lines), scan.best)  BY <1>2, <1>4 DEF Scored
  <1>6. PICK i \in 1..Len(lines) : /\ scan.best = [score |-> ScoreOf(c, lines[i]), line |-> lines[i]]
                                   /\ ScoreOf(c, lines[i]) > 0
    BY <1>1, <1>5 DEF BestOf
  <1>7. OnSide(lines[i], c.side)  BY <1>6 DEF ScoreOf
  <1>8. PlacedInDiff(c, to)
    <2>1. scan.best.line = lines[i] /\ i \in DOMAIN lines  BY <1>3, <1>6
    <2>2. to.file = f /\ to.line = lines[i].number /\ to.side = lines[i].side  BY <2>1
    <2> HIDE DEF to, c, f
    <2> QED  BY <1>2, <1>7, <2>1, <2>2, PlacedOn DEF AnchorInv
  <1>9. PinnedToBest(c, to)
    <2>1. to.file = f /\ to.line = scan.best.line.number /\ to.side = scan.best.line.side  OBVIOUS
    <2> DEFINE best == scan.best
    <2> HIDE DEF to, c, f, best
    <2> QED  BY <1>3, <1>4, <1>5, <2>1, PinnedToBestOf DEF best
  <1>10. Right(c, to)  BY <1>2, <1>8, <1>9 DEF Right
  <1> HIDE DEF to, c
  <1> QED  BY <1>1, <1>10, ResolvedAfter

\* Without a match the concern lies on the line it claims, or on the file: no line matches.
LEMMA NoMatchIsBest ==
  ASSUME AnchorInv, Scanned, scan.best = NoMatch, NEW to, to.file = scan.file,
         Len(scan.claim.anchor) >= MinAnchorLen
  PROVE  PinnedToBest(scan.claim, to)
  <1> DEFINE c == scan.claim
             f == scan.file
  <1>1. index[f] \in Seq(Indexed) /\ BestOf(c, index[f], Len(index[f]), NoMatch)
    BY ScannedAll DEF Scored
  <1>2. Len(index[f]) \in Nat /\ DOMAIN index[f] = 1..Len(index[f])  BY <1>1
  <1> HIDE DEF c, f
  <1>3. Len(c.anchor) >= MinAnchorLen /\ to.file = f  BY DEF c, f
  <1>4. PinnedToBest(c, to)
    <2> DEFINE best == NoMatch
    <2>1. BestOf(c, index[f], Len(index[f]), best)
          /\ (best # NoMatch => to.line = best.line.number /\ to.side = best.line.side)
      BY <1>1
    <2> HIDE DEF best
    <2> QED  BY <1>2, <1>3, <2>1, PinnedToBestOf
  <1> QED  BY <1>4 DEF c

LEMMA ByClaimIsRight ==
  ASSUME AnchorInv, ByClaim
  PROVE  ResolvedAsReported'
  <1> DEFINE c == scan.claim
             f == scan.file
             i == Claimed(c, index[f])
             to == [file |-> f, line |-> c.line, side |-> index[f][i].side]
  <1>1. /\ Scanned /\ scan.best = NoMatch /\ UNCHANGED <<diff, parser>> /\ i # 0
        /\ result' = [claim |-> c, to |-> to]
    BY DEF ByClaim, Resolves
  <1>2. /\ f \in DOMAIN index /\ index[f] \in Seq(Indexed) /\ OfNamedFile(c, to)
    BY <1>1, ScannedAll
  <1>3. i \in DOMAIN index[f] /\ index[f][i].number = c.line /\ OnSide(index[f][i], c.side)
    <2>1. Len(index[f]) \in Nat /\ DOMAIN index[f] = 1..Len(index[f])  BY <1>2
    <2> DEFINE n == Claimed(c, index[f])
               lines == index[f]
    <2>2. n = Claimed(c, lines) /\ n # 0 /\ Len(lines) \in Nat  BY <1>1, <2>1
    <2> HIDE DEF n, lines, c
    <2>3. n \in 1..Len(lines) /\ lines[n].number = c.line /\ OnSide(lines[n], c.side)
      BY <2>2, ClaimedIs
    <2> QED  BY <2>1, <2>3 DEF n, lines
  <1>4. to.file = f /\ to.line = index[f][i].number /\ to.side = index[f][i].side
    BY <1>3
  <1> HIDE DEF i, to
  <1>5. PlacedInDiff(c, to)
    <2> HIDE DEF c, f
    <2> QED  BY <1>2, <1>3, <1>4, PlacedOn DEF AnchorInv
  <1>6. Len(c.anchor) >= MinAnchorLen => PinnedToBest(c, to)
    BY <1>1, <1>4, NoMatchIsBest
  <1>7. Right(c, to)  BY <1>2, <1>5, <1>6 DEF Right
  <1> HIDE DEF c
  <1> QED  BY <1>1, <1>7, ResolvedAfter

LEMMA FileLevelIsRight ==
  ASSUME AnchorInv, FileLevel
  PROVE  ResolvedAsReported'
  <1> DEFINE c == scan.claim
             to == [file |-> scan.file, line |-> 0, side |-> AnySide]
  <1>1. Scanned /\ scan.best = NoMatch /\ UNCHANGED <<diff, parser>> /\ result' = [claim |-> c, to |-> to]
    BY DEF FileLevel, Resolves
  <1>2. OfNamedFile(c, to)  BY <1>1, ScannedAll
  <1>3. PlacedInDiff(c, to)  BY DEF PlacedInDiff
  <1>4. to.file = scan.file  OBVIOUS
  <1> HIDE DEF to
  <1>5. Len(c.anchor) >= MinAnchorLen => PinnedToBest(c, to)
    BY <1>1, <1>4, NoMatchIsBest
  <1>6. Right(c, to)  BY <1>2, <1>3, <1>5 DEF Right
  <1> HIDE DEF c
  <1> QED  BY <1>1, <1>6, ResolvedAfter

LEMMA AnchorInvStep ==
  ASSUME AnchorInv, PlainDiffs, [Next]_vars
  PROVE  AnchorInv'
  <1>1. IndexInv'  BY IndexInvStep DEF AnchorInv
  <1>2. CASE Parser
    <2>1. ~AllRead /\ UNCHANGED <<scan, result>>
      BY <1>2 DEF Parser, FileHeader, Path, Hunk, Skipped, Added, Deleted, Context, Read
    <2>2. scan = None /\ result = None  BY <2>1 DEF AnchorInv, Scanning
    <2> QED  BY <1>1, <2>1, <2>2 DEF AnchorInv, Scanning, ResolvedAsReported
  <1>3. CASE \E c \in Concerns : UnknownFile(c)
    <2>1. PICK c \in Concerns : UnknownFile(c)  BY <1>3
    <2>2. scan' = None /\ AllRead'  BY <2>1 DEF UnknownFile, AllRead, parser
    <2>3. Scanning'  BY <2>2 DEF Scanning
    <2> QED  BY <1>1, <2>1, <2>3, UnknownIsRight DEF AnchorInv
  <1>4. CASE \E c \in Concerns, f \in DOMAIN index : Lookup(c, f)
    <2>1. PICK c \in Concerns, f \in DOMAIN index : Lookup(c, f)  BY <1>4
    <2>2. result' = None  BY <2>1 DEF Lookup
    <2>3. ResolvedAsReported'  BY <2>2 DEF ResolvedAsReported
    <2> QED  BY <1>1, <2>1, <2>3, LookupScans DEF AnchorInv
  <1>5. UNCHANGED <<diff, parser, result>> => (ResolvedAsReported => ResolvedAsReported')
    <2> SUFFICES ASSUME UNCHANGED <<diff, parser, result>>, ResolvedAsReported  PROVE ResolvedAsReported'
      OBVIOUS
    <2>1. diff' = diff /\ index' = index /\ result' = result  BY DEF parser
    <2> QED  BY <2>1 DEF ResolvedAsReported, PlacedInDiff, OfNamedFile, PinnedToBest, Shown
  <1>6. CASE BestAnchorMatch
    <2>1. UNCHANGED <<diff, parser, result>>  BY <1>6 DEF BestAnchorMatch
    <2> QED  BY <1>1, <1>5, <1>6, <2>1, MatchScans DEF AnchorInv
  <1>7. CASE ByAnchor \/ ByClaim \/ FileLevel
    <2>1. scan' = None /\ UNCHANGED <<diff, parser>> /\ scan # None
      BY <1>7 DEF ByAnchor, ByClaim, FileLevel, Resolves, Scanned
    <2>2. Scanning'
      BY <2>1 DEF AnchorInv, Scanning, AllRead, parser
    <2> QED  BY <1>1, <1>7, <2>2, ByAnchorIsRight, ByClaimIsRight, FileLevelIsRight DEF AnchorInv
  <1>8. CASE Collected
    <2>1. result' = None /\ UNCHANGED <<diff, parser, scan>>  BY <1>8 DEF Collected
    <2>2. Scanning'
      BY <2>1 DEF AnchorInv, Scanning, AllRead, parser, LookupFile, ScoredTo, Scored, BestOf, BeatsIn
    <2> QED  BY <1>1, <2>1, <2>2 DEF AnchorInv, ResolvedAsReported
  <1>9. CASE UNCHANGED vars
    <2>1. UNCHANGED <<diff, parser, scan, result>>  BY <1>9 DEF vars, parser
    <2>2. Scanning'
      BY <2>1 DEF AnchorInv, Scanning, AllRead, parser, LookupFile, ScoredTo, Scored, BestOf, BeatsIn
    <2> QED  BY <1>1, <1>5, <2>1, <2>2 DEF AnchorInv
  <1> QED  BY <1>2, <1>3, <1>4, <1>6, <1>7, <1>8, <1>9 DEF Next, Parser

\* In a diff without merges and without added lines that read as paths, whatever the concern: it
\* is placed on a line of the diff or on the file; in the file whose path it gives, if that is
\* the path as the diff has it, or as it is where nothing is taken off it; and if a line of its
\* side matches its anchor, on the best of those (resolve, lookupFile, bestAnchorMatch).
THEOREM ConcernsAreResolvedAsReported ==
  ASSUME PlainDiffs
  PROVE  Spec => []ResolvedAsReported
  <1>1. Init => AnchorInv
    BY IndexInvInit DEF AnchorInv, Init, Scanning, ResolvedAsReported
  <1>2. AnchorInv /\ [Next]_vars => AnchorInv'  BY AnchorInvStep
  <1>3. AnchorInv => ResolvedAsReported  BY DEF AnchorInv
  <1> QED  BY <1>1, <1>2, <1>3, PTL DEF Spec
=============================================================================
