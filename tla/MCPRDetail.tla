----------------------------- MODULE MCPRDetail -----------------------------
EXTENDS PRDetail

\* p1: one file with a context line, a change and a second hunk; p2: the same file, and
\* a file with nothing but an addition.
MCFile1 ==
  [name |-> "f",
   additionLines |-> << <<"x">>, <<"a", "a", "a">>, <<"x", "a">> >>,
   deletionLines |-> << <<"x">>, <<"a">> >>,
   hunks |-> << [additionStart |-> 3, deletionStart |-> 2, hunkContent |-> <<
                   [type |-> "context", lines |-> 1, additionLineIndex |-> 0, deletionLineIndex |-> 0],
                   [type |-> "change", deletions |-> 1, additions |-> 1,
                    additionLineIndex |-> 1, deletionLineIndex |-> 1] >>],
                [additionStart |-> 9, deletionStart |-> 8, hunkContent |-> <<
                   [type |-> "change", deletions |-> 0, additions |-> 1,
                    additionLineIndex |-> 2, deletionLineIndex |-> 2] >>] >>]
MCFile2 ==
  [name |-> "g", additionLines |-> << <<"a">> >>, deletionLines |-> <<>>,
   hunks |-> << [additionStart |-> 1, deletionStart |-> 0, hunkContent |-> <<
                   [type |-> "change", deletions |-> 0, additions |-> 1,
                    additionLineIndex |-> 0, deletionLineIndex |-> 0] >>] >>]

MCDiffOf == [p \in PRs |-> IF p = "p1" THEN <<MCFile1, MCFile2>> ELSE <<MCFile2>>]

MCAt(file, side, line, text) == [file |-> file, side |-> side, line |-> line, text |-> text]
MCContents1 ==
  {MCAt("f", "additions", 3, <<"x">>), MCAt("f", "deletions", 3, <<"a">>),
   MCAt("f", "additions", 4, <<"a", "a", "a">>), MCAt("f", "additions", 9, <<"x", "a">>)}
MCContents2 == {MCAt("g", "additions", 1, <<"a">>)}
\* The lines of the two diffs, numbered by hand.
ASSUME MCContentsAssumption ==
  Contents = [p \in PRs |-> IF p = "p1" THEN MCContents1 \cup MCContents2 ELSE MCContents2]

MCQueries == {<<"a">>, <<"a", "a">>, <<"y">>}
MCTargets ==
  [p \in PRs |-> IF p = "p1" THEN {[file |-> "f", line |-> 9, side |-> "additions"]}
                 ELSE {[file |-> "g", line |-> 1, side |-> "additions"]}]
=============================================================================
