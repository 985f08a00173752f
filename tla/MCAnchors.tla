----------------------------- MODULE MCAnchors -----------------------------
EXTENDS Anchors

MCDevNull == <<"", "dev", "null">>
MCWords == STRING
MCOneLetter == {"a", "b", "d"}

MCLine(mark, text) == [mark |-> mark, text |-> text]
MCFile(old, new, hunks) == [old |-> old, new |-> new, combined |-> FALSE, hunks |-> hunks]
MCHunk(old, new, lines) == [old |-> old, new |-> new, lines |-> lines]

MCShort == <<"p">>
MCText == <<"p", "q">>
MCLong == <<"p", "q", "r">>

\* Two hunks with an equal line each, and one that contains it, on both sides.
MCMain ==
  MCFile(<<"src", "main">>, <<"src", "main">>,
    <<MCHunk(2, 2, <<MCLine("context", MCLong), MCLine("deleted", MCText), MCLine("added", MCText),
                     MCLine("added", MCShort), MCLine("context", <<>>)>>),
      MCHunk(7, 8, <<MCLine("added", MCText), MCLine("deleted", MCText), MCLine("context", MCShort),
                     MCLine("note", <<"No", "newline">>)>>)>>)
MCNew == MCFile(MCDevNull, <<"main">>, <<MCHunk(0, 1, <<MCLine("added", MCText), MCLine("added", <<>>)>>)>>)
MCGone == MCFile(<<"gone">>, MCDevNull, <<MCHunk(1, 0, <<MCLine("deleted", MCText)>>)>>)
MCMoved == MCFile(<<"was">>, <<"is">>, <<>>)
MCMerged == [MCFile(<<"merged">>, <<"merged">>, <<MCHunk(0, 0, <<MCLine("context", MCText), MCLine("added", MCText)>>)>>)
               EXCEPT !.combined = TRUE]
\* git quotes a name with a quotation mark.
MCNameQuoted == <<"src", "q\"r">>
MCQuoted == [q \in {<<"a", MCNameQuoted>>, <<"b", MCNameQuoted>>} |-> <<"\"" \o q[1], "src", "q\\\"r\"">>]
MCOdd == MCFile(MCNameQuoted, MCNameQuoted, <<MCHunk(4, 4, <<MCLine("context", MCLong), MCLine("added", MCText)>>)>>)
MCDeep == MCFile(<<"d", "main">>, <<"d", "main">>, <<MCHunk(1, 1, <<MCLine("deleted", MCLong), MCLine("added", MCText)>>)>>)

MCDiffs ==
  {<<MCMain, MCGone, MCNew>>, <<MCDeep, MCMoved, MCNew, MCOdd>>,
   <<MCGone, MCMain, MCDeep>>, <<MCNew, MCMerged, MCOdd>>}

MCNames == {<<"b", "src", "main">>, <<"b", "main">>, <<"b", "d", "main">>, <<"main">>, <<"d", "main">>,
            <<"src", "main">>, <<"lib", "src", "main">>, <<"gone">>, <<"b", "merged">>, MCDevNull,
            MCQuoted["b", MCNameQuoted], MCNameQuoted}
MCConcerns ==
  [file : MCNames, line : {0, 1, 3, 4, 5, 6, 8, 20}, side : {AnySide, Additions, Deletions},
   anchor : {MCShort, MCText, MCLong, MCLong \o <<"s">>, <<"z", "z">>}]

\* A line that reads like a path once it is printed as added.
MCPlus == MCFile(<<"src", "main">>, <<"src", "main">>,
            <<MCHunk(1, 1, <<MCLine("added", <<"++", "x">>), MCLine("context", MCText)>>)>>)
MCPlusDiffs == {<<MCPlus>>}
MCVerbatim ==
  [file : {<<"b", "src", "main">>}, line : {1, 2}, side : {Additions}, anchor : {MCText}]

\* The header of a merge behind a file, and a concern with the words it has.
MCMergeDiffs == {<<MCNew, MCMerged>>}
MCMerges ==
  [file : {<<"main">>}, line : {1}, side : {AnySide}, anchor : {<<"--", "a", "merged">>}]
=============================================================================
