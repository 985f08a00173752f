---------------------------- MODULE MCWorktrees ----------------------------
(* Three pull requests of one repository; the first is reviewed, opened in tmux and *)
(* pushed to, so it may have two worktrees. *)
EXTENDS Worktrees, TLC

CONSTANTS p1, p2, p3, s1, s2, s3

OneOfEach == {<<"review", p1>>, <<"tmux", p1>>}
OneReview == {<<"review", p1>>}

MCCommits  == [p \in PRs |-> IF p = p1 THEN Shas \ {s3} ELSE {s3}]
MCExisting == {t \in Trees : t[1] = p1}

MCSelections == {{p1}}

\* At most two processes under way, at most one of them a sweep; p2 stays open.
TwoAtATime ==
  /\ Cardinality({s \in Sweepers : sweep[s].pc # "idle"}) <= 1
  /\ Cardinality({s \in Sweepers : sweep[s].pc # "idle"})
       + Cardinality({u \in Users : user[u].pc # "off"}) <= 2
  /\ p2 \in open

\* Only the first pull request has these two, and nothing tells them apart.
Symmetry == Permutations({s1, s2})
=============================================================================
