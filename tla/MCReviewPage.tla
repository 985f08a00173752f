---------------------------- MODULE MCReviewPage ----------------------------
(* The page of a pull request that is run, and of another one that is not. *)
EXTENDS ReviewPage, TLC

CONSTANTS p1, p2

MCRuns    == (p1 :> 1) @@ (p2 :> 0)
MCTwoRuns == (p1 :> 2) @@ (p2 :> 0)
=============================================================================
