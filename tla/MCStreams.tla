------------------------------ MODULE MCStreams ------------------------------
(* One pull request with two agents; in some runs another one beside it. *)
EXTENDS Streams, TLC

CONSTANTS p1, p2, a1, a2, w1, w2, g1

KeyOfAll == (a1 :> p1) @@ (a2 :> p1) @@ (w1 :> p1) @@ (w2 :> p1)
MCKeyOf  == [x \in Workers \cup Watchers |-> KeyOfAll[x]]
=============================================================================
