----------------------------- MODULE MCSessions -----------------------------
(* Reviews and reruns of a pull request, and of another one beside it. *)
EXTENDS Sessions, TLC

MCForeign == {MaxSessions + 1}
=============================================================================
