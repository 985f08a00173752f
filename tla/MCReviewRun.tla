---------------------------- MODULE MCReviewRun ----------------------------
(* Two agents, as the bundle ships them, and the constants of the runs. *)
EXTENDS ReviewRun, TLC

MCAgents == {"heckl", "heckl-skeptic"}
MCRank   == [a \in MCAgents |-> IF a = "heckl" THEN 0 ELSE 1]

\* A first review, from a client that ticked nothing or both agents.
FirstSelections == {{}, MCAgents}
FirstStored     == {<<>>}

\* Reruns over every kind of stored review; run 1 stands for the stored one.
MCRow(status, heckl, skeptic) ==
  [status   |-> status,
   agents   |-> ("heckl" :> heckl) @@ ("heckl-skeptic" :> skeptic),
   concerns |-> ("heckl" :> IF heckl = "done" THEN 1 ELSE 0) @@
                ("heckl-skeptic" :> IF skeptic = "done" THEN 1 ELSE 0)]

RerunStored == {<<MCRow("done", "done", "done")>>, <<MCRow("done", "error", "none")>>,
                <<MCRow("error", "none", "none")>>}
RerunSelections == {{"heckl"}}
=============================================================================
