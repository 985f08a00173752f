----------------------------- MODULE ReviewLife -----------------------------
(***************************************************************************)
(* What the orchestrator promises of the reviews of one pull request, to a *)
(* reader who sees the status of the record and the rows of the store, and *)
(* neither agents nor stages nor handlers: one run at a time, rows that    *)
(* are only added, and what each way to end adds.  ReviewRun implements it. *)
(***************************************************************************)
EXTENDS Sequences

VARIABLES
  phase,    \* idle, running, storing, settling (what follows a failure or a stop), over
  status,   \* of the record in flight, or last published
  again,    \* the run is a rerun over a stored review
  stored    \* the statuses of the stored reviews, oldest first

vars == <<phase, status, again, stored>>

Init ==
  /\ phase = "idle" /\ status = "pending" /\ again = FALSE
  /\ stored \in Seq({"done", "error"})

\* One run at a time; only what is stored can be run again.
Begin ==
  /\ phase = "idle" /\ phase' = "running"
  /\ status' = "running"
  /\ again' \in BOOLEAN /\ (again' => stored # <<>>)
  /\ UNCHANGED stored

\* A first review adds its row, a rerun writes into the one it has.
Write ==
  /\ phase = "running" /\ phase' = "storing"
  /\ stored' = IF again THEN stored ELSE Append(stored, "done")
  /\ UNCHANGED <<status, again>>

Complete ==
  /\ phase = "storing" /\ phase' = "over"
  /\ status' = "done"
  /\ UNCHANGED <<again, stored>>

\* What is being stored can fail, and can no longer be stopped.
Fail ==
  /\ phase \in {"running", "storing"} /\ phase' = "settling"
  /\ status' = "error"
  /\ UNCHANGED <<again, stored>>

Stop ==
  /\ phase = "running"
  /\ phase' = IF again THEN "settling" ELSE "over"
  /\ status' = "cancelled"
  /\ UNCHANGED <<again, stored>>

\* A failure may leave a row of its own, unless there is an older one to keep.
Record ==
  /\ phase = "settling" /\ status = "error" /\ phase' = "over"
  /\ \/ UNCHANGED stored
     \/ ~again /\ stored' = Append(stored, "error")
  /\ UNCHANGED <<status, again>>

\* A rerun that was stopped shows the stored review again, if it can be read.
Restored ==
  /\ phase = "settling" /\ status = "cancelled" /\ phase' = "over"
  /\ status' \in {"cancelled", "done"}
  /\ UNCHANGED <<again, stored>>

Release ==
  /\ phase = "over" /\ phase' = "idle"
  /\ again' = FALSE
  /\ UNCHANGED <<status, stored>>

Die ==
  /\ phase # "idle" /\ phase' = "idle"
  /\ status' = "pending" /\ again' = FALSE
  /\ UNCHANGED stored

Next ==
  \/ Begin \/ Write \/ Complete \/ Fail \/ Stop
  \/ Record \/ Restored \/ Release \/ Die

Spec == Init /\ [][Next]_vars
=============================================================================
