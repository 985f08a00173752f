------------------------------- MODULE Review -------------------------------
(***************************************************************************)
(* The review record the orchestrator mutates, clones and broadcasts       *)
(* (src/internal/orchestrator/review.go), and the pure functions on it.    *)
(*                                                                         *)
(* A stage is its status; times, details and error texts are left out.  An *)
(* agent absent from the record, and a stage absent from a list, has the   *)
(* status "none", so that every map is total.  The concerns of an agent    *)
(* are the number of the run that reported them, 0 when there are none: a  *)
(* report stands for one concern, and a stale list is a smaller number.    *)
(*                                                                         *)
(* An operator that ends in Raw, StatusOnly, Unguarded and the like, right  *)
(* before the one it is named after, is that one with a bug: the properties *)
(* are shown to notice it.                                                 *)
(***************************************************************************)
EXTENDS Naturals

CONSTANT Agents    \* the agent names of reviewer.AgentOrder()

\* No stage and no agent of a record is "none" but those that are not there.
Status == {"none", "pending", "running", "done", "error", "cancelled"}

\* The error a stage or a run ends with: nil, reviewer.ErrCancelled, any other.
Cause == {"nil", "error", "cancelled"}

ReviewStages == {"fetch", "checkout", "store"}
AgentStages  == {"session", "prompt", "parse"}
LastStage    == "parse"

Agent  == [status : Status, stages : [AgentStages -> Status]]

Review == [status    : Status,
           stages    : [ReviewStages -> Status],
           agents    : [Agents -> Agent],
           sessionID : Nat,
           concerns  : [Agents -> Nat]]

NoStages    == [s \in AgentStages |-> "none"]
AbsentAgent == [status |-> "none", stages |-> NoStages]
NewAgent    == [status |-> "pending", stages |-> [s \in AgentStages |-> "pending"]]

NewReview(selected) ==
  [status    |-> "pending",
   stages    |-> [s \in ReviewStages |-> "pending"],
   agents    |-> [a \in Agents |-> IF a \in selected THEN NewAgent ELSE AbsentAgent],
   sessionID |-> 0,
   concerns  |-> [a \in Agents |-> 0]]

\* Everything of the agents that do not run again is carried over as it stands
\* in base, the statuses of their stages included.
SeedFrom(rv, base, rerunning) ==
  [rv EXCEPT !.sessionID = base.sessionID,
             !.agents    = [a \in Agents |-> IF a \in rerunning
                                             THEN rv.agents[a]
                                             ELSE base.agents[a]],
             !.concerns  = [a \in Agents |-> IF a \in rerunning
                                             THEN 0
                                             ELSE base.concerns[a]]]

\* stored[a] is the status of a's row of review_agents, "none" without a row.
MergeStoredAgents(rv, stored) ==
  [rv EXCEPT !.agents = [a \in Agents |->
     IF stored[a] = "none" THEN rv.agents[a]
                           ELSE [rv.agents[a] EXCEPT !.status = stored[a]]]]

-----------------------------------------------------------------------------
StartStage(rv, stage) == [rv EXCEPT !.stages[stage] = "running"]

StartAgentStage(rv, a, stage) ==
  IF rv.agents[a].stages[stage] = "none"
  THEN rv
  ELSE [rv EXCEPT !.agents[a].stages[stage] = "running",
                  !.agents[a].status = IF @ = "pending" THEN "running" ELSE @]

\* statusForError on a non-nil cause, StatusDone on nil.
StageStatusRaw(cause) == cause
StageStatus(cause) == IF cause = "nil" THEN "done" ELSE cause

EndStage(rv, stage, cause) == [rv EXCEPT !.stages[stage] = StageStatus(cause)]

EndAgentStage(rv, a, stage, cause) ==
  IF rv.agents[a].stages[stage] = "none"
  THEN rv
  ELSE [rv EXCEPT !.agents[a].stages[stage] = StageStatus(cause),
                  !.agents[a].status = IF cause # "nil" \/ stage = LastStage
                                       THEN StageStatus(cause)
                                       ELSE @]

-----------------------------------------------------------------------------
IsOpen(status) == status \in {"pending", "running"}

SettledStage(status, cause) == IF status = "running" THEN cause ELSE status

\* Ending a running stage gives its agent the cause as well, whatever the agent
\* was; a pending stage stays pending.
SettledAgent(agent, cause) ==
  LET hit == \E s \in AgentStages : agent.stages[s] = "running"
  IN  [status |-> IF hit \/ IsOpen(agent.status) THEN cause ELSE agent.status,
       stages |-> [s \in AgentStages |-> SettledStage(agent.stages[s], cause)]]

SettleRunningStages(rv, cause) ==
  [rv EXCEPT !.stages = [s \in ReviewStages |-> SettledStage(rv.stages[s], cause)],
             !.agents = [a \in Agents |-> SettledAgent(rv.agents[a], cause)]]

FinishStatusOnly(rv, cause) ==
  [rv EXCEPT !.status = IF cause = "nil" THEN "done" ELSE cause]

Finish(rv, cause) ==
  IF cause = "nil"
  THEN [rv EXCEPT !.status = "done"]
  ELSE [SettleRunningStages(rv, cause) EXCEPT !.status = cause]

IsSettled(rv) == rv.status \in {"done", "error", "cancelled"}
=============================================================================
