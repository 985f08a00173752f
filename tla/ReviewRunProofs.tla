--------------------------- MODULE ReviewRunProofs ---------------------------
(***************************************************************************)
(* For any agents, clients, handlers, stored reviews and number of runs:   *)
(* the types, that one review runs at a time, that concerns are stored     *)
(* only beside their report, and that nothing touches a settled record but *)
(* restore; then that ReviewRun implements ReviewLife, what a run leaves   *)
(* behind, and what a cancel reaches.                                      *)
(*                                                                         *)
(* The invariant IInv adds to them what the goroutines rely on: which of   *)
(* them may be where (Shape), that session ids name rows (Sessions), and   *)
(* what persist has done so far (Persisting).                              *)
(*                                                                         *)
(* Each step of ReviewRun keeps what a reader sees or is one step of       *)
(* ReviewLife.  Beside IInv this needs Kept: that the record says which    *)
(* review is run again, which is what persistFailure looks at, and that    *)
(* only a failure gets there.                                              *)
(*                                                                         *)
(* A run leaves in the rows nothing but the agents it was asked for        *)
(* (RInv), and in the record what the row says, and nothing running        *)
(* (SInv).  RInv follows persist from statement to statement; SInv knows   *)
(* of each place of a goroutine which stages of its record are running.    *)
(***************************************************************************)
EXTENDS ReviewRun, SequenceTheorems, TLAPS

-----------------------------------------------------------------------------
(* What the operators on a review preserve, for any set of agents *)

(* A new review is a review, still pending and not in the store (newReview). *)
LEMMA NewReviewType ==
  ASSUME NEW agents
  PROVE  /\ NewReview(agents) \in Review
         /\ NewReview(agents).status = "pending"
         /\ NewReview(agents).sessionID = 0
  BY DEF NewReview, NewAgent, AbsentAgent, NoStages, Review, Agent, Status,
         ReviewStages, AgentStages

(* Seeding keeps the status and takes the session of the base (seedFrom). *)
LEMMA SeedFromType ==
  ASSUME NEW rv \in Review, NEW b \in Review, NEW agents
  PROVE  /\ SeedFrom(rv, b, agents) \in Review
         /\ SeedFrom(rv, b, agents).status = rv.status
         /\ SeedFrom(rv, b, agents).sessionID = b.sessionID
  BY DEF SeedFrom, Review

(* Starting and ending a stage leaves the review's status and session alone: only *)
(* finish and restore settle a review (startStage, endStage).                     *)
LEMMA StartStageType ==
  ASSUME NEW rv \in Review, NEW s \in ReviewStages
  PROVE  /\ StartStage(rv, s) \in Review
         /\ StartStage(rv, s).status = rv.status
         /\ StartStage(rv, s).sessionID = rv.sessionID
  BY DEF StartStage, Review, Status

LEMMA EndStageType ==
  ASSUME NEW rv \in Review, NEW s \in ReviewStages, NEW c \in Cause
  PROVE  /\ EndStage(rv, s, c) \in Review
         /\ EndStage(rv, s, c).status = rv.status
         /\ EndStage(rv, s, c).sessionID = rv.sessionID
  <1>1. StageStatus(c) \in Status
    BY DEF StageStatus, Cause, Status
  <1>2. QED
    BY <1>1 DEF EndStage, Review

LEMMA StartAgentStageType ==
  ASSUME NEW rv \in Review, NEW a \in Agents, NEW s \in AgentStages
  PROVE  /\ StartAgentStage(rv, a, s) \in Review
         /\ StartAgentStage(rv, a, s).status = rv.status
         /\ StartAgentStage(rv, a, s).sessionID = rv.sessionID
  <1> DEFINE ag == rv.agents[a]
             st == [ag.stages EXCEPT ![s] = "running"]
             nu == [ag EXCEPT !.stages = st,
                              !.status = IF @ = "pending" THEN "running" ELSE @]
  <1>1. ag \in Agent
    BY DEF Review
  <1>2. st \in [AgentStages -> Status]
    BY <1>1 DEF Agent, Status
  <1>3. nu \in Agent
    BY <1>1, <1>2 DEF Agent, Status
  <1>4. StartAgentStage(rv, a, s) = IF ag.stages[s] = "none" THEN rv
                                    ELSE [rv EXCEPT !.agents = [rv.agents EXCEPT ![a] = nu]]
    BY <1>1 DEF StartAgentStage, Agent, Review
  <1>5. QED
    BY <1>3, <1>4 DEF Review

LEMMA EndAgentStageType ==
  ASSUME NEW rv \in Review, NEW a \in Agents, NEW s \in AgentStages, NEW c \in Cause
  PROVE  /\ EndAgentStage(rv, a, s, c) \in Review
         /\ EndAgentStage(rv, a, s, c).status = rv.status
         /\ EndAgentStage(rv, a, s, c).sessionID = rv.sessionID
  <1> DEFINE ag == rv.agents[a]
             st == [ag.stages EXCEPT ![s] = StageStatus(c)]
             nu == [ag EXCEPT !.stages = st,
                              !.status = IF c # "nil" \/ s = LastStage
                                         THEN StageStatus(c) ELSE @]
  <1>0. StageStatus(c) \in Status
    BY DEF StageStatus, Cause, Status
  <1>1. ag \in Agent
    BY DEF Review
  <1>2. st \in [AgentStages -> Status]
    BY <1>0, <1>1 DEF Agent
  <1>3. nu \in Agent
    BY <1>0, <1>1, <1>2 DEF Agent
  <1>4. EndAgentStage(rv, a, s, c) = IF ag.stages[s] = "none" THEN rv
                                     ELSE [rv EXCEPT !.agents = [rv.agents EXCEPT ![a] = nu]]
    BY <1>1 DEF EndAgentStage, Agent, Review
  <1>5. QED
    BY <1>3, <1>4 DEF Review

(* Finishing settles the review with its cause and keeps the session (finish,     *)
(* settleRunningStages).                                                           *)
LEMMA FinishType ==
  ASSUME NEW rv \in Review, NEW c \in Cause
  PROVE  /\ Finish(rv, c) \in Review
         /\ Finish(rv, c).status = StageStatus(c)
         /\ Finish(rv, c).sessionID = rv.sessionID
  <1>0. c \in Status \/ c = "nil"
    BY DEF Cause, Status
  <1>1. CASE c = "nil"
    BY <1>1 DEF Finish, StageStatus, Review, Status
  <1>2. CASE c # "nil"
    <2>1. ASSUME NEW a \in Agents PROVE SettledAgent(rv.agents[a], c) \in Agent
      BY <1>0, <1>2 DEF SettledAgent, SettledStage, Agent, Review
    <2>2. [s \in ReviewStages |-> SettledStage(rv.stages[s], c)] \in [ReviewStages -> Status]
      BY <1>0, <1>2 DEF SettledStage, Review
    <2>3. QED
      BY <1>0, <1>2, <2>1, <2>2 DEF Finish, SettleRunningStages, StageStatus, Review
  <1>3. QED
    BY <1>1, <1>2

(* Merging the stored agents changes nothing but their statuses (mergeStoredAgents). *)
LEMMA MergeType ==
  ASSUME NEW rv \in Review, NEW stored \in [Agents -> {"none", "done", "error"}]
  PROVE  /\ MergeStoredAgents(rv, stored) \in Review
         /\ MergeStoredAgents(rv, stored).status = rv.status
         /\ MergeStoredAgents(rv, stored).sessionID = rv.sessionID
  <1>1. ASSUME NEW a \in Agents, stored[a] # "none"
        PROVE  [rv.agents[a] EXCEPT !.status = stored[a]] \in Agent
    BY <1>1 DEF Review, Agent, Status
  <1>2. QED
    BY <1>1 DEF MergeStoredAgents, Review

-----------------------------------------------------------------------------
(* The run *)

Running == {"fetch", "checkout", "config", "agents", "session", "clear", "save", "concerns"}
Writing == {"clear", "save", "concerns"}

\* The run's goroutine exists while the map has its entry; its agents are active
\* only while it waits for them; it settles the record when it leaves the pipeline.
Shape ==
  /\ pc = "idle" <=> inFlight = 0
  /\ pc # "agents" => \A a \in Agents : apc[a] \in {"none", "ended"}
  /\ \A a \in Agents : apc[a] # "none" => a \in selected
  /\ inFlight # 0 /\ IsSettled(review) => pc \notin Running
  /\ pc \in Running => review.status = "running"
  /\ pc = "restore" => review.status = "cancelled" /\ base # 0

\* Rows are never deleted, so an id that was read names a row for ever.
Sessions ==
  /\ base \in 0..Len(store)
  /\ review.sessionID \in 0..Len(store)
  /\ \A h \in Rerunners : rerun[h].base.sessionID \in 0..Len(store)
  /\ pc \in Writing => target \in 1..Len(store)

Persisting ==
  /\ pc \in {"clear", "save"} =>
       /\ todo \subseteq selected
       /\ \A a \in todo : outcome[a] # "cancelled"
       /\ \A a \in Ending("done") \ todo : store[target].agents[a] = "done"
  /\ pc = "save" => \A a \in Agents : First(a) => store[target].concerns[a] = 0
  /\ pc = "concerns" => \A a \in todo : store[target].agents[a] = "done"

IInv == TypeOK /\ Shape /\ Sessions /\ Persisting /\ SingleFlight /\ ConcernsHaveTheirReport

-----------------------------------------------------------------------------
(* Facts about rows *)

LEMMA NewRowType ==
  ASSUME NEW status \in {"done", "error"}
  PROVE  NewRow(status) \in Row
  BY DEF NewRow, Row, RowAgents

LEMMA AppendRow ==
  ASSUME NEW s \in Seq(Row), NEW r \in Row
  PROVE  /\ Append(s, r) \in Seq(Row)
         /\ Len(Append(s, r)) = Len(s) + 1
         /\ \A i \in 1..Len(s) : Append(s, r)[i] = s[i]
         /\ Append(s, r)[Len(s) + 1] = r
  OBVIOUS

LEMMA UpdateRow ==
  ASSUME NEW s \in Seq(Row), NEW i \in 1..Len(s), NEW r \in Row
  PROVE  /\ [s EXCEPT ![i] = r] \in Seq(Row)
         /\ Len([s EXCEPT ![i] = r]) = Len(s)
         /\ [s EXCEPT ![i] = r][i] = r
         /\ \A j \in 1..Len(s) : j # i => [s EXCEPT ![i] = r][j] = s[j]
  OBVIOUS

LEMMA HydrateType ==
  ASSUME store \in Seq(Row), store # <<>>
  PROVE  Hydrate \in Review /\ Hydrate.sessionID = Len(store)
  <1>1. Len(store) \in Nat /\ store[Len(store)] \in Row
    OBVIOUS
  <1>2. NewReview({}) \in Review
    BY NewReviewType
  <1>3. QED
    BY <1>1, <1>2 DEF Hydrate, Review, Row, RowAgents, Agent, NoStages, Status, AgentStages, ReviewStages

-----------------------------------------------------------------------------
(* Initially *)

LEMMA InitIInv == Init => IInv
  <1> SUFFICES ASSUME Init PROVE IInv
    OBVIOUS
  <1>1. store \in Seq(Row) /\ Len(store) \in Nat
    BY StoredAssumption DEF Init
  <1>2. NewReview({}) \in Review /\ NewReview({}).sessionID = 0
    BY NewReviewType
  <1>3. TypeOK
    BY <1>1, <1>2 DEF Init, TypeOK, PCs, APCs, NoCancel, NoRerun
  <1>4. Shape
    BY DEF Init, Shape, Running
  <1>5. Sessions
    BY <1>1, <1>2 DEF Init, Sessions, Writing, NoRerun
  <1>6. Persisting
    BY DEF Init, Persisting
  <1>7. SingleFlight
    BY DEF Init, SingleFlight
  <1>8. ConcernsHaveTheirReport
    BY StoredAssumption DEF Init, ConcernsHaveTheirReport
  <1>9. QED
    BY <1>3, <1>4, <1>5, <1>6, <1>7, <1>8 DEF IInv

-----------------------------------------------------------------------------
(* Steps. A handler's step leaves the run alone; a start makes a new one. *)

(* A run is entered only when there is none, so no run overlaps it (Start). *)
LEMMA BeginIInv ==
  ASSUME IInv, NEW agents \in SUBSET Agents, NEW rv \in Review,
         NEW sid \in 0..Len(store), rv.sessionID = sid, Begin(agents, rv, sid),
         rerun' \in [Rerunners -> [agents : SUBSET Agents, base : Review]],
         \A h \in Rerunners : rerun'[h].base.sessionID \in 0..Len(store)
  PROVE  IInv'
  <1> USE DEF IInv
  <1> DEFINE nu == [rv EXCEPT !.status = "running"]
  <1>1. nu \in Review /\ nu.status = "running" /\ nu.sessionID = sid
    BY DEF Review, Status
  <1>2. /\ review' \in Review
        /\ review'.status = "running"
        /\ review'.sessionID = sid
    BY <1>1, StartStageType DEF Begin, Enter, ReviewStages
  <1>3. UNCHANGED store /\ Len(store) \in Nat
    BY DEF Begin, Enter, TypeOK
  <1>4. TypeOK'
    <2>1. /\ inFlight' \in Nat /\ runs' \in Nat /\ live' \subseteq Nat
          /\ pc' \in PCs /\ base' \in Nat /\ target' \in Nat
      BY <1>3 DEF Begin, Enter, TypeOK, PCs
    <2>2. /\ apc' \in [Agents -> APCs]
          /\ outcome' \in [Agents -> {"none", "done", "error", "cancelled"}]
      BY DEF Begin, Enter, APCs
    <2>3. /\ store' \in Seq(Row) /\ atStart' \in Seq(Row)
          /\ cancel' \in [Cancellers -> [run : Nat, aborts : SUBSET Agents, stop : BOOLEAN]]
      BY DEF Begin, Enter, TypeOK
    <2>4. QED
      BY <1>2, <2>1, <2>2, <2>3 DEF Begin, Enter, TypeOK
  <1>5. Shape'
    BY <1>2 DEF Begin, Enter, Shape, Running, IsSettled, TypeOK
  <1>6. Sessions'
    BY <1>2, <1>3 DEF Begin, Enter, Sessions, Writing
  <1>7. Persisting'
    BY DEF Begin, Enter, Persisting
  <1>8. SingleFlight'
    BY DEF Begin, Enter, SingleFlight, TypeOK
  <1>9. ConcernsHaveTheirReport'
    BY <1>3 DEF ConcernsHaveTheirReport
  <1>10. QED
    BY <1>4, <1>5, <1>6, <1>7, <1>8, <1>9

LEMMA StartIInv ==
  ASSUME IInv, NEW names \in Selections, Start(names)
  PROVE  IInv'
  <1> DEFINE agents == NormaliseAgents(names)
  <1>1. agents \in SUBSET Agents
    BY AgentsAssumption, RunsAssumption DEF NormaliseAgents
  <1>2. NewReview(agents) \in Review /\ NewReview(agents).sessionID = 0
    BY NewReviewType
  <1>3. 0 \in 0..Len(store)
    BY DEF IInv, TypeOK
  <1>4. UNCHANGED <<rerun, store>> /\ Begin(agents, NewReview(agents), 0)
    BY DEF Start, Begin, Enter
  <1>5. QED
    BY <1>1, <1>2, <1>3, <1>4, BeginIInv DEF IInv, TypeOK, Sessions

LEMMA RerunStartIInv ==
  ASSUME IInv, NEW h \in Rerunners, RerunStart(h)
  PROVE  IInv'
  <1> DEFINE agents == rerun[h].agents
             b      == rerun[h].base
             rv     == SeedFrom(NewReview(agents), b, agents)
  <1>1. agents \in SUBSET Agents /\ b \in Review /\ b.sessionID \in 0..Len(store)
    BY DEF IInv, TypeOK, Sessions
  <1>2. NewReview(agents) \in Review /\ NewReview({}) \in Review /\ NewReview({}).sessionID = 0
    BY NewReviewType
  <1>3. rv \in Review /\ rv.sessionID = b.sessionID
    BY <1>1, <1>2, SeedFromType
  <1>4. Begin(agents, rv, b.sessionID) /\ rerun' = [rerun EXCEPT ![h] = NoRerun]
    BY DEF RerunStart
  <1>5. 0 \in 0..Len(store)
    BY DEF IInv, TypeOK
  <1>6. /\ rerun' \in [Rerunners -> [agents : SUBSET Agents, base : Review]]
        /\ \A k \in Rerunners : rerun'[k].base.sessionID \in 0..Len(store)
    BY <1>2, <1>4, <1>5 DEF IInv, TypeOK, Sessions, NoRerun
  <1>7. QED
    BY <1>1, <1>3, <1>4, <1>6, BeginIInv

(* Rerun and cancel handlers change nothing the run's invariant speaks of. *)
LEMMA HandlerIInv ==
  ASSUME IInv, UNCHANGED <<ownVars, review, pc, runVars, store>>,
         whole' \in BOOLEAN, marked' \subseteq Agents, stopped' \in BOOLEAN,
         aborted' \subseteq Agents,
         cancel' \in [Cancellers -> [run : Nat, aborts : SUBSET Agents, stop : BOOLEAN]],
         rerun' \in [Rerunners -> [agents : SUBSET Agents, base : Review]],
         \A h \in Rerunners : rerun'[h].base.sessionID \in 0..Len(store)
  PROVE  IInv'
  <1> USE DEF IInv, ownVars, runVars
  <1>1. TypeOK'
    BY DEF TypeOK
  <1>2. Shape'
    BY DEF Shape, IsSettled
  <1>3. Sessions'
    BY DEF Sessions
  <1>4. Persisting'
    BY DEF Persisting, First, Ending
  <1>5. SingleFlight' /\ ConcernsHaveTheirReport'
    BY DEF SingleFlight, ConcernsHaveTheirReport
  <1>6. QED
    BY <1>1, <1>2, <1>3, <1>4, <1>5

LEMMA RerunReadIInv ==
  ASSUME IInv, NEW h \in Rerunners, NEW a \in Agents, RerunRead(h, a)
  PROVE  IInv'
  <1>1. ASSUME NEW b \in Bases PROVE b \in Review /\ b.sessionID \in 0..Len(store)
    BY <1>1, HydrateType DEF Bases, IInv, TypeOK, Sessions
  <1>2. PICK b \in Bases : rerun' = [rerun EXCEPT ![h] = [agents |-> {a}, base |-> b]]
    BY DEF RerunRead
  <1>3. /\ rerun' \in [Rerunners -> [agents : SUBSET Agents, base : Review]]
        /\ \A k \in Rerunners : rerun'[k].base.sessionID \in 0..Len(store)
    BY <1>1, <1>2 DEF IInv, TypeOK, Sessions
  <1>4. QED
    BY <1>3, HandlerIInv DEF RerunRead, cancelVars, IInv, TypeOK

LEMMA RerunRefusedIInv ==
  ASSUME IInv, NEW h \in Rerunners, RerunRefused(h)
  PROVE  IInv'
  <1>1. NewReview({}) \in Review /\ NewReview({}).sessionID = 0 /\ 0 \in 0..Len(store)
    BY NewReviewType DEF IInv, TypeOK
  <1>2. /\ rerun' \in [Rerunners -> [agents : SUBSET Agents, base : Review]]
        /\ \A k \in Rerunners : rerun'[k].base.sessionID \in 0..Len(store)
    BY <1>1 DEF RerunRefused, NoRerun, IInv, TypeOK, Sessions
  <1>3. QED
    BY <1>2, HandlerIInv DEF RerunRefused, cancelVars, IInv, TypeOK

LEMMA CancelIInv ==
  ASSUME IInv, NEW c \in Cancellers,
         CancelAll(c) \/ (\E a \in Agents : CancelAgent(c, a)) \/ CancelStep(c)
  PROVE  IInv'
  <1> DEFINE Handlers == [run : Nat, aborts : SUBSET Agents, stop : BOOLEAN]
  <1>1. cancel[c] \in Handlers /\ inFlight \in Nat
    BY DEF IInv, TypeOK
  <1>2. ASSUME NEW names \in SUBSET Agents, NEW all \in BOOLEAN, CancelMark(c, names, all)
        PROVE  IInv'
    <2>1. [run |-> inFlight, aborts |-> Abortable(names), stop |-> all] \in Handlers
      BY <1>1 DEF Abortable
    <2>2. QED
      BY <1>2, <2>1, HandlerIInv DEF CancelMark, IInv, TypeOK, Sessions
  <1>3. CASE CancelAll(c)
    BY <1>2, <1>3 DEF CancelAll, Present
  <1>4. ASSUME NEW a \in Agents, CancelAgent(c, a) PROVE IInv'
    BY <1>2, <1>4 DEF CancelAgent
  <1>5. ASSUME NEW a \in Agents, CancelAbort(c, a) PROVE IInv'
    BY <1>1, <1>5, HandlerIInv DEF CancelAbort, IInv, TypeOK, Sessions
  <1>6. CASE CancelReturn(c)
    BY <1>1, <1>6, HandlerIInv DEF CancelReturn, NoCancel, IInv, TypeOK, Sessions
  <1>7. QED
    BY <1>3, <1>4, <1>5, <1>6 DEF CancelStep

-----------------------------------------------------------------------------
(* The run's goroutine, where it only rewrites its record *)

(* A step of the run that writes no row and wakes no agent. *)
LEMMA RecordIInv ==
  ASSUME IInv, UNCHANGED <<ownVars, cancelVars, runVars, store, cancel, rerun>>,
         pc # "idle", \A a \in Agents : apc[a] \in {"none", "ended"},
         review' \in Review, review'.sessionID \in 0..Len(store),
         pc' \in PCs \ ({"idle"} \cup Writing),
         pc' \in Running => review'.status = "running",
         pc' = "restore" => review'.status = "cancelled" /\ base # 0
  PROVE  IInv'
  <1> USE DEF IInv, ownVars, cancelVars, runVars
  <1>1. TypeOK'
    BY DEF TypeOK
  <1>2. Shape'
    BY DEF Shape, Running, IsSettled
  <1>3. Sessions'
    BY DEF Sessions
  <1>4. Persisting'
    BY DEF Persisting, Writing
  <1>5. SingleFlight' /\ ConcernsHaveTheirReport'
    BY DEF SingleFlight, ConcernsHaveTheirReport
  <1>6. QED
    BY <1>1, <1>2, <1>3, <1>4, <1>5

(* settle leaves the pipeline with the record settled. *)
LEMMA SettleIInv ==
  ASSUME IInv, UNCHANGED <<ownVars, cancelVars, runVars, store, cancel, rerun>>,
         pc # "idle", \A a \in Agents : apc[a] \in {"none", "ended"},
         NEW rv \in Review, rv.sessionID = review.sessionID,
         NEW cause \in {"error", "cancelled"}, Settle(rv, cause)
  PROVE  IInv'
  <1>1. cause \in Cause
    BY DEF Cause
  <1>2. /\ review' \in Review
        /\ review'.status = cause
        /\ review'.sessionID = review.sessionID
    BY <1>1, FinishType DEF Settle, StageStatus
  <1>3. /\ pc' \in {"persistFailure", "restore", "release"}
        /\ pc' = "restore" => cause = "cancelled" /\ base # 0
    BY DEF Settle
  <1>4. QED
    BY <1>2, <1>3, RecordIInv DEF IInv, Sessions, PCs, Writing, Running

LEMMA FetchIInv ==
  ASSUME IInv, FetchStep \/ CheckoutStep
  PROVE  IInv'
  <1>1. /\ review \in Review /\ pc # "idle" /\ CtxCause \in {"error", "cancelled"}
        /\ \A a \in Agents : apc[a] \in {"none", "ended"}
        /\ review.status = "running"
        /\ review.sessionID \in 0..Len(store)
    BY DEF FetchStep, CheckoutStep, FetchDone, FetchFailed, CheckoutDone, CheckoutFailed,
           CtxCause, IInv, TypeOK, Shape, Sessions, Running
  <1>2. CtxCause \in Cause /\ "nil" \in Cause /\ {"fetch", "checkout"} \subseteq ReviewStages
    BY <1>1 DEF Cause, ReviewStages
  <1>3. ASSUME NEW s \in {"fetch", "checkout"}, NEW c \in Cause
        PROVE  /\ EndStage(review, s, c) \in Review
               /\ EndStage(review, s, c).status = "running"
               /\ EndStage(review, s, c).sessionID = review.sessionID
    BY <1>1, <1>2, EndStageType
  <1>4. CASE FetchDone
    <2>1. /\ review' \in Review
          /\ review'.status = "running"
          /\ review'.sessionID = review.sessionID
      BY <1>2, <1>3, <1>4, StartStageType DEF FetchDone
    <2>2. QED
      BY <1>1, <1>4, <2>1, RecordIInv DEF FetchDone, PCs, Writing
  <1>5. CASE CheckoutDone
    BY <1>1, <1>2, <1>3, <1>5, RecordIInv DEF CheckoutDone, PCs, Writing
  <1>6. CASE FetchFailed
    BY <1>1, <1>2, <1>3, <1>6, SettleIInv DEF FetchFailed
  <1>7. CASE CheckoutFailed
    BY <1>1, <1>2, <1>3, <1>7, SettleIInv DEF CheckoutFailed
  <1>8. QED
    BY <1>4, <1>5, <1>6, <1>7 DEF FetchStep, CheckoutStep

LEMMA JoinIInv ==
  ASSUME IInv, ConfigFailed \/ JoinCancelled \/ JoinFailed \/ JoinStore
  PROVE  IInv'
  <1>1. /\ review \in Review /\ pc # "idle"
        /\ review.status = "running"
        /\ review.sessionID \in 0..Len(store)
    BY DEF ConfigFailed, JoinCancelled, JoinFailed, JoinStore, IInv, TypeOK, Shape, Sessions, Running
  <1>2. \A a \in Agents : apc[a] \in {"none", "ended"}
    BY DEF ConfigFailed, JoinCancelled, JoinFailed, JoinStore, Joined, IInv, TypeOK, Shape, APCs
  <1>3. CASE JoinStore
    BY <1>1, <1>2, <1>3, StartStageType, RecordIInv DEF JoinStore, PCs, Writing, ReviewStages
  <1>4. CASE ConfigFailed
    BY <1>1, <1>2, <1>4, SettleIInv DEF ConfigFailed
  <1>5. CASE JoinCancelled
    BY <1>1, <1>2, <1>5, SettleIInv DEF JoinCancelled
  <1>6. CASE JoinFailed
    BY <1>1, <1>2, <1>6, SettleIInv DEF JoinFailed
  <1>7. QED
    BY <1>3, <1>4, <1>5, <1>6

LEMMA ShownType ==
  ASSUME NEW rv \in Review, NEW i \in Nat, NEW c \in [Agents -> Nat]
  PROVE  /\ [rv EXCEPT !.sessionID = i, !.concerns = c] \in Review
         /\ [rv EXCEPT !.sessionID = i, !.concerns = c].sessionID = i
         /\ [rv EXCEPT !.status = "done", !.concerns = c] \in Review
         /\ [rv EXCEPT !.status = "done", !.concerns = c].sessionID = rv.sessionID
  BY DEF Review, Status

(* Reading a row back, after persist or to restore it (run, restore). *)
LEMMA ReadBackIInv ==
  ASSUME IInv, Completed \/ PersistFailed \/ Restore \/ RestoreFailed
  PROVE  IInv'
  <1>1. /\ review \in Review /\ pc # "idle"
        /\ review.sessionID \in 0..Len(store)
        /\ store \in Seq(Row) /\ Len(store) \in Nat
    BY DEF Completed, PersistFailed, Restore, RestoreFailed, IInv, TypeOK, Sessions
  <1>2. \A a \in Agents : apc[a] \in {"none", "ended"}
    BY DEF Completed, PersistFailed, Restore, RestoreFailed, IInv, Shape
  <1>3. ASSUME NEW i \in 1..Len(store)
        PROVE  /\ store[i].agents \in [Agents -> {"none", "done", "error"}]
               /\ store[i].concerns \in [Agents -> Nat]
    <2>1. store[i] \in Row
      BY <1>1
    <2>2. QED
      BY <2>1 DEF Row, RowAgents
  <1>4. "nil" \in Cause /\ "error" \in Cause /\ "store" \in ReviewStages
    BY DEF Cause, ReviewStages
  <1>5. CASE Completed
    <2>1. target \in 1..Len(store)
      BY <1>5 DEF Completed, IInv, Sessions, Writing
    <2> DEFINE rv == MergeStoredAgents(EndStage(review, "store", "nil"), store[target].agents)
               nu == [rv EXCEPT !.sessionID = target, !.concerns = store[target].concerns]
    <2>2. rv \in Review
      BY <1>1, <1>3, <1>4, <2>1, EndStageType, MergeType
    <2> HIDE DEF rv
    <2>3. nu \in Review /\ nu.sessionID = target
      <3>1. target \in Nat
        BY <1>1, <2>1
      <3>2. QED
        BY <1>3, <2>1, <2>2, <3>1, ShownType DEF Review
    <2>4. review' \in Review /\ review'.sessionID = target
      BY <1>4, <1>5, <2>3, FinishType DEF Completed, rv
    <2>5. QED
      BY <1>1, <1>2, <1>5, <2>1, <2>4, RecordIInv DEF Completed, PCs, Writing, Running
  <1>6. CASE PersistFailed
    BY <1>1, <1>2, <1>4, <1>6, EndStageType, SettleIInv DEF PersistFailed
  <1>7. CASE Restore
    <2>1. base \in 1..Len(store)
      BY <1>1, <1>7 DEF Restore, IInv, Shape, Sessions
    <2>2. ClearStages(review) \in Review /\ ClearStages(review).sessionID = review.sessionID
      <3>1. ASSUME NEW a \in Agents
            PROVE  [review.agents[a] EXCEPT !.stages = NoStages] \in Agent
        <4>1. review.agents[a] \in Agent
          BY <1>1 DEF Review
        <4>2. QED
          BY <4>1 DEF Agent, NoStages, Status
      <3>2. QED
        BY <1>1, <3>1 DEF ClearStages, Review
    <2> DEFINE rv == MergeStoredAgents(ClearStages(review), store[base].agents)
    <2>3. rv \in Review /\ rv.sessionID = review.sessionID
      BY <1>3, <2>1, <2>2, MergeType
    <2>4. review' = [rv EXCEPT !.status = "done", !.concerns = store[base].concerns]
      BY <1>7 DEF Restore
    <2> HIDE DEF rv
    <2>5. review' \in Review /\ review'.sessionID = review.sessionID
      BY <1>3, <2>1, <2>3, <2>4 DEF Review, Status
    <2>6. QED
      BY <1>1, <1>2, <1>7, <2>5, RecordIInv DEF Restore, PCs, Writing, Running
  <1>8. CASE RestoreFailed
    BY <1>1, <1>2, <1>8, RecordIInv DEF RestoreFailed, PCs, Writing, Running
  <1>9. QED
    BY <1>5, <1>6, <1>7, <1>8

-----------------------------------------------------------------------------
(* The agents' goroutines *)

(* An agent's step, whatever it does, finds the run waiting and leaves it so. *)
LEMMA AgentMoves ==
  ASSUME IInv, NEW a \in Agents, apc[a] \notin {"none", "ended"},
         NEW to \in APCs, AgentGoes(a, to), AgentFrame,
         review' \in Review, review'.status = review.status,
         review'.sessionID = review.sessionID,
         outcome' \in [Agents -> {"none", "done", "error", "cancelled"}],
         opened' \subseteq Agents, aborted' \subseteq Agents
  PROVE  IInv'
  <1> USE DEF IInv, AgentFrame, AgentGoes, ownVars
  <1>1. pc = "agents" /\ a \in selected
    BY DEF Shape
  <1>2. TypeOK'
    BY DEF TypeOK
  <1>3. Shape'
    BY <1>1 DEF Shape, IsSettled, TypeOK
  <1>4. Sessions'
    BY DEF Sessions
  <1>5. Persisting'
    BY <1>1 DEF Persisting
  <1>6. SingleFlight' /\ ConcernsHaveTheirReport'
    BY DEF SingleFlight, ConcernsHaveTheirReport
  <1>7. QED
    BY <1>2, <1>3, <1>4, <1>5, <1>6

LEMMA AgentIInv ==
  ASSUME IInv, NEW a \in Agents, AgentStep(a)
  PROVE  IInv'
  <1> DEFINE Outcomes == [Agents -> {"none", "done", "error", "cancelled"}]
  <1>1. /\ review \in Review /\ outcome \in Outcomes
        /\ opened \subseteq Agents /\ aborted \subseteq Agents
    BY DEF IInv, TypeOK
  <1>2. {"nil", "error", "cancelled"} \subseteq Cause
    BY DEF Cause
  <1>3. AgentStages = {"session", "prompt", "parse"}
    BY DEF AgentStages
  <1>4. ASSUME apc[a] \notin {"none", "ended"}, NEW s \in AgentStages,
               NEW c \in {"error", "cancelled"}, AgentEnds(a, s, c)
        PROVE  IInv'
    <2>1. outcome' \in Outcomes /\ "ended" \in APCs
      BY <1>1, <1>4 DEF AgentEnds, APCs
    <2>2. QED
      BY <1>1, <1>2, <1>4, <2>1, EndAgentStageType, AgentMoves DEF AgentEnds
  <1>5. ASSUME apc[a] \notin {"none", "ended"}, NEW s \in AgentStages,
               NEW to \in APCs, AgentStarts(a, s, to)
        PROVE  IInv'
    BY <1>1, <1>5, StartAgentStageType, AgentMoves DEF AgentStarts
  <1>6. CASE AgentBegin(a)
    BY <1>3, <1>4, <1>5, <1>6 DEF AgentBegin, APCs
  <1>7. CASE SessionReady(a)
    <2>1. opened' \subseteq Agents /\ aborted' \subseteq Agents /\ "ready" \in APCs
      BY <1>1, <1>7 DEF SessionReady, APCs
    <2>2. QED
      BY <1>1, <1>2, <1>3, <1>7, <2>1, EndAgentStageType, AgentMoves DEF SessionReady
  <1>8. CASE CreateSessionFailed(a)
    BY <1>3, <1>4, <1>8 DEF CreateSessionFailed
  <1>9. CASE AgentCheck(a)
    <2>1. CASE IsCancelled(a)
      <3>1. outcome' \in Outcomes /\ aborted' \subseteq Agents /\ "ended" \in APCs
        BY <1>1, <1>9, <2>1 DEF AgentCheck, APCs
      <3>2. /\ review' \in Review
            /\ review'.status = review.status
            /\ review'.sessionID = review.sessionID
        <4>1. review' = EndAgentStage(review, a, "prompt", "cancelled")
          BY <1>9, <2>1 DEF AgentCheck
        <4>2. "prompt" \in AgentStages /\ "cancelled" \in Cause
          BY <1>2, <1>3
        <4>3. QED
          BY <1>1, <4>1, <4>2, EndAgentStageType
      <3>3. AgentGoes(a, "ended") /\ AgentFrame /\ opened' \subseteq Agents /\ apc[a] = "ready"
        BY <1>1, <1>9, <2>1 DEF AgentCheck
      <3>4. QED
        BY <3>1, <3>2, <3>3, AgentMoves
    <2>2. CASE ~IsCancelled(a)
      BY <1>3, <1>5, <1>9, <2>2 DEF AgentCheck, APCs
    <2>3. QED
      BY <2>1, <2>2
  <1>10. CASE Prompt(a)
    BY <1>1, <1>10, AgentMoves DEF Prompt, APCs
  <1>11. CASE Reported(a)
    <2>1. PICK cause \in {"nil", "error"} :
            /\ review' = EndAgentStage(StartAgentStage(EndAgentStage(review, a, "prompt", "nil"),
                                                       a, "parse"),
                                       a, "parse", cause)
            /\ outcome' = [outcome EXCEPT ![a] = StageStatus(cause)]
      BY <1>11 DEF Reported
    <2> DEFINE r1 == EndAgentStage(review, a, "prompt", "nil")
               r2 == StartAgentStage(r1, a, "parse")
    <2>2. r1 \in Review /\ r1.status = review.status /\ r1.sessionID = review.sessionID
      BY <1>1, <1>2, <1>3, EndAgentStageType
    <2>3. r2 \in Review /\ r2.status = review.status /\ r2.sessionID = review.sessionID
      BY <1>3, <2>2, StartAgentStageType
    <2>4. /\ review' \in Review
          /\ review'.status = review.status
          /\ review'.sessionID = review.sessionID
      <3>1. review' = EndAgentStage(r2, a, "parse", cause)
        BY <2>1
      <3>2. "parse" \in AgentStages /\ cause \in Cause
        BY <1>2, <1>3, <2>1
      <3> HIDE DEF r2
      <3>3. QED
        BY <2>2, <2>3, <3>1, <3>2, EndAgentStageType
    <2>5. outcome' \in Outcomes /\ "ended" \in APCs
      BY <1>1, <2>1 DEF StageStatus, APCs
    <2>6. /\ AgentGoes(a, "ended") /\ AgentFrame /\ apc[a] = "wait"
          /\ opened' \subseteq Agents /\ aborted' \subseteq Agents
      BY <1>1, <1>11 DEF Reported
    <2>7. QED
      BY <2>4, <2>5, <2>6, AgentMoves
  <1>12. CASE PromptFailed(a)
    BY <1>3, <1>4, <1>12 DEF PromptFailed
  <1>13. CASE NoReport(a)
    BY <1>3, <1>4, <1>13 DEF NoReport
  <1>14. QED
    BY <1>6, <1>7, <1>8, <1>9, <1>10, <1>11, <1>12, <1>13 DEF AgentStep

LEMMA LaunchIInv ==
  ASSUME IInv, LaunchAgents
  PROVE  IInv'
  <1> USE DEF IInv, LaunchAgents, ownVars, cancelVars
  <1>1. TypeOK'
    BY DEF TypeOK, PCs, APCs
  <1>2. Shape'
    BY DEF Shape, IsSettled, TypeOK, Running
  <1>3. Sessions' /\ Persisting'
    BY DEF Sessions, Persisting, Writing
  <1>4. SingleFlight' /\ ConcernsHaveTheirReport'
    BY DEF SingleFlight, ConcernsHaveTheirReport
  <1>5. QED
    BY <1>1, <1>2, <1>3, <1>4

-----------------------------------------------------------------------------
(* The statements of persist, persistFailure and the release *)

\* What every statement of persist leaves alone, or moves within the pipeline.
PersistMoves ==
  /\ PersistFrame
  /\ pc \in {"session", "clear", "save", "concerns"} /\ pc' \in Writing

LEMMA PersistShape ==
  ASSUME IInv, PersistMoves
  PROVE  Shape' /\ SingleFlight'
  BY DEF IInv, PersistMoves, PersistFrame, ownVars, Shape, IsSettled, Running, Writing, SingleFlight

\* A statement that updates the row it persists to, and none other.
LEMMA RowWritten ==
  ASSUME IInv, PersistMoves, pc \in Writing, UNCHANGED target, todo' \subseteq Agents,
         NEW r \in Row, store' = [store EXCEPT ![target] = r],
         \A a \in Agents : r.concerns[a] # 0 => r.agents[a] = "done"
  PROVE  /\ TypeOK' /\ Shape' /\ SingleFlight' /\ Sessions' /\ ConcernsHaveTheirReport'
         /\ store'[target] = r
  <1> USE DEF IInv, PersistMoves, PersistFrame, ownVars, cancelVars
  <1>1. store \in Seq(Row) /\ target \in 1..Len(store)
    BY DEF TypeOK, Sessions
  <1>2. /\ store' \in Seq(Row) /\ Len(store') = Len(store) /\ store'[target] = r
        /\ \A j \in 1..Len(store) : j # target => store'[j] = store[j]
    BY <1>1, UpdateRow
  <1>3. TypeOK'
    BY <1>2 DEF TypeOK, PCs, Writing
  <1>4. Sessions'
    BY <1>1, <1>2 DEF Sessions
  <1>5. ConcernsHaveTheirReport'
    BY <1>2 DEF ConcernsHaveTheirReport
  <1>6. QED
    BY <1>2, <1>3, <1>4, <1>5, PersistShape

\* A review of an earlier row keeps it; a new one is appended, and no id moves.
LEMMA PersistSessionIInv ==
  ASSUME IInv, PersistSession
  PROVE  IInv'
  <1> USE DEF IInv, PersistSession, PersistFrame, ownVars, cancelVars
  <1>1. /\ store \in Seq(Row) /\ Len(store) \in Nat /\ base \in 0..Len(store)
        /\ NewRow("done") \in Row
    BY NewRowType DEF TypeOK, Sessions
  <1>2. /\ store' \in Seq(Row) /\ Len(store') >= Len(store) /\ Len(store') \in Nat
        /\ target' \in 1..Len(store')
        /\ \A i \in 1..Len(store') : store'[i] = NewRow("done") \/ (i <= Len(store) /\ store'[i] = store[i])
    <2>1. CASE base # 0
      BY <1>1, <2>1
    <2>2. CASE base = 0
      BY <1>1, <2>2, AppendRow
    <2>3. QED
      BY <2>1, <2>2
  <1>3. TypeOK'
    BY <1>2 DEF TypeOK, PCs
  <1>4. Shape' /\ SingleFlight'
    BY PersistShape DEF PersistMoves, Writing
  <1>5. Sessions'
    BY <1>1, <1>2 DEF Sessions
  <1>6. Persisting'
    BY DEF Persisting, Ending
  <1>7. ConcernsHaveTheirReport'
    BY <1>1, <1>2 DEF ConcernsHaveTheirReport, NewRow
  <1>8. QED
    BY <1>3, <1>4, <1>5, <1>6, <1>7

\* Clearing an agent's concerns before its status is written is what keeps a
\* failed rerun from leaving the earlier concerns under its error.
LEMMA ClearConcernsIInv ==
  ASSUME IInv, NEW a \in Agents, ClearConcerns(a)
  PROVE  IInv'
  <1> DEFINE r == [store[target] EXCEPT !.concerns = [store[target].concerns EXCEPT ![a] = 0]]
  <1>1. pc = "clear" /\ target \in 1..Len(store) /\ store[target] \in Row
    BY DEF ClearConcerns, IInv, TypeOK, Sessions, Writing
  <1>2. /\ r \in Row /\ r.agents = store[target].agents
        /\ r.concerns = [store[target].concerns EXCEPT ![a] = 0]
        /\ store[target].concerns \in [Agents -> Nat]
    BY <1>1 DEF Row
  <1>3. \A b \in Agents : r.concerns[b] # 0 => r.agents[b] = "done"
    BY <1>1, <1>2 DEF IInv, ConcernsHaveTheirReport
  <1>4. store' = [store EXCEPT ![target] = r] /\ UNCHANGED <<target, todo>> /\ PersistMoves
    BY <1>1 DEF ClearConcerns, PersistMoves, Writing
  <1>5. /\ TypeOK' /\ Shape' /\ SingleFlight' /\ Sessions' /\ ConcernsHaveTheirReport'
        /\ store'[target] = r
    <2> HIDE DEF r
    <2>1. QED
      BY <1>1, <1>2, <1>3, <1>4, RowWritten DEF Writing, IInv, TypeOK
  <1>6. \A b \in Agents : First(b) => b = a
    BY AgentsAssumption DEF First, ClearConcerns
  <1>7. Persisting'
    BY <1>1, <1>2, <1>4, <1>5, <1>6
       DEF IInv, Persisting, ClearConcerns, First, Ending, PersistFrame
  <1>8. QED
    BY <1>5, <1>7 DEF IInv

LEMMA SaveAgentIInv ==
  ASSUME IInv, NEW a \in Agents, SaveAgent(a)
  PROVE  IInv'
  <1> DEFINE r == [store[target] EXCEPT !.agents = [store[target].agents EXCEPT ![a] = outcome[a]]]
  <1>1. /\ pc = "save" /\ a \in todo /\ a \in selected
        /\ target \in 1..Len(store) /\ store[target] \in Row
        /\ outcome[a] \in {"none", "done", "error"}
    BY DEF SaveAgent, First, IInv, TypeOK, Sessions, Persisting, Writing
  <1>2. /\ r \in Row /\ r.concerns = store[target].concerns
        /\ r.agents = [store[target].agents EXCEPT ![a] = outcome[a]]
        /\ store[target].agents \in [Agents -> {"none", "done", "error"}]
    BY <1>1 DEF Row, RowAgents
  <1>3. store[target].concerns[a] = 0
    BY <1>1 DEF SaveAgent, IInv, Persisting
  <1>4. \A b \in Agents : r.concerns[b] # 0 => r.agents[b] = "done"
    BY <1>1, <1>2, <1>3 DEF IInv, ConcernsHaveTheirReport
  <1>5. /\ store' = [store EXCEPT ![target] = r] /\ UNCHANGED target
        /\ todo' \subseteq Agents /\ PersistMoves
    BY <1>1 DEF SaveAgent, PersistMoves, Writing, Ending, IInv, TypeOK
  <1>6. /\ TypeOK' /\ Shape' /\ SingleFlight' /\ Sessions' /\ ConcernsHaveTheirReport'
        /\ store'[target] = r
    <2> HIDE DEF r
    <2>1. QED
      BY <1>1, <1>2, <1>4, <1>5, RowWritten DEF Writing
  <1>7. \A b \in Ending("done") \ (todo \ {a}) : r.agents[b] = "done"
    BY <1>1, <1>2 DEF IInv, TypeOK, Persisting, Ending
  <1>8. Persisting'
    <2>1. CASE todo = {a}
      BY <1>5, <1>6, <1>7, <2>1 DEF SaveAgent, Persisting, Ending, PersistFrame
    <2>2. CASE todo # {a}
      BY <1>1, <1>5, <1>6, <1>7, <2>2 DEF IInv, SaveAgent, Persisting, Ending, PersistFrame
    <2>3. QED
      BY <2>1, <2>2
  <1>9. QED
    BY <1>6, <1>8 DEF IInv

LEMMA CreateConcernIInv ==
  ASSUME IInv, NEW a \in Agents, CreateConcern(a)
  PROVE  IInv'
  <1> DEFINE r == [store[target] EXCEPT !.concerns = [store[target].concerns EXCEPT ![a] = inFlight]]
  <1>1. /\ pc = "concerns" /\ a \in todo
        /\ target \in 1..Len(store) /\ store[target] \in Row
        /\ store[target].agents[a] = "done" /\ inFlight \in Nat
    BY DEF CreateConcern, First, IInv, TypeOK, Sessions, Persisting, Writing
  <1>2. /\ r \in Row /\ r.agents = store[target].agents
        /\ r.concerns = [store[target].concerns EXCEPT ![a] = inFlight]
        /\ store[target].concerns \in [Agents -> Nat]
    BY <1>1 DEF Row
  <1>3. \A b \in Agents : r.concerns[b] # 0 => r.agents[b] = "done"
    BY <1>1, <1>2 DEF IInv, ConcernsHaveTheirReport
  <1>4. /\ store' = [store EXCEPT ![target] = r] /\ UNCHANGED target
        /\ todo' \subseteq Agents /\ PersistMoves
    BY <1>1 DEF CreateConcern, PersistMoves, Writing, IInv, TypeOK
  <1>5. /\ TypeOK' /\ Shape' /\ SingleFlight' /\ Sessions' /\ ConcernsHaveTheirReport'
        /\ store'[target] = r
    <2> HIDE DEF r
    <2>1. QED
      BY <1>1, <1>2, <1>3, <1>4, RowWritten DEF Writing
  <1>6. Persisting'
    BY <1>1, <1>2, <1>4, <1>5 DEF IInv, CreateConcern, Persisting
  <1>7. QED
    BY <1>5, <1>6 DEF IInv

LEMMA PersistFailureIInv ==
  ASSUME IInv, PersistFailure
  PROVE  IInv'
  <1> USE DEF IInv, PersistFailure, ownVars, cancelVars, runVars
  <1>1. /\ store \in Seq(Row) /\ Len(store) \in Nat /\ NewRow("error") \in Row
    BY NewRowType DEF TypeOK
  <1>2. /\ store' \in Seq(Row) /\ Len(store') >= Len(store) /\ Len(store') \in Nat
        /\ \A i \in 1..Len(store') : store'[i] = NewRow("error") \/ (i <= Len(store) /\ store'[i] = store[i])
    BY <1>1, AppendRow
  <1>3. TypeOK'
    BY <1>2 DEF TypeOK, PCs
  <1>4. Shape' /\ SingleFlight'
    BY DEF Shape, IsSettled, Running, SingleFlight
  <1>5. Sessions'
    BY <1>1, <1>2 DEF Sessions, Writing
  <1>6. Persisting'
    BY DEF Persisting
  <1>7. ConcernsHaveTheirReport'
    BY <1>1, <1>2 DEF ConcernsHaveTheirReport, NewRow
  <1>8. QED
    BY <1>3, <1>4, <1>5, <1>6, <1>7

LEMMA ReleaseIInv ==
  ASSUME IInv, Release
  PROVE  IInv'
  <1> USE DEF IInv, Release
  <1>1. TypeOK'
    BY DEF TypeOK, PCs, APCs
  <1>2. Shape'
    BY DEF Shape, Running
  <1>3. Sessions' /\ Persisting'
    BY DEF Sessions, Persisting, Writing, TypeOK
  <1>4. SingleFlight' /\ ConcernsHaveTheirReport'
    BY DEF SingleFlight, ConcernsHaveTheirReport
  <1>5. QED
    BY <1>1, <1>2, <1>3, <1>4

LEMMA RestartIInv ==
  ASSUME IInv, Restart
  PROVE  IInv'
  <1> USE DEF IInv, Restart
  <1>1. NewReview({}) \in Review /\ NewReview({}).sessionID = 0
    BY NewReviewType
  <1>2. TypeOK'
    BY <1>1 DEF TypeOK, PCs, APCs, NoCancel, NoRerun
  <1>3. Shape'
    BY DEF Shape, Running
  <1>4. Sessions'
    BY <1>1 DEF Sessions, Writing, TypeOK, NoRerun
  <1>5. Persisting'
    BY DEF Persisting
  <1>6. SingleFlight' /\ ConcernsHaveTheirReport'
    BY DEF SingleFlight, ConcernsHaveTheirReport
  <1>7. QED
    BY <1>2, <1>3, <1>4, <1>5, <1>6

-----------------------------------------------------------------------------
(* The theorems *)

(* IInv is inductive. *)
LEMMA NextIInv == IInv /\ [Next]_vars => IInv'
  <1> SUFFICES ASSUME IInv, [Next]_vars PROVE IInv'
    OBVIOUS
  <1>1. CASE UNCHANGED vars
    BY <1>1, HandlerIInv DEF vars, ownVars, cancelVars, runVars, IInv, TypeOK, Sessions
  <1>2. ASSUME NEW names \in Selections, Start(names) PROVE IInv'
    BY <1>2, StartIInv
  <1>3. ASSUME NEW h \in Rerunners,
               (\E a \in Agents : RerunRead(h, a)) \/ RerunStart(h) \/ RerunRefused(h)
        PROVE  IInv'
    BY <1>3, RerunReadIInv, RerunStartIInv, RerunRefusedIInv
  <1>4. ASSUME NEW c \in Cancellers,
               CancelAll(c) \/ (\E a \in Agents : CancelAgent(c, a)) \/ CancelStep(c)
        PROVE  IInv'
    BY <1>4, CancelIInv
  <1>5. CASE FetchStep \/ CheckoutStep
    BY <1>5, FetchIInv
  <1>6. CASE RunStep
    <2>1. ASSUME NEW a \in Agents, ClearConcerns(a) \/ SaveAgent(a) \/ CreateConcern(a)
          PROVE  IInv'
      BY <2>1, ClearConcernsIInv, SaveAgentIInv, CreateConcernIInv
    <2>2. CASE PersistStep
      BY <2>1, <2>2, PersistSessionIInv, ReadBackIInv DEF PersistStep
    <2>3. QED
      BY <1>6, <2>2, LaunchIInv, JoinIInv, ReadBackIInv, PersistFailureIInv, ReleaseIInv
         DEF RunStep
  <1>7. ASSUME NEW a \in Agents, AgentStep(a) PROVE IInv'
    BY <1>7, AgentIInv
  <1>8. QED
    BY <1>1, <1>2, <1>3, <1>4, <1>5, <1>6, <1>7, RestartIInv DEF Next, Exhausted

THEOREM Invariance == Spec => []IInv
  BY InitIInv, NextIInv, PTL DEF Spec

(* Every variable keeps its type. *)
THEOREM TypeCorrect == Spec => []TypeOK
  <1>1. IInv => TypeOK
    BY DEF IInv
  <1>2. QED
    BY <1>1, Invariance, PTL

(* No two runs of a pull request overlap, whatever handlers and failures come in *)
(* between (Runner.Start, Runner.release).                                        *)
THEOREM OneRunAtATime == Spec => []SingleFlight
  <1>1. IInv => SingleFlight
    BY DEF IInv
  <1>2. QED
    BY <1>1, Invariance, PTL

(* At every statement of persist where it may stop, concerns are stored only      *)
(* beside an agent that succeeded (reviewer.persist).                             *)
THEOREM ReportBesideConcerns == Spec => []ConcernsHaveTheirReport
  <1>1. IInv => ConcernsHaveTheirReport
    BY DEF IInv
  <1>2. QED
    BY <1>1, Invariance, PTL

(* A settled record is final, restore apart: the join in reviewer.Review lets no  *)
(* event of an agent arrive after it.                                             *)
THEOREM SettledIsFinal == Spec => NoLateProgress
  <1> DEFINE Late == inFlight' = inFlight /\ inFlight # 0 /\ IsSettled(review) /\ review' # review
  <1>1. ASSUME IInv, [Next]_vars, Late
        PROVE  review.status = "cancelled" /\ review'.status = "done"
    <2>1. pc \notin Running /\ pc # "idle" /\ review \in Review
      BY <1>1 DEF IInv, Shape, TypeOK
    <2>2. \A a \in Agents : ~AgentStep(a)
      BY <2>1, <1>1 DEF IInv, Shape, Running, AgentStep, AgentBegin, SessionReady,
         CreateSessionFailed, AgentCheck, Prompt, Reported, PromptFailed, NoReport
    <2>3. ~(FetchStep \/ CheckoutStep)
      BY <2>1 DEF Running, FetchStep, FetchDone, FetchFailed, CheckoutStep, CheckoutDone, CheckoutFailed
    <2>4. ASSUME RunStep PROVE Restore
      <3>1. ~PersistStep
        BY <2>1 DEF Running, PersistStep, PersistSession, ClearConcerns, SaveAgent, CreateConcern,
                    Completed, PersistFailed
      <3>2. ~(LaunchAgents \/ ConfigFailed \/ JoinCancelled \/ JoinFailed \/ JoinStore)
        BY <2>1 DEF Running, LaunchAgents, ConfigFailed, JoinCancelled, JoinFailed, JoinStore
      <3>3. QED
        BY <1>1, <2>4, <3>1, <3>2 DEF RunStep, PersistFailure, RestoreFailed, Release
    <2>5. ~\E names \in Selections : Start(names)
      BY <1>1 DEF Start, Begin
    <2>6. ~\E h \in Rerunners : (\E a \in Agents : RerunRead(h, a)) \/ RerunStart(h) \/ RerunRefused(h)
      BY <1>1 DEF RerunRead, RerunStart, RerunRefused, Begin
    <2>7. ~\E c \in Cancellers : CancelAll(c) \/ (\E a \in Agents : CancelAgent(c, a)) \/ CancelStep(c)
      BY <1>1 DEF CancelAll, CancelAgent, CancelMark, CancelStep, CancelAbort, CancelReturn
    <2>8. Restore
      BY <1>1, <2>2, <2>3, <2>4, <2>5, <2>6, <2>7 DEF Next, Restart, Exhausted, vars
    <2>9. base \in 1..Len(store) /\ store \in Seq(Row) /\ review.status = "cancelled"
      BY <1>1, <2>8 DEF Restore, IInv, TypeOK, Shape, Sessions
    <2>10. review'.status = "done"
      BY <2>8, <2>1 DEF Restore, MergeStoredAgents, ClearStages, Review
    <2>11. QED
      BY <2>9, <2>10
  <1>2. QED
    BY <1>1, Invariance, PTL DEF Spec, NoLateProgress

-----------------------------------------------------------------------------
(* The refinement *)

Kept ==
  /\ pc \in Running \cup {"persistFailure"} => review.sessionID = base
  /\ pc = "persistFailure" => review.status = "error"

\* A step of ReviewRun as ReviewLife sees it.
Seen == [Life!Next]_(Life!vars)

-----------------------------------------------------------------------------
LEMMA SameIsSeen ==
  ASSUME Phase' = Phase, review'.status = review.status, base' = base,
         Statuses' = Statuses
  PROVE  Seen
  BY DEF Seen, Life!vars

LEMMA StatusesAppend ==
  ASSUME store \in Seq(Row), NEW status \in {"done", "error"},
         store' = Append(store, NewRow(status))
  PROVE  Statuses' = Append(Statuses, status)
  <1>1. Len(store) \in Nat /\ Len(store') = Len(store) + 1
    BY NewRowType, AppendRow
  <1>2. Statuses \in Seq({"done", "error"}) /\ Len(Statuses) = Len(store)
    <2>1. \A i \in 1..Len(store) : store[i].status \in {"done", "error"}
      <3>1. \A i \in 1..Len(store) : store[i] \in Row
        OBVIOUS
      <3>2. QED
        BY <3>1 DEF Row
    <2>2. QED
      BY <1>1, <2>1 DEF Statuses
  <1>3. ASSUME NEW i \in 1..Len(store) + 1
        PROVE  store'[i].status = Append(Statuses, status)[i]
    <2>1. CASE i = Len(store) + 1
      BY <1>1, <1>2, <2>1, NewRowType, AppendRow DEF NewRow
    <2>2. CASE i \in 1..Len(store)
      BY <1>1, <1>2, <2>2, NewRowType, AppendRow DEF Statuses
    <2>3. i = Len(store) + 1 \/ i \in 1..Len(store)
      <3>1. i \in 1..Len(store) + 1 /\ Len(store) \in Nat
        BY <1>1
      <3>2. QED
        BY <3>1
    <2>4. QED
      BY <2>1, <2>2, <2>3
  <1>4. Statuses' = [i \in 1..Len(store) + 1 |-> store'[i].status]
    BY <1>1 DEF Statuses
  <1>5. Append(Statuses, status) = [i \in 1..Len(store) + 1 |-> Append(Statuses, status)[i]]
    <2>1. ASSUME NEW s \in Seq({"done", "error"}), NEW x \in {"done", "error"}
          PROVE  Append(s, x) = [i \in 1..Len(s) + 1 |-> Append(s, x)[i]]
      <3>1. Append(s, x) \in Seq({"done", "error"}) /\ Len(Append(s, x)) = Len(s) + 1
        BY AppendProperties
      <3>2. ASSUME NEW t \in Seq({"done", "error"})
            PROVE  t = [i \in 1..Len(t) |-> t[i]]
        <4>1. Len(t) \in Nat /\ t \in [1..Len(t) -> {"done", "error"}]
          BY LenProperties
        <4>2. QED
          BY <4>1
      <3>3. QED
        BY <3>1, <3>2
    <2>2. QED
      BY <1>2, <2>1
  <1>6. QED
    BY <1>3, <1>4, <1>5

LEMMA StatusesSame ==
  ASSUME store \in Seq(Row), NEW i \in 1..Len(store), NEW r \in Row,
         r.status = store[i].status, store' = [store EXCEPT ![i] = r]
  PROVE  Statuses' = Statuses
  <1>1. Len(store') = Len(store) /\ \A j \in 1..Len(store) : store'[j].status = store[j].status
    BY UpdateRow
  <1>2. QED
    BY <1>1 DEF Statuses

LEMMA StatusesUnchanged ==
  ASSUME store' = store
  PROVE  Statuses' = Statuses
  BY DEF Statuses

-----------------------------------------------------------------------------
(* Starting *)

LEMMA BeginSeen ==
  ASSUME IInv, IInv', NEW agents, NEW rv \in Review, NEW sid,
         rv.sessionID = sid, Begin(agents, rv, sid)
  PROVE  Kept' /\ Seen
  <1> DEFINE nu == [rv EXCEPT !.status = "running"]
  <1>1. nu \in Review /\ nu.status = "running" /\ nu.sessionID = sid
    BY DEF Review, Status
  <1>2. review'.status = "running" /\ review'.sessionID = sid
    BY <1>1, StartStageType DEF Begin, Enter, ReviewStages
  <1>3. Kept'
    BY <1>2 DEF Begin, Enter, Kept
  <1>4. Phase = "idle" /\ Phase' = "running"
    BY DEF Begin, Enter, Phase, IInv, Shape
  <1>5. base' # 0 => Statuses # <<>>
    <2>1. base' \in 0..Len(store) /\ Len(store) \in Nat
      BY DEF Begin, Enter, IInv, Sessions, TypeOK
    <2>2. ASSUME base' # 0 PROVE 1 \in DOMAIN Statuses
      BY <2>1, <2>2 DEF Statuses
    <2>3. QED
      BY <2>2
  <1>6. Statuses' = Statuses
    BY StatusesUnchanged DEF Begin, Enter
  <1>7. Life!Begin
    BY <1>2, <1>4, <1>5, <1>6 DEF Life!Begin
  <1>8. QED
    BY <1>3, <1>7 DEF Seen, Life!Next

LEMMA StartSeen ==
  ASSUME IInv, IInv', NEW names \in Selections, Start(names)
  PROVE  Kept' /\ Seen
  <1> DEFINE agents == NormaliseAgents(names)
  <1>1. NewReview(agents) \in Review /\ NewReview(agents).sessionID = 0
    BY NewReviewType
  <1>2. Begin(agents, NewReview(agents), 0)
    BY DEF Start
  <1> HIDE DEF agents
  <1>3. QED
    BY <1>1, <1>2, BeginSeen

LEMMA RerunStartSeen ==
  ASSUME IInv, IInv', NEW h \in Rerunners, RerunStart(h)
  PROVE  Kept' /\ Seen
  <1> DEFINE agents == rerun[h].agents
             b      == rerun[h].base
             rv     == SeedFrom(NewReview(agents), b, agents)
  <1>1. b \in Review /\ NewReview(agents) \in Review
    BY NewReviewType DEF IInv, TypeOK
  <1>2. rv \in Review /\ rv.sessionID = b.sessionID
    BY <1>1, SeedFromType
  <1>3. Begin(agents, rv, b.sessionID)
    BY DEF RerunStart
  <1> HIDE DEF agents, rv, b
  <1>4. QED
    BY <1>2, <1>3, BeginSeen

-----------------------------------------------------------------------------
(* Handlers and agents: nothing a reader sees *)

LEMMA UnseenStep ==
  ASSUME Kept, UNCHANGED <<pc, base, store>>,
         review'.status = review.status, review'.sessionID = review.sessionID
  PROVE  Kept' /\ Seen
  <1>1. Phase' = Phase
    BY DEF Phase
  <1>2. QED
    BY <1>1, SameIsSeen, StatusesUnchanged DEF Kept

LEMMA HandlerSeen ==
  ASSUME Kept,
         \/ \E h \in Rerunners : (\E a \in Agents : RerunRead(h, a)) \/ RerunRefused(h)
         \/ \E c \in Cancellers :
              CancelAll(c) \/ (\E a \in Agents : CancelAgent(c, a)) \/ CancelStep(c)
         \/ UNCHANGED vars
  PROVE  Kept' /\ Seen
  <1>1. UNCHANGED <<pc, base, store, review>>
    BY DEF RerunRead, RerunRefused, CancelAll, CancelAgent, CancelMark, CancelStep,
           CancelAbort, CancelReturn, runVars, vars
  <1>2. QED
    BY <1>1, UnseenStep

LEMMA AgentSeen ==
  ASSUME IInv, Kept, NEW a \in Agents, AgentStep(a)
  PROVE  Kept' /\ Seen
  <1>1. review \in Review
    BY DEF IInv, TypeOK
  <1>2. {"nil", "error", "cancelled"} \subseteq Cause
    BY DEF Cause
  <1>3. AgentStages = {"session", "prompt", "parse"}
    BY DEF AgentStages
  <1>4. UNCHANGED <<pc, base, store>>
    BY DEF AgentStep, AgentBegin, SessionReady, CreateSessionFailed, AgentCheck, Prompt,
           Reported, PromptFailed, NoReport, AgentEnds, AgentStarts, AgentFrame
  <1>5. ASSUME NEW s \in AgentStages, NEW c \in Cause
        PROVE  /\ EndAgentStage(review, a, s, c).status = review.status
               /\ EndAgentStage(review, a, s, c).sessionID = review.sessionID
               /\ StartAgentStage(review, a, s).status = review.status
               /\ StartAgentStage(review, a, s).sessionID = review.sessionID
    BY <1>1, <1>5, EndAgentStageType, StartAgentStageType
  <1>6. CASE Reported(a)
    <2>1. PICK cause \in {"nil", "error"} :
            review' = EndAgentStage(StartAgentStage(EndAgentStage(review, a, "prompt", "nil"),
                                                    a, "parse"),
                                    a, "parse", cause)
      BY <1>6 DEF Reported
    <2> DEFINE r1 == EndAgentStage(review, a, "prompt", "nil")
               r2 == StartAgentStage(r1, a, "parse")
    <2>2. r1 \in Review /\ r1.status = review.status /\ r1.sessionID = review.sessionID
      BY <1>1, <1>2, <1>3, EndAgentStageType
    <2>3. r2 \in Review /\ r2.status = review.status /\ r2.sessionID = review.sessionID
      BY <1>3, <2>2, StartAgentStageType
    <2>4. review' = EndAgentStage(r2, a, "parse", cause) /\ cause \in Cause /\ "parse" \in AgentStages
      BY <1>2, <1>3, <2>1
    <2> HIDE DEF r2
    <2>5. review'.status = review.status /\ review'.sessionID = review.sessionID
      BY <2>3, <2>4, EndAgentStageType
    <2>6. QED
      BY <1>4, <2>5, UnseenStep
  <1>7. CASE ~Reported(a)
    <2>1. \/ review' = review
          \/ \E s \in AgentStages, c \in Cause :
               review' \in {EndAgentStage(review, a, s, c), StartAgentStage(review, a, s)}
      BY <1>2, <1>3, <1>7 DEF AgentStep, AgentBegin, SessionReady, CreateSessionFailed,
         AgentCheck, Prompt, PromptFailed, NoReport, AgentEnds, AgentStarts
    <2>2. review'.status = review.status /\ review'.sessionID = review.sessionID
      BY <1>5, <2>1
    <2>3. QED
      BY <1>4, <2>2, UnseenStep
  <1>8. QED
    BY <1>6, <1>7

-----------------------------------------------------------------------------
(* The run's goroutine *)

\* settle, from a stage that only rewrote the record.
LEMMA SettleSeen ==
  ASSUME IInv, Kept, UNCHANGED <<runVars, store>>, pc \in Running,
         NEW rv \in Review, rv.sessionID = review.sessionID,
         NEW cause \in {"error", "cancelled"}, Settle(rv, cause),
         cause = "cancelled" => Phase = "running"
  PROVE  Kept' /\ Seen
  <1>1. cause \in Cause /\ StageStatus(cause) = cause
    BY DEF Cause, StageStatus
  <1>2. review'.status = cause /\ review'.sessionID = review.sessionID
    BY <1>1, FinishType DEF Settle
  <1>3. base' = base /\ Statuses' = Statuses
    BY StatusesUnchanged DEF runVars
  <1>4. Kept'
    BY <1>2, <1>3 DEF Kept, Settle, Running
  <1>5. CASE cause = "error"
    <2>1. Phase \in {"running", "storing"} /\ Phase' = "settling"
      BY <1>5 DEF Phase, Running, Settle
    <2>2. Life!Fail
      BY <1>2, <1>3, <1>5, <2>1 DEF Life!Fail
    <2>3. QED
      BY <1>4, <2>2 DEF Seen, Life!Next
  <1>6. CASE cause = "cancelled"
    <2>1. Phase' = IF base # 0 THEN "settling" ELSE "over"
      BY <1>6 DEF Phase, Settle
    <2>2. Life!Stop
      BY <1>2, <1>3, <1>6, <2>1 DEF Life!Stop
    <2>3. QED
      BY <1>4, <2>2 DEF Seen, Life!Next
  <1>7. QED
    BY <1>5, <1>6

\* The stages before the agents' reports are stored, and the start of that.
LEMMA RunSeen ==
  ASSUME IInv, Kept,
         FetchStep \/ CheckoutStep \/ LaunchAgents \/ ConfigFailed \/
           JoinCancelled \/ JoinFailed \/ JoinStore
  PROVE  Kept' /\ Seen
  <1>1. review \in Review
    BY DEF IInv, TypeOK
  <1>2. {"nil", "error", "cancelled"} \subseteq Cause /\ CtxCause \in {"error", "cancelled"}
    BY DEF Cause, CtxCause
  <1>3. {"fetch", "checkout", "store"} \subseteq ReviewStages
    BY DEF ReviewStages
  <1>4. ASSUME NEW s \in {"fetch", "checkout"}, NEW c \in Cause
        PROVE  /\ EndStage(review, s, c) \in Review
               /\ EndStage(review, s, c).status = review.status
               /\ EndStage(review, s, c).sessionID = review.sessionID
    BY <1>1, <1>3, EndStageType
  <1>5. ASSUME pc \in {"fetch", "checkout", "config", "agents"},
               pc' \in {"checkout", "config", "agents", "session"},
               UNCHANGED <<base, store>>,
               review'.status = review.status, review'.sessionID = review.sessionID
        PROVE  Kept' /\ Seen
    <2>1. Phase = "running" /\ Phase' = "running"
      BY <1>5 DEF Phase
    <2>2. Kept'
      BY <1>5 DEF Kept, Running
    <2>3. QED
      BY <1>5, <2>1, <2>2, SameIsSeen, StatusesUnchanged
  <1>6. CASE FetchDone
    <2> DEFINE ended == EndStage(review, "fetch", "nil")
    <2>1. ended \in Review /\ ended.status = review.status /\ ended.sessionID = review.sessionID
      BY <1>2, <1>4
    <2>2. review' = StartStage(ended, "checkout")
      BY <1>6 DEF FetchDone
    <2> HIDE DEF ended
    <2>3. review'.status = review.status /\ review'.sessionID = review.sessionID
      BY <1>3, <2>1, <2>2, StartStageType
    <2>4. pc = "fetch" /\ pc' = "checkout" /\ UNCHANGED <<base, store>>
      BY <1>6 DEF FetchDone, runVars
    <2>5. QED
      BY <1>5, <2>3, <2>4
  <1>7. CASE CheckoutDone
    <2>1. review'.status = review.status /\ review'.sessionID = review.sessionID
      BY <1>2, <1>4, <1>7 DEF CheckoutDone
    <2>2. pc = "checkout" /\ pc' \in {"checkout", "config", "agents", "session"} /\ UNCHANGED <<base, store>>
      BY <1>7 DEF CheckoutDone, runVars
    <2>3. QED
      BY <1>5, <2>1, <2>2
  <1>8. CASE LaunchAgents
    BY <1>5, <1>8 DEF LaunchAgents
  <1>9. CASE JoinStore
    <2>1. review' = StartStage(review, "store")
      BY <1>9 DEF JoinStore
    <2>2. review'.status = review.status /\ review'.sessionID = review.sessionID
      BY <1>1, <1>3, <2>1, StartStageType
    <2>3. pc = "agents" /\ pc' = "session" /\ UNCHANGED <<base, store>>
      BY <1>9 DEF JoinStore, runVars
    <2>4. QED
      BY <1>5, <2>2, <2>3
  <1>10. ASSUME pc \in {"fetch", "checkout", "config", "agents"}
         PROVE  pc \in Running /\ Phase = "running"
    BY <1>10 DEF Running, Phase
  <1>11. CASE FetchFailed
    BY <1>2, <1>4, <1>10, <1>11, SettleSeen DEF FetchFailed
  <1>12. CASE CheckoutFailed
    BY <1>2, <1>4, <1>10, <1>12, SettleSeen DEF CheckoutFailed
  <1>13. CASE ConfigFailed
    BY <1>1, <1>10, <1>13, SettleSeen DEF ConfigFailed
  <1>14. CASE JoinCancelled
    BY <1>1, <1>10, <1>14, SettleSeen DEF JoinCancelled
  <1>15. CASE JoinFailed
    BY <1>1, <1>10, <1>15, SettleSeen DEF JoinFailed
  <1>16. QED
    BY <1>6, <1>7, <1>8, <1>9, <1>11, <1>12, <1>13, <1>14, <1>15 DEF FetchStep, CheckoutStep

LEMMA SessionSeen ==
  ASSUME IInv, Kept, PersistSession
  PROVE  Kept' /\ Seen
  <1>1. Phase = "running" /\ Phase' = "storing"
    BY DEF PersistSession, Phase
  <1>2. UNCHANGED <<review, base>>
    BY DEF PersistSession, PersistFrame
  <1>3. Kept'
    BY <1>2 DEF Kept, PersistSession, Running
  <1>4. CASE base # 0
    BY <1>1, <1>2, <1>3, <1>4, StatusesUnchanged DEF PersistSession, Seen, Life!Next, Life!Write
  <1>5. CASE base = 0
    <2>1. Statuses' = Append(Statuses, "done")
      BY <1>5, StatusesAppend DEF PersistSession, IInv, TypeOK
    <2>2. QED
      BY <1>1, <1>2, <1>3, <1>5, <2>1 DEF Seen, Life!Next, Life!Write
  <1>6. QED
    BY <1>4, <1>5

LEMMA WriteSeen ==
  ASSUME IInv, Kept, NEW a \in Agents, ClearConcerns(a) \/ SaveAgent(a) \/ CreateConcern(a)
  PROVE  Kept' /\ Seen
  <1>1. /\ pc \in Writing /\ pc' \in Writing
        /\ UNCHANGED <<review, base>>
    BY DEF ClearConcerns, SaveAgent, CreateConcern, PersistFrame, Writing
  <1>2. Phase = "storing" /\ Phase' = "storing"
    BY <1>1 DEF Phase, Writing
  <1>3. /\ target \in 1..Len(store) /\ store \in Seq(Row)
        /\ Len(store') = Len(store)
        /\ \A i \in 1..Len(store) : store'[i].status = store[i].status
    <2>1. target \in 1..Len(store) /\ store \in Seq(Row)
      BY <1>1 DEF IInv, TypeOK, Sessions
    <2>2. store[target] \in Row
      BY <2>1
    <2>3. PICK r : r.status = store[target].status /\ store' = [store EXCEPT ![target] = r]
      BY <2>1, <2>2 DEF ClearConcerns, SaveAgent, CreateConcern, Row
    <2>4. QED
      BY <2>1, <2>3
  <1>4. Statuses' = Statuses
    BY <1>3 DEF Statuses
  <1>5. Kept'
    BY <1>1 DEF Kept, Writing, Running
  <1>6. QED
    BY <1>1, <1>2, <1>4, <1>5, SameIsSeen

LEMMA EndSeen ==
  ASSUME IInv, Kept, Completed \/ PersistFailed
  PROVE  Kept' /\ Seen
  <1>1. review \in Review /\ "error" \in Cause /\ "nil" \in Cause /\ "store" \in ReviewStages
    BY DEF IInv, TypeOK, Cause, ReviewStages
  <1>2. CASE PersistFailed
    <2>1. pc \in Running
      BY <1>2 DEF PersistFailed, Running
    <2>2. QED
      BY <1>1, <1>2, <2>1, EndStageType, SettleSeen DEF PersistFailed
  <1>3. CASE Completed
    <2>1. review'.status = "done"
      BY <1>3 DEF Completed, Finish
    <2>2. Phase = "storing" /\ Phase' = "over" /\ base' = base /\ Statuses' = Statuses
      BY <1>3, StatusesUnchanged DEF Completed, Phase, runVars
    <2>3. Kept'
      BY <1>3 DEF Completed, Kept, Running
    <2>4. QED
      BY <2>1, <2>2, <2>3 DEF Seen, Life!Next, Life!Complete
  <1>4. QED
    BY <1>2, <1>3

LEMMA PersistFailureSeen ==
  ASSUME IInv, Kept, PersistFailure
  PROVE  Kept' /\ Seen
  <1>1. /\ Phase = "settling" /\ Phase' = "over" /\ UNCHANGED <<review, base>>
        /\ review.status = "error" /\ review.sessionID = base
    BY DEF PersistFailure, Phase, runVars, Kept
  <1>2. \/ Statuses' = Statuses
        \/ base = 0 /\ Statuses' = Append(Statuses, "error")
    BY <1>1, StatusesUnchanged, StatusesAppend DEF PersistFailure, IInv, TypeOK
  <1>3. Kept'
    BY DEF PersistFailure, Kept, Running
  <1>4. QED
    BY <1>1, <1>2, <1>3 DEF Seen, Life!Next, Life!Record

LEMMA RestoreSeen ==
  ASSUME IInv, Kept, Restore \/ RestoreFailed
  PROVE  Kept' /\ Seen
  <1>1. /\ Phase = "settling" /\ Phase' = "over" /\ UNCHANGED base
        /\ review.status = "cancelled" /\ review \in Review /\ Statuses' = Statuses
    BY StatusesUnchanged DEF Restore, RestoreFailed, Phase, runVars, IInv, Shape, TypeOK
  <1>2. review'.status \in {"cancelled", "done"}
    <2>1. CASE RestoreFailed
      BY <1>1, <2>1 DEF RestoreFailed
    <2>2. CASE Restore
      BY <1>1, <2>2 DEF Restore, MergeStoredAgents, ClearStages, Review
    <2>3. QED
      BY <2>1, <2>2
  <1>3. Kept'
    BY DEF Restore, RestoreFailed, Kept, Running
  <1>4. QED
    BY <1>1, <1>2, <1>3 DEF Seen, Life!Next, Life!Restored

LEMMA ReleaseSeen ==
  ASSUME IInv, Kept, Release \/ Restart
  PROVE  Kept' /\ Seen
  <1>1. Kept' /\ Phase' = "idle" /\ base' = 0 /\ Statuses' = Statuses
    BY StatusesUnchanged DEF Release, Restart, Kept, Running, Phase
  <1>2. CASE Release
    <2>1. Phase = "over" /\ review' = review
      BY <1>2 DEF Release, Phase
    <2>2. QED
      BY <1>1, <2>1 DEF Seen, Life!Next, Life!Release
  <1>3. CASE Restart
    <2>1. Phase # "idle"
      BY <1>3 DEF Restart, IInv, Shape, Phase
    <2>2. review'.status = "pending"
      BY <1>3, NewReviewType DEF Restart
    <2>3. QED
      BY <1>1, <2>1, <2>2 DEF Seen, Life!Next, Life!Die
  <1>4. QED
    BY <1>2, <1>3

-----------------------------------------------------------------------------
(* The theorem *)

LEMMA InitSeen == Init => Kept /\ Life!Init
  <1> SUFFICES ASSUME Init PROVE Kept /\ Life!Init
    OBVIOUS
  <1>1. store \in Seq(Row)
    BY StoredAssumption DEF Init
  <1>2. Statuses \in Seq({"done", "error"})
    <2>1. \A i \in 1..Len(store) : store[i].status \in {"done", "error"}
      <3>1. \A i \in 1..Len(store) : store[i] \in Row
        BY <1>1
      <3>2. QED
        BY <3>1 DEF Row
    <2>2. QED
      BY <1>1, <2>1 DEF Statuses
  <1>3. QED
    BY <1>2, NewReviewType DEF Init, Life!Init, Kept, Running, Phase

LEMMA NextSeen == IInv /\ IInv' /\ Kept /\ [Next]_vars => Kept' /\ Seen
  <1> SUFFICES ASSUME IInv, IInv', Kept, [Next]_vars PROVE Kept' /\ Seen
    OBVIOUS
  <1>1. ASSUME NEW names \in Selections, Start(names) PROVE Kept' /\ Seen
    BY <1>1, StartSeen
  <1>2. ASSUME NEW h \in Rerunners, RerunStart(h) PROVE Kept' /\ Seen
    BY <1>2, RerunStartSeen
  <1>3. ASSUME NEW a \in Agents, AgentStep(a) PROVE Kept' /\ Seen
    BY <1>3, AgentSeen
  <1>4. CASE PersistStep
    BY <1>4, SessionSeen, WriteSeen, EndSeen DEF PersistStep
  <1>5. CASE RunStep
    BY <1>4, <1>5, RunSeen, PersistFailureSeen, RestoreSeen, ReleaseSeen DEF RunStep
  <1>6. QED
    BY <1>1, <1>2, <1>3, <1>5, RunSeen, HandlerSeen, ReleaseSeen DEF Next, Exhausted

(* A reader of the record and of the rows sees ReviewLife, whatever happens       *)
(* underneath (Runner.Start, Reviewer.session, Runner.settle, persistFailure).    *)
THEOREM LifeIsImplemented == Spec => ImplementsLife
  <1>1. Init => Kept /\ Life!Init
    BY InitSeen
  <1>2. IInv /\ IInv' /\ Kept /\ [Next]_vars => Kept' /\ [Life!Next]_(Life!vars)
    BY NextSeen DEF Seen
  <1>3. Spec => []IInv
    BY Invariance
  <1>4. QED
    BY <1>1, <1>2, <1>3, PTL DEF Spec, ImplementsLife, Life!Spec

-----------------------------------------------------------------------------
(* The outcome *)

Before == {"fetch", "checkout", "config"}

\* No statement was run before persist, nor for a run that ends as cancelled.
Untouched ==
  inFlight # 0 /\ (pc \in Before \cup {"agents", "session", "restore"} \/ review.status = "cancelled")
    => store = atStart

\* Persist writes to the row that is run again, or to a new one, and visits agents of
\* the run that were not cancelled.
Aim ==
  inFlight # 0 =>
    /\ Len(atStart) <= Len(store)
    /\ base \in 0..Len(atStart)
    /\ pc \in Writing => /\ \/ base # 0 /\ target = base
                            \/ base = 0 /\ target > Len(atStart)
                         /\ todo \subseteq selected
                         /\ \A a \in todo : outcome[a] # "cancelled"

\* An agent has an outcome from its goroutine only, and a run is restored if none of
\* them is an error or a report.
Outcomes ==
  /\ \A a \in Agents : outcome[a] # "none" => a \in selected
  /\ pc \in Before => \A a \in Agents : outcome[a] = "none"
  /\ pc = "restore" => /\ \A a \in Agents : outcome[a] \in {"none", "cancelled"}
                       /\ review.sessionID = base

\* What persist has done for the agents that it has visited.
Visited ==
  /\ pc \in Writing => \A a \in Ending("error") \ todo :
       store[target].agents[a] = "error" /\ store[target].concerns[a] = 0
  /\ pc = "concerns" =>
       /\ todo \subseteq Ending("done")
       /\ \A a \in Ending("done") \ todo : store[target].concerns[a] = inFlight

RInv == Untouched /\ Aim /\ Outcomes /\ Visited /\ OnlyRerunRewritten /\ FinalMatchesStore

-----------------------------------------------------------------------------
LEMMA InitRInv == Init => RInv
BY DEF Init, RInv, Untouched, Aim, Outcomes, Visited, OnlyRerunRewritten, FinalMatchesStore,
       Before, Writing

\* What handlers do, and nothing.
LEMMA HandlerRInv ==
  ASSUME RInv, UNCHANGED <<ownVars, review, pc, runVars, store>>
  PROVE  RInv'
<1> USE DEF RInv, ownVars, runVars
<1>1. Untouched' /\ Aim' /\ Outcomes'
  BY DEF Untouched, Aim, Outcomes
<1>2. Visited'
  BY DEF Visited, Ending
<1>3. OnlyRerunRewritten' /\ FinalMatchesStore'
  BY DEF OnlyRerunRewritten, FinalMatchesStore
<1> QED BY <1>1, <1>2, <1>3

LEMMA BeginRInv ==
  ASSUME IInv, IInv', NEW agents, NEW rv, NEW sid, Begin(agents, rv, sid)
  PROVE  RInv'
<1>1. /\ inFlight' # 0 /\ store' = store /\ atStart' = store /\ pc' = "fetch"
      /\ outcome' = [a \in Agents |-> "none"]
  BY DEF Begin, Enter, IInv, TypeOK
<1>2. review'.status = "running" /\ base' \in 0..Len(store) /\ Len(store) \in Nat
  BY <1>1 DEF IInv, Shape, Running, Sessions, TypeOK
<1>3. Untouched' /\ Aim' /\ Outcomes' /\ Visited'
  BY <1>1, <1>2 DEF Untouched, Aim, Outcomes, Visited, Before, Writing
<1>4. OnlyRerunRewritten' /\ FinalMatchesStore'
  BY <1>1, <1>2 DEF OnlyRerunRewritten, FinalMatchesStore
<1> QED BY <1>3, <1>4 DEF RInv

\* An agent's goroutine writes no row, and nobody's outcome but its own.
LEMMA AgentOwn ==
  ASSUME IInv, NEW a \in Agents, AgentStep(a)
  PROVE  /\ pc = "agents" /\ a \in selected /\ apc[a] \notin {"none", "ended"} /\ AgentFrame
         /\ \/ outcome' = outcome
            \/ \E x \in {"done", "error", "cancelled"} : outcome' = [outcome EXCEPT ![a] = x]
<1>1. apc[a] \notin {"none", "ended"}
  BY DEF AgentStep, AgentBegin, SessionReady, CreateSessionFailed, AgentCheck, Prompt, Reported,
         PromptFailed, NoReport
<1>2. pc = "agents" /\ a \in selected
  BY <1>1 DEF IInv, Shape
<1>3. ASSUME NEW s, NEW c \in {"error", "cancelled"}, AgentEnds(a, s, c)
      PROVE  AgentFrame /\ \E x \in {"done", "error", "cancelled"} : outcome' = [outcome EXCEPT ![a] = x]
  BY <1>3 DEF AgentEnds
<1>4. ASSUME NEW s, NEW to, AgentStarts(a, s, to) PROVE AgentFrame /\ outcome' = outcome
  BY <1>4 DEF AgentStarts
<1>5. CASE AgentBegin(a) \/ AgentCheck(a)
  <2>1. ASSUME AgentCheck(a), IsCancelled(a)
        PROVE  AgentFrame /\ outcome' = [outcome EXCEPT ![a] = "cancelled"]
    BY <2>1 DEF AgentCheck
  <2> QED BY <1>1, <1>2, <1>3, <1>4, <1>5, <2>1 DEF AgentBegin, AgentCheck
<1>6. CASE SessionReady(a) \/ Prompt(a)
  BY <1>1, <1>2, <1>6 DEF SessionReady, Prompt
<1>7. CASE CreateSessionFailed(a) \/ PromptFailed(a) \/ NoReport(a)
  BY <1>1, <1>2, <1>3, <1>7 DEF CreateSessionFailed, PromptFailed, NoReport
<1>8. CASE Reported(a)
  BY <1>1, <1>2, <1>8 DEF Reported, StageStatus
<1> QED BY <1>5, <1>6, <1>7, <1>8 DEF AgentStep

LEMMA AgentRInv ==
  ASSUME IInv, IInv', RInv, NEW a \in Agents, AgentStep(a)
  PROVE  RInv'
<1> USE DEF RInv, AgentFrame, ownVars
<1>1. /\ pc = "agents" /\ pc' = "agents" /\ a \in selected /\ review'.status = "running"
      /\ UNCHANGED <<inFlight, atStart, store, base, selected>>
  BY AgentOwn DEF IInv, Shape, Running
<1>2. \A b \in Agents : outcome'[b] # "none" => b \in selected
  BY AgentOwn DEF Outcomes, IInv, TypeOK
<1>3. Untouched' /\ Aim' /\ Outcomes' /\ Visited'
  BY <1>1, <1>2 DEF Untouched, Aim, Outcomes, Visited, Before, Writing
<1>4. OnlyRerunRewritten' /\ FinalMatchesStore'
  BY <1>1 DEF Untouched, OnlyRerunRewritten, FinalMatchesStore
<1> QED BY <1>3, <1>4

-----------------------------------------------------------------------------
\* The run's own steps that write no row and leave it running.
LEMMA GoesOnRInv ==
  ASSUME IInv, IInv', RInv, FetchDone \/ CheckoutDone \/ LaunchAgents \/ JoinStore
  PROVE  RInv'
<1>1. /\ pc \in Before \cup {"agents"} /\ pc' \in Before \cup {"agents", "session"}
      /\ pc' \in Before => pc \in Before
      /\ UNCHANGED <<inFlight, atStart, store, base, selected, outcome>>
  BY DEF FetchDone, CheckoutDone, LaunchAgents, JoinStore, Before, ownVars, runVars
<1>2. review'.status = "running"
  BY <1>1 DEF IInv, Shape, Running, Before
<1>3. Untouched' /\ Aim' /\ Outcomes' /\ Visited'
  BY <1>1, <1>2 DEF RInv, Untouched, Aim, Outcomes, Visited, Before, Writing
<1>4. OnlyRerunRewritten' /\ FinalMatchesStore'
  BY <1>1, <1>2 DEF RInv, Untouched, OnlyRerunRewritten, FinalMatchesStore, Before
<1> QED BY <1>3, <1>4 DEF RInv

\* settle: only a run that wrote nothing ends as cancelled.
LEMMA SettleRInv ==
  ASSUME IInv, IInv', RInv, Kept, pc \in Running, UNCHANGED <<ownVars, runVars, store>>,
         NEW rv \in Review, rv.sessionID = review.sessionID,
         NEW cause \in {"error", "cancelled"}, Settle(rv, cause),
         cause = "cancelled" =>
           /\ pc \in Before \cup {"agents"}
           /\ \A a \in Agents : outcome[a] \in {"none", "cancelled"}
  PROVE  RInv'
<1> USE DEF RInv, ownVars, runVars
<1>1. cause \in Cause /\ StageStatus(cause) = cause
  BY DEF Cause, StageStatus
<1>2. review'.status = cause /\ review'.sessionID = base
  BY <1>1, FinishType DEF Settle, Kept
<1>3. /\ pc' \in {"persistFailure", "restore", "release"}
      /\ pc' = "restore" => cause = "cancelled"
  BY DEF Settle
<1>4. Untouched'
  BY <1>2, <1>3 DEF Untouched, Before
<1>5. Aim' /\ Outcomes' /\ Visited'
  BY <1>2, <1>3 DEF Aim, Outcomes, Visited, Before, Writing
<1>6. OnlyRerunRewritten'
  BY <1>2, <1>4 DEF OnlyRerunRewritten, Untouched
<1>7. FinalMatchesStore'
  BY <1>2 DEF FinalMatchesStore
<1> QED BY <1>4, <1>5, <1>6, <1>7

LEMMA StopsRInv ==
  ASSUME IInv, IInv', RInv, Kept,
         \/ FetchFailed \/ CheckoutFailed \/ ConfigFailed
         \/ JoinCancelled \/ JoinFailed \/ PersistFailed
  PROVE  RInv'
<1>1. /\ review \in Review /\ pc \in Running /\ CtxCause \in {"error", "cancelled"}
      /\ UNCHANGED <<ownVars, runVars, store>> /\ "error" \in Cause /\ CtxCause \in Cause
      /\ {"fetch", "checkout", "store"} \subseteq ReviewStages
  BY DEF FetchFailed, CheckoutFailed, ConfigFailed, JoinCancelled, JoinFailed, PersistFailed, IInv,
         TypeOK, Running, CtxCause, Cause, ReviewStages
<1>2. ASSUME NEW s \in {"fetch", "checkout", "store"}, NEW c \in Cause
      PROVE  EndStage(review, s, c) \in Review /\ EndStage(review, s, c).sessionID = review.sessionID
  BY <1>1, EndStageType
<1>3. CASE FetchFailed \/ CheckoutFailed
  <2>1. pc \in Before /\ \A a \in Agents : outcome[a] = "none"
    BY <1>3 DEF FetchFailed, CheckoutFailed, Before, RInv, Outcomes
  <2> QED BY <1>1, <1>2, <1>3, <2>1, SettleRInv DEF FetchFailed, CheckoutFailed
<1>4. CASE ConfigFailed \/ JoinFailed
  BY <1>1, <1>4, SettleRInv DEF ConfigFailed, JoinFailed
<1>5. CASE JoinCancelled
  <2>1. \A a \in Agents : outcome[a] \in {"none", "cancelled"}
    BY <1>5 DEF JoinCancelled, Ending, RInv, Outcomes
  <2> QED BY <1>1, <1>5, <2>1, SettleRInv DEF JoinCancelled
<1>6. CASE PersistFailed
  BY <1>1, <1>2, <1>6, SettleRInv DEF PersistFailed
<1> QED BY <1>3, <1>4, <1>5, <1>6

-----------------------------------------------------------------------------
(* Persist *)

LEMMA SessionRInv ==
  ASSUME IInv, IInv', RInv, PersistSession
  PROVE  RInv'
<1> USE DEF PersistSession, PersistFrame, ownVars
<1>1. /\ inFlight # 0 /\ store = atStart /\ store \in Seq(Row) /\ Len(store) \in Nat
      /\ base \in 0..Len(store) /\ review'.status = "running" /\ NewRow("done") \in Row
  BY NewRowType DEF IInv, TypeOK, Shape, Sessions, Running, RInv, Untouched
<1>2. /\ Len(store') >= Len(store) /\ \A i \in 1..Len(store) : store'[i] = store[i]
  <2>1. CASE base # 0
    BY <1>1, <2>1
  <2>2. CASE base = 0
    BY <1>1, <2>2, AppendRow
  <2> QED BY <2>1, <2>2
<1>3. Untouched'
  BY <1>1 DEF Untouched, Before
<1>4. Aim'
  BY <1>1, <1>2 DEF Aim, Ending, IInv, TypeOK
<1>5. Outcomes' /\ Visited'
  BY DEF RInv, Outcomes, Visited, Before, Ending
<1>6. OnlyRerunRewritten' /\ FinalMatchesStore'
  BY <1>1, <1>2 DEF OnlyRerunRewritten, FinalMatchesStore
<1> QED BY <1>3, <1>4, <1>5, <1>6 DEF RInv

\* A statement that writes one agent of the row it persists to.
LEMMA RowRInv ==
  ASSUME IInv, IInv', RInv, PersistMoves, pc \in Writing, NEW a \in todo,
         UNCHANGED target, todo' \subseteq selected, \A b \in todo' : outcome[b] # "cancelled",
         NEW r \in Row, store' = [store EXCEPT ![target] = r], r.status = store[target].status,
         \A b \in Agents : b # a => /\ r.agents[b] = store[target].agents[b]
                                    /\ r.concerns[b] = store[target].concerns[b]
  PROVE  /\ Untouched' /\ Aim' /\ Outcomes' /\ OnlyRerunRewritten' /\ FinalMatchesStore'
         /\ store'[target'] = r
<1> USE DEF RInv, PersistMoves, PersistFrame, ownVars
<1>1. /\ store \in Seq(Row) /\ Len(store) \in Nat /\ target \in 1..Len(store) /\ inFlight # 0
      /\ review'.status = "running" /\ pc' \in Running
      /\ a \in selected /\ outcome[a] # "cancelled" /\ Len(atStart) \in Nat
  BY DEF IInv, TypeOK, Shape, Sessions, Running, Writing, Aim
<1>2. /\ Len(store') = Len(store) /\ store'[target] = r
      /\ \A j \in 1..Len(store) : j # target => store'[j] = store[j]
  BY <1>1, UpdateRow
<1>3. Untouched' /\ Outcomes'
  BY <1>1 DEF Untouched, Outcomes, Before, Writing
<1>4. Aim'
  BY <1>1, <1>2 DEF Aim
<1>5. OnlyRerunRewritten'
  <2> SUFFICES ASSUME NEW i \in 1..Len(atStart)
               PROVE  /\ store'[i].status = atStart[i].status
                      /\ \A b \in Agents :
                           \/ /\ store'[i].agents[b]   = atStart[i].agents[b]
                              /\ store'[i].concerns[b] = atStart[i].concerns[b]
                           \/ i = base /\ b \in selected /\ outcome[b] # "cancelled"
    BY <1>1 DEF OnlyRerunRewritten
  <2>1. /\ i \in 1..Len(store)
        /\ store[i].status = atStart[i].status
        /\ \A b \in Agents :
             \/ /\ store[i].agents[b]   = atStart[i].agents[b]
                /\ store[i].concerns[b] = atStart[i].concerns[b]
             \/ i = base /\ b \in selected /\ outcome[b] # "cancelled"
    BY <1>1 DEF OnlyRerunRewritten, Aim
  <2>2. CASE i # target
    BY <1>2, <2>1, <2>2
  <2>3. CASE i = target
    <3>1. i = base
      BY <1>1, <2>3 DEF Aim
    <3> QED BY <1>1, <1>2, <2>1, <2>3, <3>1
  <2> QED BY <2>2, <2>3
<1>6. FinalMatchesStore'
  BY <1>1 DEF FinalMatchesStore, Running
<1> QED BY <1>2, <1>3, <1>4, <1>5, <1>6

LEMMA ClearRInv ==
  ASSUME IInv, IInv', RInv, NEW a \in Agents, ClearConcerns(a)
  PROVE  RInv'
<1> DEFINE r == [store[target] EXCEPT !.concerns = [store[target].concerns EXCEPT ![a] = 0]]
<1>1. /\ pc = "clear" /\ a \in todo /\ store[target] \in Row /\ todo \subseteq selected
      /\ \A b \in todo : outcome[b] # "cancelled"
  BY DEF ClearConcerns, First, IInv, TypeOK, Sessions, Writing, Persisting
<1>2. /\ r \in Row /\ r.agents = store[target].agents /\ r.status = store[target].status
      /\ r.concerns = [store[target].concerns EXCEPT ![a] = 0]
      /\ store[target].concerns \in [Agents -> Nat]
  BY <1>1 DEF Row
<1>3. store' = [store EXCEPT ![target] = r] /\ UNCHANGED <<target, todo, outcome, selected>> /\ PersistMoves
  BY <1>1 DEF ClearConcerns, PersistMoves, PersistFrame, Writing
<1>4. /\ Untouched' /\ Aim' /\ Outcomes' /\ OnlyRerunRewritten' /\ FinalMatchesStore'
      /\ store'[target'] = r
  <2>1. /\ pc \in Writing /\ target' = target
        /\ todo' \subseteq selected /\ \A b \in todo' : outcome[b] # "cancelled"
    BY <1>1, <1>3 DEF Writing
  <2>2. \A b \in Agents : b # a => /\ r.agents[b] = store[target].agents[b]
                                  /\ r.concerns[b] = store[target].concerns[b]
    BY <1>2
  <2>3. /\ PersistMoves /\ a \in todo /\ UNCHANGED target
        /\ r \in Row /\ store' = [store EXCEPT ![target] = r] /\ r.status = store[target].status
    BY <1>1, <1>2, <1>3
  <2> HIDE DEF r
  <2> QED BY <2>1, <2>2, <2>3, RowRInv
<1>5. Visited'
  <2>1. \A b \in Ending("error") \ todo : r.agents[b] = "error" /\ r.concerns[b] = 0
    BY <1>1, <1>2 DEF RInv, Visited, Ending, Writing, IInv, TypeOK
  <2>2. pc' = "save"
    BY DEF ClearConcerns
  <2> HIDE DEF r
  <2> QED BY <1>3, <1>4, <2>1, <2>2 DEF Visited, Ending
<1> QED BY <1>4, <1>5 DEF RInv

LEMMA SaveRInv ==
  ASSUME IInv, IInv', RInv, NEW a \in Agents, SaveAgent(a)
  PROVE  RInv'
<1> DEFINE r == [store[target] EXCEPT !.agents = [store[target].agents EXCEPT ![a] = outcome[a]]]
<1>1. /\ pc = "save" /\ a \in todo /\ store[target] \in Row /\ todo \subseteq selected
      /\ \A b \in todo : outcome[b] # "cancelled"
      /\ outcome[a] \in {"none", "done", "error"} /\ store[target].concerns[a] = 0
  BY DEF SaveAgent, First, IInv, TypeOK, Sessions, Writing, Persisting
<1>2. /\ r \in Row /\ r.concerns = store[target].concerns /\ r.status = store[target].status
      /\ r.agents = [store[target].agents EXCEPT ![a] = outcome[a]]
      /\ store[target].agents \in [Agents -> {"none", "done", "error"}]
  BY <1>1 DEF Row, RowAgents
<1>3. /\ store' = [store EXCEPT ![target] = r] /\ UNCHANGED <<target, outcome, selected>>
      /\ PersistMoves /\ todo' \subseteq selected /\ \A b \in todo' : outcome[b] # "cancelled"
  BY <1>1 DEF SaveAgent, PersistMoves, PersistFrame, Writing, Ending
<1>4. /\ Untouched' /\ Aim' /\ Outcomes' /\ OnlyRerunRewritten' /\ FinalMatchesStore'
      /\ store'[target'] = r
  <2>1. /\ pc \in Writing /\ target' = target
        /\ todo' \subseteq selected /\ \A b \in todo' : outcome[b] # "cancelled"
    BY <1>1, <1>3 DEF Writing
  <2>2. \A b \in Agents : b # a => /\ r.agents[b] = store[target].agents[b]
                                  /\ r.concerns[b] = store[target].concerns[b]
    BY <1>2
  <2>3. /\ PersistMoves /\ a \in todo /\ UNCHANGED target
        /\ r \in Row /\ store' = [store EXCEPT ![target] = r] /\ r.status = store[target].status
    BY <1>1, <1>2, <1>3
  <2> HIDE DEF r
  <2> QED BY <2>1, <2>2, <2>3, RowRInv
<1>5. Visited'
  <2>1. \A b \in Ending("error") \ (todo \ {a}) : r.agents[b] = "error" /\ r.concerns[b] = 0
    BY <1>1, <1>2 DEF RInv, Visited, Ending, Writing, IInv, TypeOK
  <2>2. \/ todo = {a} /\ pc' = "concerns" /\ todo' = Ending("done")
        \/ todo # {a} /\ pc' = "clear" /\ todo' = todo \ {a}
    BY DEF SaveAgent
  <2> HIDE DEF r
  <2> QED BY <1>3, <1>4, <2>1, <2>2 DEF Visited, Ending
<1> QED BY <1>4, <1>5 DEF RInv

LEMMA ConcernRInv ==
  ASSUME IInv, IInv', RInv, NEW a \in Agents, CreateConcern(a)
  PROVE  RInv'
<1> DEFINE r == [store[target] EXCEPT !.concerns = [store[target].concerns EXCEPT ![a] = inFlight]]
<1>1. /\ pc = "concerns" /\ a \in todo /\ store[target] \in Row /\ todo \subseteq Ending("done")
      /\ inFlight \in Nat
  BY DEF CreateConcern, First, IInv, TypeOK, Sessions, Writing, RInv, Visited
<1>2. /\ r \in Row /\ r.agents = store[target].agents /\ r.status = store[target].status
      /\ r.concerns = [store[target].concerns EXCEPT ![a] = inFlight]
      /\ store[target].concerns \in [Agents -> Nat]
  BY <1>1 DEF Row
<1>3. /\ store' = [store EXCEPT ![target] = r] /\ UNCHANGED <<target, outcome, selected, inFlight, pc>>
      /\ todo' = todo \ {a} /\ PersistMoves
      /\ todo' \subseteq selected /\ \A b \in todo' : outcome[b] # "cancelled"
  BY <1>1 DEF CreateConcern, PersistMoves, PersistFrame, Writing, Ending, ownVars
<1>4. /\ Untouched' /\ Aim' /\ Outcomes' /\ OnlyRerunRewritten' /\ FinalMatchesStore'
      /\ store'[target'] = r
  <2>1. /\ pc \in Writing /\ target' = target
        /\ todo' \subseteq selected /\ \A b \in todo' : outcome[b] # "cancelled"
    BY <1>1, <1>3 DEF Writing
  <2>2. \A b \in Agents : b # a => /\ r.agents[b] = store[target].agents[b]
                                  /\ r.concerns[b] = store[target].concerns[b]
    BY <1>2
  <2>3. /\ PersistMoves /\ a \in todo /\ UNCHANGED target
        /\ r \in Row /\ store' = [store EXCEPT ![target] = r] /\ r.status = store[target].status
    BY <1>1, <1>2, <1>3
  <2> HIDE DEF r
  <2> QED BY <2>1, <2>2, <2>3, RowRInv
<1>5. Visited'
  <2>1. \A b \in Ending("error") : r.agents[b] = "error" /\ r.concerns[b] = 0
    BY <1>1, <1>2 DEF RInv, Visited, Ending, Writing, IInv, TypeOK
  <2>2. \A b \in Ending("done") \ (todo \ {a}) : r.concerns[b] = inFlight
    BY <1>1, <1>2 DEF RInv, Visited, Ending, IInv, TypeOK
  <2> HIDE DEF r
  <2> QED BY <1>1, <1>3, <1>4, <2>1, <2>2 DEF Visited, Ending
<1> QED BY <1>4, <1>5 DEF RInv

-----------------------------------------------------------------------------
(* The end *)

\* Steps that leave the pipeline without a write, or append a row for the failure.
LEMMA EndsRInv ==
  ASSUME IInv, RInv, pc' = "release", UNCHANGED <<ownVars, selected, base, outcome>>, inFlight # 0,
         review'.status = "cancelled" => store' = atStart,
         Len(store') \in Nat, Len(store') >= Len(store),
         \A i \in 1..Len(store) : store'[i] = store[i]
  PROVE  Untouched' /\ Aim' /\ Outcomes' /\ Visited' /\ OnlyRerunRewritten'
<1> USE DEF RInv, ownVars
<1>1. Len(atStart) \in Nat /\ Len(store) \in Nat /\ Len(atStart) <= Len(store)
  BY DEF IInv, TypeOK, Aim
<1>2. Untouched' /\ Outcomes' /\ Visited'
  BY DEF Untouched, Outcomes, Visited, Before, Writing
<1>3. Aim'
  BY <1>1 DEF Aim, Writing
<1>4. OnlyRerunRewritten'
  <2>1. \A i \in 1..Len(atStart) : store'[i] = store[i]
    BY <1>1
  <2> QED BY <2>1 DEF OnlyRerunRewritten
<1> QED BY <1>2, <1>3, <1>4

LEMMA CompletedRInv ==
  ASSUME IInv, RInv, Completed
  PROVE  RInv'
<1> DEFINE es == EndStage(review, "store", "nil")
           mg == MergeStoredAgents(es, store[target].agents)
<1>1. /\ inFlight # 0 /\ review \in Review /\ store \in Seq(Row) /\ Len(store) \in Nat
      /\ target \in 1..Len(store) /\ store[target] \in Row
      /\ pc = "concerns" /\ todo = {} /\ pc' = "release"
      /\ UNCHANGED <<ownVars, runVars, store>>
  BY DEF Completed, IInv, TypeOK, Shape, Sessions, Writing
<1>2. es \in Review /\ store[target].agents \in [Agents -> {"none", "done", "error"}]
      /\ store[target].concerns \in [Agents -> Nat]
  BY <1>1, EndStageType DEF Row, RowAgents, Cause, ReviewStages
<1>3. /\ mg \in Review
      /\ \A a \in Agents : store[target].agents[a] # "none" => mg.agents[a].status = store[target].agents[a]
  <2>1. mg \in Review
    BY <1>2, MergeType
  <2> HIDE DEF es
  <2>2. ASSUME NEW a \in Agents, store[target].agents[a] # "none"
        PROVE  mg.agents[a].status = store[target].agents[a]
    <3>1. mg.agents[a] = [es.agents[a] EXCEPT !.status = store[target].agents[a]] /\ es.agents[a] \in Agent
      BY <1>2, <2>2 DEF MergeStoredAgents, Review
    <3> QED BY <3>1 DEF Agent
  <2> QED BY <2>1, <2>2
<1>4. /\ review'.status = "done" /\ review'.sessionID = target
      /\ review'.concerns = store[target].concerns /\ review'.agents = mg.agents
  <2>1. review' = [[mg EXCEPT !.sessionID = target, !.concerns = store[target].concerns] EXCEPT !.status = "done"]
    BY DEF Completed, Finish
  <2> HIDE DEF mg
  <2> QED BY <1>3, <2>1 DEF Review
<1>5. Untouched' /\ Aim' /\ Outcomes' /\ Visited' /\ OnlyRerunRewritten'
  BY <1>1, <1>4, EndsRInv DEF runVars
<1>6. FinalMatchesStore'
  <2>1. ASSUME NEW a \in Agents
        PROVE  /\ outcome[a] = "done" => store[target].concerns[a] = inFlight
               /\ outcome[a] = "error" => store[target].concerns[a] = 0 /\ store[target].agents[a] = "error"
    BY <1>1 DEF RInv, Visited, Outcomes, Ending, Writing
  <2> HIDE DEF mg
  <2> QED BY <1>1, <1>3, <1>4, <2>1 DEF FinalMatchesStore, ownVars, runVars
<1> QED BY <1>5, <1>6 DEF RInv

LEMMA RestoreRInv ==
  ASSUME IInv, RInv, Restore
  PROVE  RInv'
<1> DEFINE row == store[base]
           cl  == ClearStages(review)
           mg  == MergeStoredAgents(cl, row.agents)
<1>1. /\ inFlight # 0 /\ review \in Review /\ store \in Seq(Row) /\ Len(store) \in Nat
      /\ base \in 1..Len(store) /\ row \in Row /\ pc = "restore" /\ pc' = "release"
      /\ review.sessionID = base
      /\ UNCHANGED <<ownVars, runVars, store>>
  BY DEF Restore, IInv, TypeOK, Shape, Sessions, RInv, Outcomes
<1>2. row.agents \in [Agents -> {"none", "done", "error"}] /\ row.concerns \in [Agents -> Nat]
  BY <1>1 DEF Row, RowAgents
<1>3. cl \in Review /\ cl.sessionID = base
  <2>1. ASSUME NEW a \in Agents PROVE [review.agents[a] EXCEPT !.stages = NoStages] \in Agent
    <3>1. review.agents[a] \in Agent
      BY <1>1 DEF Review
    <3> QED BY <3>1 DEF Agent, NoStages, Status
  <2> QED BY <1>1, <2>1 DEF ClearStages, Review
<1>4. /\ mg \in Review /\ mg.sessionID = base
      /\ \A a \in Agents : row.agents[a] # "none" => mg.agents[a].status = row.agents[a]
  <2> HIDE DEF cl, row
  <2>1. mg \in Review /\ mg.sessionID = base
    BY <1>2, <1>3, MergeType
  <2>2. ASSUME NEW a \in Agents, row.agents[a] # "none"
        PROVE  mg.agents[a].status = row.agents[a]
    <3>1. mg.agents[a] = [cl.agents[a] EXCEPT !.status = row.agents[a]] /\ cl.agents[a] \in Agent
      BY <1>3, <2>2 DEF MergeStoredAgents, Review
    <3> QED BY <3>1 DEF Agent
  <2> QED BY <2>1, <2>2
<1>5. /\ review'.status = "done" /\ review'.sessionID = base
      /\ review'.concerns = row.concerns /\ review'.agents = mg.agents
  <2>1. review' = [mg EXCEPT !.status = "done", !.concerns = row.concerns]
    BY DEF Restore
  <2> HIDE DEF mg, row
  <2> QED BY <1>4, <2>1 DEF Review
<1>6. Untouched' /\ Aim' /\ Outcomes' /\ Visited' /\ OnlyRerunRewritten'
  BY <1>1, <1>5, EndsRInv DEF runVars
<1>7. FinalMatchesStore'
  <2>1. \A a \in Agents : outcome[a] \in {"none", "cancelled"}
    BY <1>1 DEF RInv, Outcomes
  <2> HIDE DEF mg
  <2> QED BY <1>1, <1>4, <1>5, <2>1 DEF FinalMatchesStore, ownVars, runVars
<1> QED BY <1>6, <1>7 DEF RInv

LEMMA RestoreFailedRInv ==
  ASSUME IInv, RInv, RestoreFailed
  PROVE  RInv'
<1>1. /\ inFlight # 0 /\ review.status = "cancelled" /\ store = atStart /\ Len(store) \in Nat
      /\ pc' = "release" /\ UNCHANGED <<ownVars, runVars, store, review>>
  BY DEF RestoreFailed, IInv, TypeOK, Shape, RInv, Untouched
<1>2. Untouched' /\ Aim' /\ Outcomes' /\ Visited' /\ OnlyRerunRewritten'
  BY <1>1, EndsRInv DEF runVars, ownVars
<1> QED BY <1>1, <1>2 DEF RInv, FinalMatchesStore

LEMMA RecordFailureRInv ==
  ASSUME IInv, RInv, Kept, PersistFailure
  PROVE  RInv'
<1>1. /\ inFlight # 0 /\ review'.status = "error" /\ store \in Seq(Row) /\ Len(store) \in Nat
      /\ pc' = "release" /\ UNCHANGED <<ownVars, runVars>> /\ NewRow("error") \in Row
  BY NewRowType DEF PersistFailure, IInv, TypeOK, Shape, Kept
<1>2. /\ Len(store') \in Nat /\ Len(store') >= Len(store)
      /\ \A i \in 1..Len(store) : store'[i] = store[i]
  <2>1. CASE store' = store
    BY <1>1, <2>1
  <2>2. CASE store' = Append(store, NewRow("error"))
    BY <1>1, <2>2, AppendRow
  <2> QED BY <2>1, <2>2 DEF PersistFailure
<1>3. Untouched' /\ Aim' /\ Outcomes' /\ Visited' /\ OnlyRerunRewritten'
  BY <1>1, <1>2, EndsRInv DEF runVars
<1> QED BY <1>1, <1>3 DEF RInv, FinalMatchesStore

LEMMA GoneRInv ==
  ASSUME Release \/ Restart
  PROVE  RInv'
BY DEF Release, Restart, RInv, Untouched, Aim, Outcomes, Visited, OnlyRerunRewritten,
       FinalMatchesStore, Before, Writing

LEMMA NextRInv == IInv /\ IInv' /\ Kept /\ RInv /\ [Next]_vars => RInv'
<1> SUFFICES ASSUME IInv, IInv', Kept, RInv, [Next]_vars PROVE RInv'
  OBVIOUS
<1>1. ASSUME NEW names \in Selections, Start(names) PROVE RInv'
  BY <1>1, BeginRInv DEF Start
<1>2. ASSUME NEW h \in Rerunners, RerunStart(h) PROVE RInv'
  BY <1>2, BeginRInv DEF RerunStart
<1>3. ASSUME NEW h \in Rerunners, (\E a \in Agents : RerunRead(h, a)) \/ RerunRefused(h) PROVE RInv'
  BY <1>3, HandlerRInv DEF RerunRead, RerunRefused
<1>4. ASSUME NEW c \in Cancellers,
             CancelAll(c) \/ (\E a \in Agents : CancelAgent(c, a)) \/ CancelStep(c)
      PROVE  RInv'
  BY <1>4, HandlerRInv DEF CancelAll, CancelAgent, CancelMark, CancelStep, CancelAbort, CancelReturn
<1>5. ASSUME NEW a \in Agents, AgentStep(a) PROVE RInv'
  BY <1>5, AgentRInv
<1>6. CASE FetchStep \/ CheckoutStep
  BY <1>6, GoesOnRInv, StopsRInv DEF FetchStep, CheckoutStep
<1>7. CASE PersistStep
  BY <1>7, SessionRInv, ClearRInv, SaveRInv, ConcernRInv, CompletedRInv, StopsRInv DEF PersistStep
<1>8. CASE RunStep
  BY <1>7, <1>8, GoesOnRInv, StopsRInv, RecordFailureRInv, RestoreRInv, RestoreFailedRInv, GoneRInv
     DEF RunStep
<1>9. CASE UNCHANGED vars
  BY <1>9, HandlerRInv DEF vars
<1> QED BY <1>1, <1>2, <1>3, <1>4, <1>5, <1>6, <1>8, <1>9, GoneRInv DEF Next, Exhausted

\* Invariance with Kept, which the refinement found to be one.
LEMMA RowsInvariance == Spec => [](IInv /\ Kept /\ RInv)
<1>1. Init => IInv /\ Kept /\ RInv
  BY InitIInv, InitSeen, InitRInv
<1>2. IInv /\ Kept /\ RInv /\ [Next]_vars => (IInv /\ Kept /\ RInv)'
  BY NextIInv, NextSeen, NextRInv
<1> QED BY <1>1, <1>2, PTL DEF Spec

(* A run rewrites nothing of the reviews stored before it but the agents it was   *)
(* asked to rerun, wherever persist stops, and nothing at all if it is cancelled  *)
(* (persist's loops, Review's early return, settle).                              *)
THEOREM OthersAreKept == Spec => []OnlyRerunRewritten
<1>1. RInv => OnlyRerunRewritten
  BY DEF RInv
<1> QED BY <1>1, RowsInvariance, PTL

(* The last snapshot of a review that completed or was restored is what is stored *)
(* (run's read back, mergeStoredAgents, restore).                                 *)
THEOREM LastIsStored == Spec => []FinalMatchesStore
<1>1. RInv => FinalMatchesStore
  BY DEF RInv
<1> QED BY <1>1, RowsInvariance, PTL

-----------------------------------------------------------------------------
(* The record: what is running in it *)

\* Of an agent's stages at most those in on are running, and all are there.
Only(ag, on) ==
  \A s \in AgentStages : ag.stages[s] # "none" /\ (ag.stages[s] = "running" => s \in on)

\* The record of an agent whose goroutine is at the given place.
At(place, ag) ==
  /\ place = "begin"            => ag.status = "pending" /\ Only(ag, {})
  /\ place = "create"           => ag.status = "running" /\ Only(ag, {"session"})
  /\ place = "ready"            => ag.status = "running" /\ Only(ag, {})
  /\ place \in {"post", "wait"} => ag.status = "running" /\ Only(ag, {"prompt"})
  /\ place = "ended"            => ~IsOpen(ag.status) /\ Only(ag, {})

Storing == {"session"} \cup Writing

Places ==
  /\ pc \in Before => \A a \in selected : At("begin", review.agents[a])
  /\ pc = "agents" => \A a \in selected : At(apc[a], review.agents[a])
  /\ pc \in Storing => \A a \in selected : At("ended", review.agents[a])

\* The stage of the review that may be running where the run is.
OnlyStages(on) == \A s \in ReviewStages : review.stages[s] = "running" => s \in on

StageOfPlace ==
  /\ pc = "fetch"              => OnlyStages({"fetch"})
  /\ pc = "checkout"           => OnlyStages({"checkout"})
  /\ pc \in {"config", "agents"} => OnlyStages({})
  /\ pc \in Storing            => OnlyStages({"store"})

\* A cancelled agent that may still prompt has its session aborted, or about to be.
Told ==
  \A a \in Agents : apc[a] \in {"ready", "post", "wait"} =>
    /\ a \in opened
    /\ IsCancelled(a) =>
         a \in aborted \/ \E c \in Cancellers : cancel[c].run = inFlight /\ a \in cancel[c].aborts

SInv == Places /\ StageOfPlace /\ Told /\ NoSpinner

-----------------------------------------------------------------------------
LEMMA StartedStage ==
  ASSUME NEW rv \in Review, NEW a \in Agents, NEW s \in AgentStages,
         rv.agents[a].status \in {"pending", "running"}, Only(rv.agents[a], {})
  PROVE  /\ StartAgentStage(rv, a, s).stages = rv.stages
         /\ \A b \in Agents : b # a => StartAgentStage(rv, a, s).agents[b] = rv.agents[b]
         /\ StartAgentStage(rv, a, s).agents[a].status = "running"
         /\ Only(StartAgentStage(rv, a, s).agents[a], {s})
<1> DEFINE ag == rv.agents[a]
           nu == [ag EXCEPT !.stages = [ag.stages EXCEPT ![s] = "running"],
                            !.status = IF @ = "pending" THEN "running" ELSE @]
<1>1. ag \in Agent /\ ag.stages[s] # "none" /\ rv.agents \in [Agents -> Agent]
  BY DEF Review, Only
<1>2. StartAgentStage(rv, a, s) = [rv EXCEPT !.agents = [rv.agents EXCEPT ![a] = nu]]
  BY <1>1 DEF StartAgentStage, Agent, Review
<1>3. nu.status = "running" /\ nu.stages = [ag.stages EXCEPT ![s] = "running"]
  BY <1>1 DEF Agent
<1>4. Only(nu, {s})
  <2> HIDE DEF nu
  <2> QED BY <1>1, <1>3 DEF Only, Agent
<1> HIDE DEF nu
<1> QED BY <1>1, <1>2, <1>3, <1>4 DEF Review

LEMMA EndedStage ==
  ASSUME NEW rv \in Review, NEW a \in Agents, NEW s \in AgentStages, NEW c \in Cause,
         NEW on, Only(rv.agents[a], on)
  PROVE  /\ EndAgentStage(rv, a, s, c).stages = rv.stages
         /\ \A b \in Agents : b # a => EndAgentStage(rv, a, s, c).agents[b] = rv.agents[b]
         /\ c # "nil" \/ s = LastStage => EndAgentStage(rv, a, s, c).agents[a].status = StageStatus(c)
         /\ c = "nil" /\ s # LastStage => EndAgentStage(rv, a, s, c).agents[a].status = rv.agents[a].status
         /\ Only(EndAgentStage(rv, a, s, c).agents[a], on \ {s})
<1> DEFINE ag == rv.agents[a]
           nu == [ag EXCEPT !.stages = [ag.stages EXCEPT ![s] = StageStatus(c)],
                            !.status = IF c # "nil" \/ s = LastStage THEN StageStatus(c) ELSE @]
<1>1. /\ ag \in Agent /\ ag.stages[s] # "none" /\ rv.agents \in [Agents -> Agent]
      /\ StageStatus(c) \in {"done", "error", "cancelled"}
  BY DEF Review, Only, StageStatus, Cause
<1>2. EndAgentStage(rv, a, s, c) = [rv EXCEPT !.agents = [rv.agents EXCEPT ![a] = nu]]
  BY <1>1 DEF EndAgentStage, Agent, Review
<1>3. /\ nu.status = IF c # "nil" \/ s = LastStage THEN StageStatus(c) ELSE ag.status
      /\ nu.stages = [ag.stages EXCEPT ![s] = StageStatus(c)]
  BY <1>1 DEF Agent
<1>4. Only(nu, on \ {s})
  <2> HIDE DEF nu
  <2> QED BY <1>1, <1>3 DEF Only, Agent
<1> HIDE DEF nu
<1> QED BY <1>1, <1>2, <1>3, <1>4 DEF Review

\* finish leaves nothing running, whatever was (settleRunningStages).
LEMMA FinishedQuiet ==
  ASSUME NEW rv \in Review, NEW c \in {"error", "cancelled"}
  PROVE  NothingRunning(Finish(rv, c), Agents)
<1> DEFINE st == [s \in ReviewStages |-> SettledStage(rv.stages[s], c)]
           as == [a \in Agents |-> SettledAgent(rv.agents[a], c)]
<1>1. Finish(rv, c).stages = st /\ Finish(rv, c).agents = as
  <2>1. Finish(rv, c) = [[rv EXCEPT !.stages = st, !.agents = as] EXCEPT !.status = c]
    BY DEF Finish, SettleRunningStages
  <2> HIDE DEF st, as
  <2> QED BY <2>1 DEF Review
<1>2. \A s \in ReviewStages : st[s] # "running"
  BY DEF SettledStage
<1>3. ASSUME NEW a \in Agents
      PROVE  ~IsOpen(as[a].status) /\ \A s \in AgentStages : as[a].stages[s] # "running"
  BY DEF SettledAgent, SettledStage, IsOpen
<1> HIDE DEF st, as
<1> QED BY <1>1, <1>2, <1>3 DEF NothingRunning

LEMMA InitSInv == Init => SInv
BY NewReviewType DEF Init, SInv, Places, StageOfPlace, Told, NoSpinner, Before, Storing, Writing

-----------------------------------------------------------------------------
(* Handlers and starts *)

LEMMA CancelSInv ==
  ASSUME IInv, SInv, NEW c \in Cancellers,
         CancelAll(c) \/ (\E a \in Agents : CancelAgent(c, a)) \/ CancelStep(c)
  PROVE  SInv'
<1>1. UNCHANGED <<ownVars, review, pc, runVars>>
  BY DEF CancelAll, CancelAgent, CancelMark, CancelStep, CancelAbort, CancelReturn
<1>2. Places' /\ StageOfPlace' /\ NoSpinner'
  BY <1>1 DEF SInv, Places, StageOfPlace, NoSpinner, OnlyStages, runVars
<1>3. Told'
  <2> SUFFICES ASSUME NEW a \in Agents, apc'[a] \in {"ready", "post", "wait"}
               PROVE  /\ a \in opened'
                      /\ IsCancelled(a)' =>
                           \/ a \in aborted'
                           \/ \E d \in Cancellers : cancel'[d].run = inFlight' /\ a \in cancel'[d].aborts
    BY DEF Told
  <2>1. /\ apc[a] \in {"ready", "post", "wait"} /\ a \in opened /\ a \in opened'
        /\ inFlight' = inFlight /\ cancel \in [Cancellers -> [run : Nat, aborts : SUBSET Agents, stop : BOOLEAN]]
        /\ aborted \subseteq aborted'
        /\ IsCancelled(a) =>
             a \in aborted \/ \E d \in Cancellers : cancel[d].run = inFlight /\ a \in cancel[d].aborts
    BY <1>1 DEF runVars, ownVars, SInv, Told, IInv, TypeOK, CancelAll, CancelAgent, CancelMark,
                CancelStep, CancelAbort, CancelReturn
  <2>2. pc = "agents" /\ a \in selected /\ review.agents[a].status = "running"
    BY <2>1 DEF SInv, Places, At, IInv, Shape
  <2>3. ASSUME NEW names, NEW all \in BOOLEAN, CancelMark(c, names, all), all => a \in names
        PROVE  IsCancelled(a)' =>
                 a \in aborted' \/ \E d \in Cancellers : cancel'[d].run = inFlight /\ a \in cancel'[d].aborts
    <3>1. /\ cancel[c] = NoCancel
          /\ cancel' = [cancel EXCEPT ![c] = [run |-> inFlight, aborts |-> Abortable(names), stop |-> all]]
          /\ whole' = (whole \/ all) /\ marked' = marked \cup names
      BY <2>3 DEF CancelMark
    <3>2. CASE a \in names
      <4>1. a \in Abortable(names)
        BY <2>1, <2>2, <3>2 DEF Abortable, IsOpen
      <4>2. cancel'[c].run = inFlight /\ cancel'[c].aborts = Abortable(names)
        BY <2>1, <3>1
      <4> QED BY <4>1, <4>2
    <3>3. CASE a \notin names
      <4>1. IsCancelled(a)' => IsCancelled(a)
        BY <2>3, <3>1, <3>3 DEF IsCancelled
      <4>2. ASSUME NEW d \in Cancellers, a \in cancel[d].aborts PROVE cancel'[d] = cancel[d]
        <5>1. d # c
          BY <3>1, <4>2 DEF NoCancel
        <5> QED BY <2>1, <3>1, <5>1
      <4> QED BY <2>1, <4>1, <4>2
    <3> QED BY <3>2, <3>3
  <2>4. CASE CancelAll(c)
    BY <2>1, <2>2, <2>3, <2>4 DEF CancelAll, Present
  <2>5. ASSUME NEW b \in Agents, CancelAgent(c, b)
        PROVE  IsCancelled(a)' =>
                 a \in aborted' \/ \E d \in Cancellers : cancel'[d].run = inFlight /\ a \in cancel'[d].aborts
    BY <2>3, <2>5 DEF CancelAgent
  <2>6. ASSUME NEW b \in Agents, CancelAbort(c, b)
        PROVE  IsCancelled(a)' =>
                 a \in aborted' \/ \E d \in Cancellers : cancel'[d].run = inFlight /\ a \in cancel'[d].aborts
    <3>1. /\ cancel' = [cancel EXCEPT ![c] = [cancel[c] EXCEPT !.aborts = cancel[c].aborts \ {b}]]
          /\ cancel[c].run = inFlight => b \in aborted'
      BY <2>6 DEF CancelAbort
    <3>2. /\ cancel'[c].run = cancel[c].run /\ cancel'[c].aborts = cancel[c].aborts \ {b}
          /\ \A d \in Cancellers : d # c => cancel'[d] = cancel[d]
      BY <2>1, <3>1
    <3>3. IsCancelled(a)' => IsCancelled(a)
      BY <2>6 DEF CancelAbort, IsCancelled
    <3>4. ASSUME NEW d \in Cancellers, cancel[d].run = inFlight, a \in cancel[d].aborts
          PROVE  a \in aborted' \/ (cancel'[d].run = inFlight /\ a \in cancel'[d].aborts)
      BY <3>1, <3>2, <3>4
    <3> QED BY <2>1, <3>3, <3>4
  <2>7. CASE CancelReturn(c)
    <3>1. /\ cancel[c].aborts = {} /\ (IsCancelled(a)' => IsCancelled(a))
          /\ \A d \in Cancellers : d # c => cancel'[d] = cancel[d]
      BY <2>1, <2>7 DEF CancelReturn, IsCancelled
    <3> QED BY <2>1, <3>1
  <2> QED BY <2>1, <2>4, <2>5, <2>6, <2>7 DEF CancelStep
<1> QED BY <1>2, <1>3 DEF SInv

LEMMA UnmovedSInv ==
  ASSUME SInv, UNCHANGED <<ownVars, review, pc, runVars, cancelVars, cancel>>
  PROVE  SInv'
<1> USE DEF runVars, ownVars, cancelVars
<1>1. Places' /\ StageOfPlace' /\ NoSpinner'
  BY DEF SInv, Places, StageOfPlace, NoSpinner, OnlyStages
<1>2. Told'
  BY DEF SInv, Told, IsCancelled
<1> QED BY <1>1, <1>2 DEF SInv

LEMMA BeginSInv ==
  ASSUME IInv, IInv', NEW agents \in SUBSET Agents, NEW rv \in Review, NEW sid, Begin(agents, rv, sid),
         \A a \in agents : At("begin", rv.agents[a]),
         \A s \in ReviewStages : rv.stages[s] = "pending"
  PROVE  SInv'
<1>1. /\ pc' = "fetch" /\ selected' = agents /\ \A a \in Agents : apc'[a] = "none"
  BY DEF Begin, Enter
<1>2. /\ review'.agents = rv.agents /\ review'.stages = [rv.stages EXCEPT !["fetch"] = "running"]
      /\ review'.status = "running"
  BY DEF Begin, Enter, StartStage, Review
<1>3. Places' /\ Told' /\ NoSpinner'
  BY <1>1, <1>2 DEF Places, Told, NoSpinner, Before, Storing, Writing
<1>4. StageOfPlace'
  <2>1. rv.stages \in [ReviewStages -> Status]
    BY DEF Review
  <2> QED BY <1>1, <1>2, <2>1 DEF StageOfPlace, OnlyStages, Storing, Writing
<1> QED BY <1>3, <1>4 DEF SInv

LEMMA StartsSInv ==
  ASSUME IInv, IInv',
         \/ \E names \in Selections : Start(names)
         \/ \E h \in Rerunners : RerunStart(h)
  PROVE  SInv'
<1>1. ASSUME NEW agents \in SUBSET Agents, NEW a \in agents
      PROVE  NewReview(agents).agents[a] = NewAgent /\ At("begin", NewAgent)
  BY <1>1 DEF NewReview, NewAgent, At, Only, AgentStages
<1>2. ASSUME NEW agents \in SUBSET Agents, NEW s \in ReviewStages
      PROVE  NewReview(agents).stages[s] = "pending"
  BY DEF NewReview
<1>3. ASSUME NEW names \in Selections, Start(names) PROVE SInv'
  <2> DEFINE agents == NormaliseAgents(names)
  <2>1. agents \in SUBSET Agents /\ NewReview(agents) \in Review
    BY AgentsAssumption, RunsAssumption, NewReviewType DEF NormaliseAgents
  <2>2. Begin(agents, NewReview(agents), 0)
    BY <1>3 DEF Start
  <2> HIDE DEF agents
  <2> QED BY <1>1, <1>2, <2>1, <2>2, BeginSInv
<1>4. ASSUME NEW h \in Rerunners, RerunStart(h) PROVE SInv'
  <2> DEFINE agents == rerun[h].agents
             b      == rerun[h].base
             nw     == NewReview(agents)
             rv     == SeedFrom(nw, b, agents)
  <2>1. agents \in SUBSET Agents /\ b \in Review /\ nw \in Review
    BY NewReviewType DEF IInv, TypeOK
  <2>2. Begin(agents, rv, b.sessionID)
    BY <1>4 DEF RerunStart
  <2>3. rv \in Review
    BY <2>1, SeedFromType
  <2>4. rv.stages = nw.stages /\ \A a \in agents : rv.agents[a] = nw.agents[a]
    <3> HIDE DEF nw, b, agents
    <3> QED BY <2>1 DEF SeedFrom, Review
  <2>5. (\A a \in agents : At("begin", rv.agents[a])) /\ \A s \in ReviewStages : rv.stages[s] = "pending"
    BY <1>1, <1>2, <2>1, <2>4
  <2> HIDE DEF agents, rv, b
  <2> QED BY <2>1, <2>2, <2>3, <2>5, BeginSInv
<1> QED BY <1>3, <1>4

-----------------------------------------------------------------------------
(* The agents' goroutines *)

\* A step of a's goroutine to a place that the record of a agrees with, and where a
\* cancelled agent is on its way out or aborted.
LEMMA AgentMovesOn ==
  ASSUME IInv, SInv, NEW a \in Agents, apc[a] \notin {"none", "ended"}, NEW to \in APCs,
         AgentGoes(a, to), AgentFrame, aborted \subseteq aborted', opened \subseteq opened',
         review'.status = review.status,
         review'.stages = review.stages, \A b \in Agents : b # a => review'.agents[b] = review.agents[b],
         At(to, review'.agents[a]),
         to \in {"ready", "post", "wait"} =>
           /\ a \in opened'
           /\ \/ apc[a] \in {"ready", "post", "wait"}
              \/ IsCancelled(a) => a \in aborted'
  PROVE  SInv'
<1> USE DEF AgentFrame, AgentGoes, ownVars
<1>1. /\ pc = "agents" /\ pc' = "agents" /\ a \in selected /\ selected' = selected /\ selected \subseteq Agents
      /\ review.status = "running" /\ apc \in [Agents -> APCs]
  BY DEF IInv, Shape, Running, TypeOK
<1>2. \A b \in Agents : apc'[b] = IF b = a THEN to ELSE apc[b]
  BY <1>1
<1>3. Places'
  BY <1>1, <1>2 DEF SInv, Places, Before, Storing, Writing
<1>4. StageOfPlace'
  BY <1>1 DEF SInv, StageOfPlace, OnlyStages, Storing, Writing
<1>5. Told'
  <2>1. \A b \in Agents : IsCancelled(b)' = IsCancelled(b)
    BY DEF IsCancelled
  <2>2. ASSUME NEW b \in Agents, b # a, apc'[b] \in {"ready", "post", "wait"}
        PROVE  /\ b \in opened'
               /\ IsCancelled(b)' =>
                    b \in aborted' \/ \E c \in Cancellers : cancel'[c].run = inFlight' /\ b \in cancel'[c].aborts
    BY <1>2, <2>1, <2>2 DEF SInv, Told
  <2>3. ASSUME apc'[a] \in {"ready", "post", "wait"}
        PROVE  /\ a \in opened'
               /\ IsCancelled(a)' =>
                    a \in aborted' \/ \E c \in Cancellers : cancel'[c].run = inFlight' /\ a \in cancel'[c].aborts
    BY <1>2, <2>1, <2>3 DEF SInv, Told
  <2> QED BY <2>2, <2>3 DEF Told
<1>6. NoSpinner'
  BY <1>1 DEF NoSpinner
<1> QED BY <1>3, <1>4, <1>5, <1>6 DEF SInv

LEMMA AgentSInv ==
  ASSUME IInv, SInv, NEW a \in Agents, AgentStep(a)
  PROVE  SInv'
<1> DEFINE ag == review.agents[a]
<1>1. /\ pc = "agents" /\ a \in selected /\ apc[a] \notin {"none", "ended"}
      /\ review \in Review /\ review.status = "running" /\ At(apc[a], ag)
  BY AgentOwn DEF IInv, Shape, Running, TypeOK, SInv, Places
<1>2. {"nil", "error", "cancelled"} = Cause /\ {"session", "prompt", "parse"} = AgentStages
  BY DEF Cause, AgentStages
<1>3. APCs = {"none", "begin", "create", "ready", "post", "wait", "ended"}
  BY DEF APCs
<1>4. ASSUME NEW on, Only(ag, on), NEW s \in AgentStages, on \subseteq {s},
             NEW c \in {"error", "cancelled"}, AgentEnds(a, s, c)
      PROVE  SInv'
  <2> DEFINE r == EndAgentStage(review, a, s, c)
  <2>1. /\ review' = r /\ AgentGoes(a, "ended") /\ AgentFrame /\ UNCHANGED <<opened, aborted>>
    BY <1>4 DEF AgentEnds
  <2>2. c \in Cause /\ r.status = review.status
    BY <1>1, <1>2, EndAgentStageType
  <2>3. /\ r.stages = review.stages /\ \A b \in Agents : b # a => r.agents[b] = review.agents[b]
        /\ r.agents[a].status = c /\ Only(r.agents[a], {})
    <3>1. Only(r.agents[a], on \ {s}) /\ on \ {s} = {}
      BY <1>1, <1>4, <2>2, EndedStage
    <3>2. StageStatus(c) = c
      BY DEF StageStatus
    <3>3. /\ r.stages = review.stages /\ \A b \in Agents : b # a => r.agents[b] = review.agents[b]
          /\ r.agents[a].status = StageStatus(c)
      BY <1>1, <1>4, <2>2, EndedStage
    <3> QED BY <3>1, <3>2, <3>3
  <2>4. At("ended", r.agents[a])
    BY <2>3 DEF At, IsOpen
  <2> HIDE DEF r
  <2> QED BY <1>1, <1>3, <2>1, <2>2, <2>3, <2>4, AgentMovesOn
<1>5. ASSUME Only(ag, {}), ag.status \in {"pending", "running"}, NEW s \in AgentStages,
             NEW to \in {"create", "post"}, to = "create" => s = "session", to = "post" => s = "prompt",
             to = "post" => apc[a] = "ready",
             AgentStarts(a, s, to)
      PROVE  SInv'
  <2> DEFINE r == StartAgentStage(review, a, s)
  <2>1. /\ review' = r /\ AgentGoes(a, to) /\ AgentFrame /\ UNCHANGED <<opened, aborted>>
    BY <1>5 DEF AgentStarts
  <2>2. r.status = review.status
    BY <1>1, StartAgentStageType
  <2>3. /\ r.stages = review.stages /\ \A b \in Agents : b # a => r.agents[b] = review.agents[b]
        /\ r.agents[a].status = "running" /\ Only(r.agents[a], {s})
    BY <1>1, <1>5, StartedStage
  <2>4. At(to, r.agents[a])
    BY <1>5, <2>3 DEF At
  <2>5. apc[a] = "ready" => a \in opened
    BY DEF SInv, Told
  <2> HIDE DEF r
  <2> QED BY <1>1, <1>3, <1>5, <2>1, <2>2, <2>3, <2>4, <2>5, AgentMovesOn
<1>6. CASE AgentBegin(a)
  <2>1. apc[a] = "begin" /\ ag.status = "pending" /\ Only(ag, {})
    BY <1>1, <1>6 DEF AgentBegin, At
  <2>2. ASSUME AgentEnds(a, "session", "cancelled") PROVE SInv'
    BY <1>2, <1>4, <2>1, <2>2
  <2>3. ASSUME AgentStarts(a, "session", "create") PROVE SInv'
    BY <1>2, <1>5, <2>1, <2>3
  <2> QED BY <1>6, <2>2, <2>3 DEF AgentBegin
<1>7. CASE SessionReady(a)
  <2> DEFINE r == EndAgentStage(review, a, "session", "nil")
  <2>1. apc[a] = "create" /\ ag.status = "running" /\ Only(ag, {"session"})
    BY <1>1, <1>7 DEF SessionReady, At
  <2>2. /\ review' = r /\ AgentGoes(a, "ready") /\ AgentFrame /\ opened' = opened \cup {a}
        /\ aborted' = IF IsCancelled(a) THEN aborted \cup {a} ELSE aborted
    BY <1>7 DEF SessionReady
  <2>3. "session" \in AgentStages /\ "nil" \in Cause /\ r.status = review.status
    BY <1>1, <1>2, EndAgentStageType
  <2>4. /\ r.stages = review.stages /\ \A b \in Agents : b # a => r.agents[b] = review.agents[b]
        /\ r.agents[a].status = "running" /\ Only(r.agents[a], {})
    <3>1. Only(r.agents[a], {"session"} \ {"session"})
      BY <1>1, <2>1, <2>3, EndedStage
    <3>2. {"session"} \ {"session"} = {}
      OBVIOUS
    <3>3. /\ r.stages = review.stages /\ \A b \in Agents : b # a => r.agents[b] = review.agents[b]
          /\ r.agents[a].status = "running"
      BY <1>1, <2>1, <2>3, EndedStage DEF LastStage
    <3> QED BY <3>1, <3>2, <3>3
  <2>5. At("ready", r.agents[a])
    BY <2>4 DEF At
  <2> HIDE DEF r
  <2> QED BY <1>1, <1>3, <2>2, <2>3, <2>4, <2>5, AgentMovesOn
<1>8. CASE CreateSessionFailed(a)
  <2>1. Only(ag, {"session"})
    BY <1>1, <1>8 DEF CreateSessionFailed, At
  <2> QED BY <1>2, <1>4, <1>8, <2>1 DEF CreateSessionFailed
<1>9. CASE AgentCheck(a)
  <2>1. apc[a] = "ready" /\ ag.status = "running" /\ Only(ag, {})
    BY <1>1, <1>9 DEF AgentCheck, At
  <2>2. CASE IsCancelled(a)
    <3> DEFINE r == EndAgentStage(review, a, "prompt", "cancelled")
    <3>1. /\ review' = r /\ AgentGoes(a, "ended") /\ AgentFrame /\ opened' = opened
          /\ aborted' = aborted \cup {a}
      BY <1>9, <2>2 DEF AgentCheck
    <3>2. "prompt" \in AgentStages /\ "cancelled" \in Cause /\ r.status = review.status
      BY <1>1, <1>2, EndAgentStageType
    <3>3. /\ r.stages = review.stages /\ \A b \in Agents : b # a => r.agents[b] = review.agents[b]
          /\ r.agents[a].status = "cancelled" /\ Only(r.agents[a], {})
      <4>1. Only(r.agents[a], {} \ {"prompt"}) /\ {} \ {"prompt"} = {}
        BY <1>1, <2>1, <3>2, EndedStage
      <4> QED BY <1>1, <2>1, <3>2, <4>1, EndedStage DEF StageStatus
    <3>4. At("ended", r.agents[a])
      BY <3>3 DEF At, IsOpen
    <3> HIDE DEF r
    <3> QED BY <1>1, <1>3, <3>1, <3>2, <3>3, <3>4, AgentMovesOn
  <2>3. CASE ~IsCancelled(a)
    <3>1. AgentStarts(a, "prompt", "post")
      BY <1>9, <2>3 DEF AgentCheck
    <3> QED BY <1>2, <1>5, <2>1, <3>1
  <2> QED BY <2>2, <2>3
<1>10. CASE Prompt(a)
  <2>1. apc[a] = "post" /\ At("wait", ag) /\ a \in opened
    BY <1>1, <1>10 DEF Prompt, At, SInv, Told
  <2>2. AgentGoes(a, "wait") /\ AgentFrame /\ UNCHANGED <<review, opened, aborted>>
    BY <1>10 DEF Prompt
  <2> QED BY <1>1, <1>3, <2>1, <2>2, AgentMovesOn
<1>11. CASE Reported(a)
  <2> DEFINE r1 == EndAgentStage(review, a, "prompt", "nil")
             r2 == StartAgentStage(r1, a, "parse")
  <2>1. PICK cause \in {"nil", "error"} : review' = EndAgentStage(r2, a, "parse", cause)
    BY <1>11 DEF Reported
  <2> DEFINE r3 == EndAgentStage(r2, a, "parse", cause)
  <2>2. AgentGoes(a, "ended") /\ AgentFrame /\ UNCHANGED <<opened, aborted>>
    BY <1>11 DEF Reported
  <2>3. /\ {"prompt", "parse"} \subseteq AgentStages /\ "nil" \in Cause /\ cause \in Cause
        /\ ag.status = "running" /\ Only(ag, {"prompt"})
    BY <1>1, <1>2, <1>11 DEF Reported, At
  <2>4. /\ r1 \in Review /\ r1.status = review.status /\ r1.stages = review.stages
        /\ \A b \in Agents : b # a => r1.agents[b] = review.agents[b]
        /\ r1.agents[a].status = "running" /\ Only(r1.agents[a], {})
    <3>1. Only(r1.agents[a], {"prompt"} \ {"prompt"}) /\ {"prompt"} \ {"prompt"} = {}
      BY <1>1, <2>3, EndedStage
    <3>2. /\ r1.stages = review.stages /\ \A b \in Agents : b # a => r1.agents[b] = review.agents[b]
          /\ r1.agents[a].status = "running"
      BY <1>1, <2>3, EndedStage DEF LastStage
    <3>3. r1 \in Review /\ r1.status = review.status
      BY <1>1, <2>3, EndAgentStageType
    <3> QED BY <3>1, <3>2, <3>3
  <2> HIDE DEF r1
  <2>5. /\ r2 \in Review /\ r2.status = review.status /\ r2.stages = review.stages
        /\ \A b \in Agents : b # a => r2.agents[b] = review.agents[b]
        /\ Only(r2.agents[a], {"parse"})
    <3>1. "parse" \in AgentStages /\ r1 \in Review /\ r1.agents[a].status \in {"pending", "running"}
          /\ Only(r1.agents[a], {})
      BY <2>3, <2>4
    <3>2. /\ r2.stages = r1.stages /\ \A b \in Agents : b # a => r2.agents[b] = r1.agents[b]
          /\ Only(r2.agents[a], {"parse"})
      BY <3>1, StartedStage
    <3>3. r2 \in Review /\ r2.status = r1.status
      BY <3>1, StartAgentStageType
    <3> QED BY <2>4, <3>2, <3>3
  <2> HIDE DEF r2
  <2>6. /\ r3.status = review.status /\ r3.stages = review.stages
        /\ \A b \in Agents : b # a => r3.agents[b] = review.agents[b]
        /\ r3.agents[a].status \in {"done", "error"} /\ Only(r3.agents[a], {})
    <3>1. Only(r3.agents[a], {"parse"} \ {"parse"}) /\ {"parse"} \ {"parse"} = {}
      BY <2>3, <2>5, EndedStage
    <3>2. /\ r3.stages = r2.stages /\ \A b \in Agents : b # a => r3.agents[b] = r2.agents[b]
          /\ r3.agents[a].status = StageStatus(cause)
      <4>1. "parse" \in AgentStages /\ "parse" = LastStage /\ cause \in Cause /\ r2 \in Review
            /\ Only(r2.agents[a], {"parse"})
        BY <2>3, <2>5 DEF LastStage
      <4> QED BY <4>1, EndedStage
    <3>3. r3.status = r2.status
      BY <2>3, <2>5, EndAgentStageType
    <3>4. StageStatus(cause) \in {"done", "error"}
      BY <2>1 DEF StageStatus
    <3> QED BY <2>5, <3>1, <3>2, <3>3, <3>4
  <2>7. At("ended", r3.agents[a]) /\ review' = r3
    BY <2>1, <2>6 DEF At, IsOpen
  <2> HIDE DEF r3
  <2> QED BY <1>1, <1>3, <2>2, <2>6, <2>7, AgentMovesOn
<1>12. CASE PromptFailed(a) \/ NoReport(a)
  <2>1. Only(ag, {"prompt"})
    BY <1>1, <1>12 DEF PromptFailed, NoReport, At
  <2>2. \E c \in {"error", "cancelled"} : AgentEnds(a, "prompt", c)
    BY <1>12 DEF PromptFailed, NoReport
  <2> QED BY <1>2, <1>4, <2>1, <2>2
<1> QED BY <1>6, <1>7, <1>8, <1>9, <1>10, <1>11, <1>12 DEF AgentStep

-----------------------------------------------------------------------------
(* The run *)

\* No agent is told anything when the run is not waiting for them.
LEMMA NobodyTold ==
  ASSUME IInv', pc' # "agents"
  PROVE  Told'
BY DEF IInv, Shape, Told

LEMMA GoesOnSInv ==
  ASSUME IInv, IInv', SInv, FetchDone \/ CheckoutDone \/ LaunchAgents \/ JoinStore
  PROVE  SInv'
<1> USE DEF SInv
<1>1. /\ review \in Review /\ review'.status = "running" /\ selected' = selected /\ selected \subseteq Agents
      /\ review.stages \in [ReviewStages -> Status]
  BY DEF FetchDone, CheckoutDone, LaunchAgents, JoinStore, IInv, Shape, Running, TypeOK, runVars, Review
<1>2. "done" # "running" /\ "nil" \in Cause /\ {"fetch", "checkout", "store"} = ReviewStages
  BY DEF Cause, ReviewStages
<1>3. NoSpinner'
  BY <1>1 DEF NoSpinner
<1>4. CASE FetchDone
  <2>1. /\ pc = "fetch" /\ pc' = "checkout" /\ review'.agents = review.agents
        /\ review'.stages = [review.stages EXCEPT !["fetch"] = "done", !["checkout"] = "running"]
    BY <1>1, <1>4 DEF FetchDone, StartStage, EndStage, StageStatus, Review
  <2>2. Places'
    BY <1>1, <2>1 DEF Places, Before, Storing, Writing
  <2>3. StageOfPlace'
    BY <1>1, <1>2, <2>1 DEF StageOfPlace, OnlyStages, Storing, Writing
  <2> QED BY <1>3, <2>1, <2>2, <2>3, NobodyTold
<1>5. CASE CheckoutDone
  <2>1. /\ pc = "checkout" /\ pc' = "config" /\ review'.agents = review.agents
        /\ review'.stages = [review.stages EXCEPT !["checkout"] = "done"]
    BY <1>1, <1>5 DEF CheckoutDone, EndStage, StageStatus, Review
  <2>2. Places'
    BY <1>1, <2>1 DEF Places, Before, Storing, Writing
  <2>3. StageOfPlace'
    BY <1>1, <1>2, <2>1 DEF StageOfPlace, OnlyStages, Storing, Writing
  <2> QED BY <1>3, <2>1, <2>2, <2>3, NobodyTold
<1>6. CASE LaunchAgents
  <2>1. /\ pc = "config" /\ pc' = "agents" /\ review' = review
        /\ \A a \in Agents : apc'[a] = IF a \in selected THEN "begin" ELSE "none"
    BY <1>6 DEF LaunchAgents
  <2>2. Places' /\ StageOfPlace'
    BY <1>1, <2>1 DEF Places, StageOfPlace, OnlyStages, Before, Storing, Writing
  <2>3. Told'
    BY <2>1 DEF Told
  <2> QED BY <1>3, <2>2, <2>3
<1>7. CASE JoinStore
  <2>1. /\ pc = "agents" /\ pc' = "session" /\ review'.agents = review.agents
        /\ review'.stages = [review.stages EXCEPT !["store"] = "running"]
        /\ \A a \in selected : apc[a] = "ended"
    BY <1>1, <1>7 DEF JoinStore, Joined, StartStage, Review
  <2>2. Places'
    BY <1>1, <2>1 DEF Places, Before
  <2>3. StageOfPlace'
    BY <1>1, <1>2, <2>1 DEF StageOfPlace, OnlyStages
  <2> QED BY <1>3, <2>1, <2>2, <2>3, NobodyTold
<1> QED BY <1>4, <1>5, <1>6, <1>7

\* The run leaves the pipeline with a record in which nothing is running.
LEMMA LeavesSInv ==
  ASSUME IInv', pc' \in {"persistFailure", "restore", "release", "idle"}, NoSpinner'
  PROVE  SInv'
BY NobodyTold DEF SInv, Places, StageOfPlace, Before, Storing, Writing

LEMMA StopsSInv ==
  ASSUME IInv, IInv',
         \/ FetchFailed \/ CheckoutFailed \/ ConfigFailed
         \/ JoinCancelled \/ JoinFailed \/ PersistFailed
  PROVE  SInv'
<1>1. /\ review \in Review /\ CtxCause \in {"error", "cancelled"}
      /\ "error" \in Cause /\ CtxCause \in Cause
      /\ {"fetch", "checkout", "store"} = ReviewStages
  BY DEF IInv, TypeOK, CtxCause, Cause, ReviewStages
<1>2. ASSUME NEW s \in ReviewStages, NEW c \in Cause PROVE EndStage(review, s, c) \in Review
  BY <1>1, EndStageType
<1>3. \E rv \in Review : \E c \in {"error", "cancelled"} : Settle(rv, c)
  BY <1>1, <1>2 DEF FetchFailed, CheckoutFailed, ConfigFailed, JoinCancelled, JoinFailed, PersistFailed
<1>4. PICK rv \in Review, c \in {"error", "cancelled"} : Settle(rv, c)
  BY <1>3
<1>5. review' = Finish(rv, c) /\ pc' \in {"persistFailure", "restore", "release"}
  BY <1>4 DEF Settle
<1>6. NothingRunning(review', Agents) /\ review'.status # "done"
  <2>1. StageStatus(c) # "done" /\ c \in Cause
    BY DEF StageStatus, Cause
  <2> QED BY <1>5, <2>1, FinishedQuiet, FinishType
<1> QED BY <1>5, <1>6, LeavesSInv DEF NoSpinner

LEMMA WritesSInv ==
  ASSUME IInv, IInv', SInv,
         PersistSession \/ \E a \in Agents : ClearConcerns(a) \/ SaveAgent(a) \/ CreateConcern(a)
  PROVE  SInv'
<1>1. pc \in Storing /\ pc' \in Writing /\ UNCHANGED <<review, selected>>
  BY DEF PersistSession, ClearConcerns, SaveAgent, CreateConcern, PersistFrame, Storing, Writing
<1>2. review'.status = "running"
  BY <1>1 DEF IInv, Shape, Running, Writing
<1>3. Places' /\ StageOfPlace' /\ NoSpinner'
  BY <1>1, <1>2 DEF SInv, Places, StageOfPlace, OnlyStages, NoSpinner, Before, Storing, Writing
<1>4. pc' # "agents"
  BY <1>1 DEF Writing
<1> QED BY <1>3, <1>4, NobodyTold DEF SInv

\* A stored status closes an agent and leaves its stages as they are.
LEMMA MergedQuiet ==
  ASSUME NEW rv \in Review, NEW stored \in [Agents -> {"none", "done", "error"}],
         NEW a \in Agents, ~IsOpen(rv.agents[a].status),
         \A s \in AgentStages : rv.agents[a].stages[s] # "running"
  PROVE  LET ag == MergeStoredAgents(rv, stored).agents[a]
         IN  ~IsOpen(ag.status) /\ \A s \in AgentStages : ag.stages[s] # "running"
<1> DEFINE ag == MergeStoredAgents(rv, stored).agents[a]
<1>1. /\ ag = IF stored[a] = "none" THEN rv.agents[a] ELSE [rv.agents[a] EXCEPT !.status = stored[a]]
      /\ rv.agents[a] \in Agent
  BY DEF MergeStoredAgents, Review
<1>2. ag.stages = rv.agents[a].stages /\ ~IsOpen(ag.status)
  <2> HIDE DEF ag
  <2> QED BY <1>1 DEF Agent, IsOpen
<1> HIDE DEF ag
<1>3. ~IsOpen(ag.status) /\ \A s \in AgentStages : ag.stages[s] # "running"
  BY <1>2
<1> QED BY <1>3 DEF ag

LEMMA CompletedSInv ==
  ASSUME IInv, IInv', SInv, Completed
  PROVE  SInv'
<1> DEFINE es == EndStage(review, "store", "nil")
           mg == MergeStoredAgents(es, store[target].agents)
<1>1. /\ review \in Review /\ store \in Seq(Row) /\ target \in 1..Len(store) /\ store[target] \in Row
      /\ pc \in Storing /\ pc' = "release" /\ selected' = selected /\ selected \subseteq Agents
  BY DEF Completed, IInv, TypeOK, Sessions, Storing, Writing, runVars
<1>2. /\ es \in Review /\ store[target].agents \in [Agents -> {"none", "done", "error"}]
      /\ es.agents = review.agents /\ es.stages = [review.stages EXCEPT !["store"] = "done"]
  <2>1. es \in Review
    BY <1>1, EndStageType DEF Cause, ReviewStages
  <2> QED BY <1>1, <2>1 DEF Row, RowAgents, EndStage, StageStatus, Review
<1>3. \A s \in ReviewStages : es.stages[s] # "running"
  <2>1. review.stages \in [ReviewStages -> Status]
    BY <1>1 DEF Review
  <2> HIDE DEF es
  <2> QED BY <1>1, <1>2, <2>1 DEF SInv, StageOfPlace, OnlyStages
<1>4. ASSUME NEW a \in selected
      PROVE  ~IsOpen(mg.agents[a].status) /\ \A s \in AgentStages : mg.agents[a].stages[s] # "running"
  <2>1. At("ended", review.agents[a])
    BY <1>1 DEF SInv, Places
  <2> HIDE DEF es
  <2>2. ~IsOpen(es.agents[a].status) /\ \A s \in AgentStages : es.agents[a].stages[s] # "running"
    BY <1>2, <2>1 DEF At, Only
  <2> QED BY <1>1, <1>2, <2>2, MergedQuiet
<1>5. mg \in Review /\ mg.stages = es.stages
  <2> HIDE DEF es
  <2>1. mg \in Review
    BY <1>2, MergeType
  <2>2. mg.stages = es.stages
    BY <1>2 DEF MergeStoredAgents, Review
  <2> QED BY <2>1, <2>2
<1>6. review'.status = "done" /\ review'.stages = mg.stages /\ review'.agents = mg.agents
  <2>1. review' = [[mg EXCEPT !.sessionID = target, !.concerns = store[target].concerns] EXCEPT !.status = "done"]
    BY DEF Completed, Finish
  <2> HIDE DEF mg
  <2> QED BY <1>5, <2>1 DEF Review
<1>7. NoSpinner'
  <2> HIDE DEF mg, es
  <2> QED BY <1>1, <1>3, <1>4, <1>5, <1>6 DEF NoSpinner, NothingRunning
<1> QED BY <1>1, <1>7, LeavesSInv

LEMMA RestoreSInv ==
  ASSUME IInv, IInv', SInv, Restore
  PROVE  SInv'
<1> DEFINE row == store[base]
           cl  == ClearStages(review)
           mg  == MergeStoredAgents(cl, row.agents)
<1>1. /\ review \in Review /\ store \in Seq(Row) /\ base \in 1..Len(store) /\ row \in Row
      /\ pc' = "release" /\ selected' = selected /\ selected \subseteq Agents
      /\ NothingRunning(review, Agents)
  BY DEF Restore, IInv, TypeOK, Shape, Sessions, SInv, NoSpinner, runVars
<1>2. row.agents \in [Agents -> {"none", "done", "error"}]
  BY <1>1 DEF Row, RowAgents
<1>3. /\ cl \in Review /\ cl.stages = review.stages
      /\ \A a \in Agents : /\ cl.agents[a].status = review.agents[a].status
                           /\ cl.agents[a].stages = NoStages
  <2>1. ASSUME NEW a \in Agents
        PROVE  /\ [review.agents[a] EXCEPT !.stages = NoStages] \in Agent
               /\ [review.agents[a] EXCEPT !.stages = NoStages].status = review.agents[a].status
               /\ [review.agents[a] EXCEPT !.stages = NoStages].stages = NoStages
    <3>1. review.agents[a] \in Agent
      BY <1>1 DEF Review
    <3> QED BY <3>1 DEF Agent, NoStages, Status
  <2> QED BY <1>1, <2>1 DEF ClearStages, Review
<1>4. ASSUME NEW a \in Agents
      PROVE  ~IsOpen(mg.agents[a].status) /\ \A s \in AgentStages : mg.agents[a].stages[s] # "running"
  <2> HIDE DEF cl, row
  <2>1. ~IsOpen(cl.agents[a].status) /\ \A s \in AgentStages : cl.agents[a].stages[s] # "running"
    BY <1>1, <1>3 DEF NothingRunning, NoStages
  <2> QED BY <1>2, <1>3, <2>1, MergedQuiet
<1>5. mg \in Review /\ mg.stages = review.stages
  <2> HIDE DEF cl, row
  <2>1. mg \in Review
    BY <1>2, <1>3, MergeType
  <2>2. mg.stages = cl.stages
    BY <1>3 DEF MergeStoredAgents, Review
  <2> QED BY <1>3, <2>1, <2>2
<1>6. review'.status = "done" /\ review'.stages = mg.stages /\ review'.agents = mg.agents
  <2>1. review' = [mg EXCEPT !.status = "done", !.concerns = row.concerns]
    BY DEF Restore
  <2> HIDE DEF mg, row
  <2> QED BY <1>5, <2>1 DEF Review
<1>7. NoSpinner'
  <2> HIDE DEF mg, cl
  <2> QED BY <1>1, <1>4, <1>5, <1>6 DEF NoSpinner, NothingRunning
<1> QED BY <1>1, <1>7, LeavesSInv

LEMMA LastSInv ==
  ASSUME IInv', SInv, RestoreFailed \/ PersistFailure \/ Release \/ Restart
  PROVE  SInv'
<1>1. pc' \in {"release", "idle"}
  BY DEF RestoreFailed, PersistFailure, Release, Restart
<1>2. CASE RestoreFailed \/ PersistFailure
  BY <1>1, <1>2, LeavesSInv DEF RestoreFailed, PersistFailure, SInv, NoSpinner, runVars
<1>3. CASE Release
  <2>1. review' = review /\ selected' = {}
    BY <1>3 DEF Release
  <2>2. NoSpinner'
    BY <2>1 DEF SInv, NoSpinner, NothingRunning
  <2> QED BY <1>1, <2>2, LeavesSInv
<1>4. CASE Restart
  <2>1. review'.status = "pending"
    BY <1>4, NewReviewType DEF Restart
  <2> QED BY <1>1, <2>1, LeavesSInv DEF NoSpinner
<1> QED BY <1>2, <1>3, <1>4

LEMMA NextSInv == IInv /\ IInv' /\ SInv /\ [Next]_vars => SInv'
<1> SUFFICES ASSUME IInv, IInv', SInv, [Next]_vars PROVE SInv'
  OBVIOUS
<1>1. ASSUME NEW h \in Rerunners, (\E a \in Agents : RerunRead(h, a)) \/ RerunRefused(h) PROVE SInv'
  BY <1>1, UnmovedSInv DEF RerunRead, RerunRefused
<1>2. ASSUME NEW c \in Cancellers,
             CancelAll(c) \/ (\E a \in Agents : CancelAgent(c, a)) \/ CancelStep(c)
      PROVE  SInv'
  BY <1>2, CancelSInv
<1>3. ASSUME NEW a \in Agents, AgentStep(a) PROVE SInv'
  BY <1>3, AgentSInv
<1>4. CASE FetchStep \/ CheckoutStep
  BY <1>4, GoesOnSInv, StopsSInv DEF FetchStep, CheckoutStep
<1>5. CASE PersistStep
  BY <1>5, WritesSInv, CompletedSInv, StopsSInv DEF PersistStep
<1>6. CASE RunStep
  BY <1>5, <1>6, GoesOnSInv, StopsSInv, RestoreSInv, LastSInv DEF RunStep
<1>7. CASE UNCHANGED vars
  BY <1>7, UnmovedSInv DEF vars
<1> QED BY <1>1, <1>2, <1>3, <1>4, <1>6, <1>7, StartsSInv, LastSInv DEF Next, Exhausted

LEMMA RecordInvariance == Spec => [](IInv /\ SInv)
<1>1. IInv /\ SInv /\ [Next]_vars => (IInv /\ SInv)'
  BY NextIInv, NextSInv
<1> QED BY <1>1, InitIInv, InitSInv, PTL DEF Spec

(* A record that is shown as settled has nothing left running in itself and in    *)
(* the agents that ran, in whatever stage it was stopped or restored; nor in any  *)
(* agent if it failed or was stopped (settleRunningStages, wg.Wait, restore).     *)
THEOREM SettledIsQuiet == Spec => []NoSpinner
<1>1. SInv => NoSpinner
  BY DEF SInv
<1> QED BY <1>1, RecordInvariance, PTL

(* A cancel reaches an agent whichever of it and the session's creation is first  *)
(* (Cancel's collection, progressFor, the check before the prompt).               *)
THEOREM NobodyEscapes == Spec => []CancelReachesAgent
<1>1. SInv => CancelReachesAgent
  BY DEF SInv, Told, CancelReachesAgent
<1> QED BY <1>1, RecordInvariance, PTL

=============================================================================
