----------------------------- MODULE ReviewRun -----------------------------
(***************************************************************************)
(* The life of the reviews of one pull request: orchestrator.Runner and    *)
(* reviewer.Review with the store and opencode around them.                *)
(*                                                                         *)
(* The processes are the goroutine of a run (pc), the goroutine of each    *)
(* agent of that run (apc), and HTTP handlers that cancel (Cancellers) or  *)
(* rerun (Rerunners) at any time.  A step is what happens between two      *)
(* points where another process can see a difference: a critical section   *)
(* of Runner.mu, a database call, a call to opencode, git or GitHub.       *)
(***************************************************************************)
EXTENDS Review, Sequences, FiniteSets

CONSTANTS
  Reviewer,     \* reviewer.AgentReviewer, what an empty selection means
  Rank,         \* an agent's place in reviewer.AgentOrder()
  Cancellers,   \* requests to cancel that may be in progress at once
  Rerunners,    \* requests to rerun an agent that may be in progress at once
  Selections,   \* the agent lists clients send with a start
  Stored,       \* what earlier processes may have left in the store
  MaxRuns       \* bound: runs started in a behaviour, those behind Stored included

ASSUME AgentsAssumption ==
  /\ Reviewer \in Agents
  /\ Rank \in [Agents -> Nat]
  /\ \A a, b \in Agents : Rank[a] = Rank[b] => a = b
ASSUME RunsAssumption == MaxRuns \in Nat /\ Selections \subseteq SUBSET Agents

VARIABLES
  inFlight,     \* Runner.inFlight: the number of the run it holds, 0 for no entry
  runs,         \* how many runs were started
  live,         \* the runs whose goroutine has not returned
  review,       \* activeRun.review; without an entry, what was last published
  whole,        \* activeRun.whole
  marked,       \* activeRun.cancelled
  stopped,      \* runCtx is cancelled
  pc,           \* where the run's goroutine is
  selected,     \* run's parameter agents
  base,         \* run's parameter sessionID, 0 for a first review
  apc,          \* where the goroutine of each agent is
  outcome,      \* agentResult.err of the agents that returned
  opened,       \* the agents whose opencode session id the record holds
  aborted,      \* the agents to whose session an abort was sent
  todo,         \* the agents a loop of persist has still to visit
  target,       \* the row persist writes to
  store,        \* rows of pr_review_sessions with their agents and concerns, by id
  cancel,       \* Cancel handlers between their critical section and their return
  rerun,        \* Rerun handlers between reading the base and Start
  atStart       \* history: the store when the current run started

runVars    == <<selected, base, apc, outcome, opened, todo, target>>
cancelVars == <<whole, marked, stopped, aborted>>
ownVars    == <<inFlight, runs, live, atStart>>
vars == <<ownVars, review, cancelVars, pc, runVars, store, cancel, rerun>>

-----------------------------------------------------------------------------
PCs  == {"idle", "fetch", "checkout", "config", "agents", "session", "clear", "save",
         "concerns", "restore", "persistFailure", "release"}
APCs == {"none", "begin", "create", "ready", "post", "wait", "ended"}

RowAgents == [Agents -> {"none", "done", "error"}]
Row == [status : {"done", "error"}, agents : RowAgents, concerns : [Agents -> Nat]]

NewRow(status) == [status   |-> status,
                   agents   |-> [a \in Agents |-> "none"],
                   concerns |-> [a \in Agents |-> 0]]

\* Earlier processes ran this code too: ConcernsHaveTheirReport below.
ASSUME StoredAssumption ==
  /\ Stored \subseteq Seq(Row)
  /\ \A s \in Stored : \A i \in 1..Len(s) : \A a \in Agents :
       s[i].concerns[a] # 0 => s[i].agents[a] = "done"

NoCancel == [run |-> 0, aborts |-> {}, stop |-> FALSE]
NoRerun  == [agents |-> {}, base |-> NewReview({})]

TypeOK ==
  /\ inFlight \in Nat /\ runs \in Nat /\ live \subseteq Nat
  /\ review \in Review
  /\ whole \in BOOLEAN /\ marked \subseteq Agents
  /\ stopped \in BOOLEAN /\ aborted \subseteq Agents
  /\ pc \in PCs
  /\ selected \subseteq Agents
  /\ base \in Nat
  /\ apc \in [Agents -> APCs]
  /\ outcome \in [Agents -> {"none", "done", "error", "cancelled"}]
  /\ opened \subseteq Agents
  /\ todo \subseteq Agents
  /\ target \in Nat
  /\ store \in Seq(Row) /\ atStart \in Seq(Row)
  /\ cancel \in [Cancellers -> [run : Nat, aborts : SUBSET Agents, stop : BOOLEAN]]
  /\ rerun \in [Rerunners -> [agents : SUBSET Agents, base : Review]]

Init ==
  /\ store \in Stored /\ atStart = store
  /\ inFlight = 0 /\ runs = Len(store) /\ live = {}
  /\ review = NewReview({})
  /\ whole = FALSE /\ marked = {} /\ stopped = FALSE /\ aborted = {}
  /\ pc = "idle"
  /\ selected = {} /\ base = 0
  /\ apc = [a \in Agents |-> "none"]
  /\ outcome = [a \in Agents |-> "none"]
  /\ opened = {} /\ todo = {} /\ target = 0
  /\ cancel = [c \in Cancellers |-> NoCancel]
  /\ rerun = [h \in Rerunners |-> NoRerun]

-----------------------------------------------------------------------------
(* Starting *)

NormaliseAgents(names) == IF names = {} THEN {Reviewer} ELSE names

\* The entry Start makes and the goroutine it launches.
Enter(agents, rv, sessionID) ==
  /\ runs < MaxRuns
  /\ runs' = runs + 1
  /\ inFlight' = runs + 1
  /\ live' = live \cup {runs + 1}
  /\ review' = StartStage([rv EXCEPT !.status = "running"], "fetch")
  /\ whole' = FALSE /\ marked' = {} /\ stopped' = FALSE /\ aborted' = {}
  /\ pc' = "fetch"
  /\ selected' = agents
  /\ base' = sessionID
  /\ apc' = [a \in Agents |-> "none"]
  /\ outcome' = [a \in Agents |-> "none"]
  /\ opened' = {} /\ todo' = {} /\ target' = 0
  /\ atStart' = store
  /\ UNCHANGED <<store, cancel>>

\* The critical section of Start when the map has no entry for the pull request.
\* With one, Start only returns a snapshot of it.
BeginUnguarded(agents, rv, sessionID) == Enter(agents, rv, sessionID)

Begin(agents, rv, sessionID) ==
  /\ inFlight = 0
  /\ Enter(agents, rv, sessionID)

Start(names) ==
  LET agents == NormaliseAgents(names)
  IN  /\ Begin(agents, NewReview(agents), 0)
      /\ UNCHANGED rerun

\* What a client is shown when nothing is in flight and nobody watches: the
\* newest row, with its concerns unless it is the row of a failed review.
Hydrate ==
  LET row == store[Len(store)]
  IN  [NewReview({}) EXCEPT
         !.status    = row.status,
         !.stages    = [s \in ReviewStages |-> "none"],
         !.agents    = [a \in Agents |-> [status |-> row.agents[a], stages |-> NoStages]],
         !.sessionID = Len(store),
         !.concerns  = IF row.status = "error" THEN [a \in Agents |-> 0] ELSE row.concerns]

\* firstReviewWithSession: the record in flight, else the one the hub keeps, which
\* is the last that was published if anybody watches, else the store's.
Bases ==
  IF inFlight # 0 /\ review.sessionID # 0
  THEN {review}
  ELSE (IF inFlight = 0 /\ review.sessionID # 0 THEN {review} ELSE {})
         \cup (IF store # <<>> THEN {Hydrate} ELSE {})

RerunRead(h, a) ==
  /\ rerun[h].agents = {}
  /\ runs < MaxRuns
  /\ \E b \in Bases : rerun' = [rerun EXCEPT ![h] = [agents |-> {a}, base |-> b]]
  /\ UNCHANGED <<ownVars, review, cancelVars, pc, runVars, store, cancel>>

RerunStart(h) ==
  LET agents == rerun[h].agents
      b      == rerun[h].base
  IN  /\ agents # {}
      /\ Begin(agents, SeedFrom(NewReview(agents), b, agents), b.sessionID)
      /\ rerun' = [rerun EXCEPT ![h] = NoRerun]

\* Start found a run in the map.
RerunRefused(h) ==
  /\ rerun[h].agents # {}
  /\ inFlight # 0 \/ runs = MaxRuns
  /\ rerun' = [rerun EXCEPT ![h] = NoRerun]
  /\ UNCHANGED <<ownVars, review, cancelVars, pc, runVars, store, cancel>>

-----------------------------------------------------------------------------
(* Cancelling *)

IsCancelled(a) == whole \/ a \in marked

\* The agents whose opencode session Cancel collects.
AbortablePending(names) == {a \in names : a \in opened /\ review.agents[a].status = "pending"}
Abortable(names) == {a \in names : a \in opened /\ IsOpen(review.agents[a].status)}

CancelMark(c, names, all) ==
  /\ cancel[c] = NoCancel
  /\ inFlight # 0
  /\ whole' = (whole \/ all)
  /\ marked' = marked \cup names
  /\ cancel' = [cancel EXCEPT ![c] =
                  [run |-> inFlight, aborts |-> Abortable(names), stop |-> all]]
  /\ UNCHANGED <<ownVars, review, stopped, aborted, pc, runVars, store, rerun>>

Present == {a \in Agents : review.agents[a].status # "none"}

CancelAll(c)      == CancelMark(c, Present, TRUE)
CancelAgent(c, a) == a \in Present /\ CancelMark(c, {a}, FALSE)

\* POST /session/{id}/abort, outside the lock; the run may be gone by then.
CancelAbort(c, a) ==
  /\ a \in cancel[c].aborts
  /\ cancel' = [cancel EXCEPT ![c].aborts = @ \ {a}]
  /\ aborted' = IF cancel[c].run = inFlight THEN aborted \cup {a} ELSE aborted
  /\ UNCHANGED <<ownVars, review, whole, marked, stopped, pc, runVars, store, rerun>>

\* stopCheckout, when the whole review is cancelled, and the handler's return.
CancelReturn(c) ==
  /\ cancel[c] # NoCancel
  /\ cancel[c].aborts = {}
  /\ cancel' = [cancel EXCEPT ![c] = NoCancel]
  /\ stopped' = (stopped \/ (cancel[c].stop /\ cancel[c].run = inFlight))
  /\ UNCHANGED <<ownVars, review, whole, marked, aborted, pc, runVars, store, rerun>>

-----------------------------------------------------------------------------
(* The run: fetch and checkout *)

\* settle: close the stage the run stopped in, finish, then restore or record.
\* persistFailure and restore follow as steps of their own.
Settle(rv, cause) ==
  /\ review' = Finish(rv, cause)
  /\ pc' = IF cause # "cancelled" THEN "persistFailure"
           ELSE IF base # 0 THEN "restore" ELSE "release"

\* cancelCause
CtxCause == IF stopped THEN "cancelled" ELSE "error"

FetchDone ==
  /\ pc = "fetch"
  /\ review' = StartStage(EndStage(review, "fetch", "nil"), "checkout")
  /\ pc' = "checkout"
  /\ UNCHANGED <<ownVars, cancelVars, runVars, store, cancel, rerun>>

FetchFailed ==
  /\ pc = "fetch"
  /\ Settle(EndStage(review, "fetch", CtxCause), CtxCause)
  /\ UNCHANGED <<ownVars, cancelVars, runVars, store, cancel, rerun>>

CheckoutDone ==
  /\ pc = "checkout"
  /\ review' = EndStage(review, "checkout", "nil")
  /\ pc' = "config"
  /\ UNCHANGED <<ownVars, cancelVars, runVars, store, cancel, rerun>>

CheckoutFailed ==
  /\ pc = "checkout"
  /\ Settle(EndStage(review, "checkout", CtxCause), CtxCause)
  /\ UNCHANGED <<ownVars, cancelVars, runVars, store, cancel, rerun>>

\* ListAgentConfigs, then one goroutine per agent; runCtx plays no part from here.
LaunchAgents ==
  /\ pc = "config"
  /\ pc' = "agents"
  /\ apc' = [a \in Agents |-> IF a \in selected THEN "begin" ELSE "none"]
  /\ UNCHANGED <<ownVars, review, cancelVars, selected, base, outcome, opened, todo,
                 target, store, cancel, rerun>>

ConfigFailed ==
  /\ pc = "config"
  /\ Settle(review, "error")
  /\ UNCHANGED <<ownVars, cancelVars, runVars, store, cancel, rerun>>

-----------------------------------------------------------------------------
(* The run: one agent *)

AgentGoes(a, to) == apc' = [apc EXCEPT ![a] = to]

AgentFrame == UNCHANGED <<ownVars, whole, marked, stopped, pc, selected, base, todo,
                          target, store, cancel, rerun>>

\* stop and fail: the agent returns with cause in the given stage.
AgentEnds(a, stage, cause) ==
  /\ review' = EndAgentStage(review, a, stage, cause)
  /\ outcome' = [outcome EXCEPT ![a] = cause]
  /\ AgentGoes(a, "ended")
  /\ UNCHANGED <<opened, aborted>>
  /\ AgentFrame

AgentStarts(a, stage, to) ==
  /\ review' = StartAgentStage(review, a, stage)
  /\ AgentGoes(a, to)
  /\ UNCHANGED <<outcome, opened, aborted>>
  /\ AgentFrame

\* An agent that was cancelled already returns; and as if it did so past the join.
AgentBeginUnjoined(a) ==
  /\ apc[a] = "begin" /\ ~IsCancelled(a)
  /\ AgentStarts(a, "session", "create")

AgentBegin(a) ==
  /\ apc[a] = "begin"
  /\ IF IsCancelled(a) THEN AgentEnds(a, "session", "cancelled")
                       ELSE AgentStarts(a, "session", "create")

\* CreateSession, and the progress event that carries the session's id: a cancel
\* that came before had no session to abort, so the handler of the event aborts it.
SessionReady(a) ==
  /\ apc[a] = "create"
  /\ review' = EndAgentStage(review, a, "session", "nil")
  /\ opened' = opened \cup {a}
  /\ aborted' = IF IsCancelled(a) THEN aborted \cup {a} ELSE aborted
  /\ AgentGoes(a, "ready")
  /\ UNCHANGED outcome
  /\ AgentFrame

CreateSessionFailed(a) ==
  /\ apc[a] = "create"
  /\ AgentEnds(a, "session", "error")

\* Between the check and the POST of the prompt there is a window ("post").
AgentCheck(a) ==
  /\ apc[a] = "ready"
  /\ IF IsCancelled(a)
     THEN /\ review' = EndAgentStage(review, a, "prompt", "cancelled")
          /\ outcome' = [outcome EXCEPT ![a] = "cancelled"]
          /\ aborted' = aborted \cup {a}
          /\ AgentGoes(a, "ended")
          /\ UNCHANGED opened
          /\ AgentFrame
     ELSE AgentStarts(a, "prompt", "post")

Prompt(a) ==
  /\ apc[a] = "post"
  /\ AgentGoes(a, "wait")
  /\ UNCHANGED <<review, outcome, opened, aborted>>
  /\ AgentFrame

\* The session's messages hold a completed report, whatever the reply says of an
\* error or an abort; it parses or not.
Reported(a) ==
  /\ apc[a] = "wait"
  /\ \E cause \in {"nil", "error"} :
       /\ review' = EndAgentStage(StartAgentStage(EndAgentStage(review, a, "prompt", "nil"),
                                                 a, "parse"),
                                  a, "parse", cause)
       /\ outcome' = [outcome EXCEPT ![a] = StageStatus(cause)]
  /\ AgentGoes(a, "ended")
  /\ UNCHANGED <<opened, aborted>>
  /\ AgentFrame

\* The reply, or the read of the messages, is a transport error: the flag decides.
PromptFailed(a) ==
  /\ apc[a] = "wait"
  /\ AgentEnds(a, "prompt", IF IsCancelled(a) THEN "cancelled" ELSE "error")

\* No report: MessageAbortedError decides, which a stop inside opencode raises too.
NoReport(a) ==
  /\ apc[a] = "wait"
  /\ \E cause \in {"error", "cancelled"} : AgentEnds(a, "prompt", cause)

-----------------------------------------------------------------------------
(* The run: join, and persist statement by statement *)

Ending(cause) == {a \in selected : outcome[a] = cause}
JoinedAny == \E a \in selected : apc[a] = "ended"
Joined == \A a \in selected : apc[a] = "ended"

\* wg.Wait and partition.
JoinCancelled ==
  /\ pc = "agents" /\ Joined
  /\ Ending("cancelled") = selected
  /\ Settle(review, "cancelled")
  /\ UNCHANGED <<ownVars, cancelVars, runVars, store, cancel, rerun>>

JoinFailed ==
  /\ pc = "agents" /\ Joined
  /\ Ending("cancelled") # selected
  /\ Ending("done") = {} /\ base = 0
  /\ Settle(review, "error")
  /\ UNCHANGED <<ownVars, cancelVars, runVars, store, cancel, rerun>>

JoinStore ==
  /\ pc = "agents" /\ Joined
  /\ Ending("cancelled") # selected
  /\ Ending("done") # {} \/ base # 0
  /\ review' = StartStage(review, "store")
  /\ pc' = "session"
  /\ UNCHANGED <<ownVars, cancelVars, runVars, store, cancel, rerun>>

PersistFrame == UNCHANGED <<ownVars, review, cancelVars, selected, base, apc, outcome,
                            opened, cancel, rerun>>

\* reviewer.session: the row of an earlier review, or a new one.
PersistSession ==
  /\ pc = "session"
  /\ IF base # 0
     THEN target' = base /\ UNCHANGED store
     ELSE target' = Len(store) + 1 /\ store' = Append(store, NewRow("done"))
  /\ todo' = selected \ Ending("cancelled")
  /\ pc' = "clear"
  /\ PersistFrame

First(a) == a \in todo /\ \A b \in todo : Rank[a] <= Rank[b]

KeepConcerns(a) ==
  /\ pc = "clear" /\ First(a)
  /\ pc' = "save"
  /\ UNCHANGED <<store, todo, target>>
  /\ PersistFrame

ClearSessionConcerns(a) ==
  /\ pc = "clear" /\ First(a)
  /\ store' = [store EXCEPT ![target].concerns = [b \in Agents |-> 0]]
  /\ pc' = "save"
  /\ UNCHANGED <<todo, target>>
  /\ PersistFrame

ClearConcerns(a) ==
  /\ pc = "clear" /\ First(a)
  /\ store' = [store EXCEPT ![target].concerns[a] = 0]
  /\ pc' = "save"
  /\ UNCHANGED <<todo, target>>
  /\ PersistFrame

SaveAgent(a) ==
  /\ pc = "save" /\ First(a)
  /\ store' = [store EXCEPT ![target].agents[a] = outcome[a]]
  /\ todo' = IF todo = {a} THEN Ending("done") ELSE todo \ {a}
  /\ pc' = IF todo = {a} THEN "concerns" ELSE "clear"
  /\ UNCHANGED target
  /\ PersistFrame

CreateConcern(a) ==
  /\ pc = "concerns" /\ First(a)
  /\ store' = [store EXCEPT ![target].concerns[a] = inFlight]
  /\ todo' = todo \ {a}
  /\ UNCHANGED <<pc, target>>
  /\ PersistFrame

\* Read back what is stored, close the store stage, finish.
CompletedFromMemory ==
  /\ pc = "concerns" /\ todo = {}
  /\ review' = Finish([EndStage(review, "store", "nil")
                         EXCEPT !.sessionID = target,
                                !.concerns = [a \in Agents |-> IF outcome[a] = "done"
                                                               THEN inFlight ELSE 0]], "nil")
  /\ pc' = "release"
  /\ UNCHANGED <<ownVars, cancelVars, runVars, store, cancel, rerun>>

Completed ==
  /\ pc = "concerns" /\ todo = {}
  /\ review' = Finish([MergeStoredAgents(EndStage(review, "store", "nil"),
                                         store[target].agents)
                         EXCEPT !.sessionID = target,
                                !.concerns = store[target].concerns], "nil")
  /\ pc' = "release"
  /\ UNCHANGED <<ownVars, cancelVars, runVars, store, cancel, rerun>>

\* Any statement of persist can fail, and what was written before it stays.
PersistFailed ==
  /\ pc \in {"session", "clear", "save", "concerns"}
  /\ Settle(EndStage(review, "store", "error"), "error")
  /\ UNCHANGED <<ownVars, cancelVars, runVars, store, cancel, rerun>>

-----------------------------------------------------------------------------
(* The run: after a failure or a cancellation, and the release *)

\* persistFailure, with the insert failing or not; and as if a rerun recorded its
\* failure too.
PersistFailureAlways ==
  /\ pc = "persistFailure"
  /\ \/ UNCHANGED store
     \/ store' = Append(store, NewRow("error"))
  /\ pc' = "release"
  /\ UNCHANGED <<ownVars, review, cancelVars, runVars, cancel, rerun>>

PersistFailure ==
  /\ pc = "persistFailure"
  /\ \/ UNCHANGED store
     \/ review.sessionID = 0 /\ store' = Append(store, NewRow("error"))
  /\ pc' = "release"
  /\ UNCHANGED <<ownVars, review, cancelVars, runVars, cancel, rerun>>

ClearStages(rv) == [rv EXCEPT !.agents = [a \in Agents |-> [@[a] EXCEPT !.stages = NoStages]]]

Restore ==
  /\ pc = "restore"
  /\ review' = [MergeStoredAgents(ClearStages(review), store[base].agents)
                  EXCEPT !.status = "done", !.concerns = store[base].concerns]
  /\ pc' = "release"
  /\ UNCHANGED <<ownVars, cancelVars, runVars, store, cancel, rerun>>

RestoreFailed ==
  /\ pc = "restore"
  /\ pc' = "release"
  /\ UNCHANGED <<ownVars, review, cancelVars, runVars, store, cancel, rerun>>

Release ==
  /\ pc = "release"
  /\ pc' = "idle"
  /\ live' = live \ {inFlight}
  /\ inFlight' = 0
  /\ apc' = [a \in Agents |-> "none"]
  /\ outcome' = [a \in Agents |-> "none"]
  /\ whole' = FALSE /\ marked' = {} /\ stopped' = FALSE /\ aborted' = {}
  /\ selected' = {} /\ base' = 0 /\ opened' = {} /\ todo' = {} /\ target' = 0
  /\ UNCHANGED <<runs, atStart, review, store, cancel, rerun>>

\* The process dies in the middle of a run and starts again: rows written so far
\* stay, everything else is gone (newRunner).
Restart ==
  /\ inFlight # 0
  /\ pc' = "idle"
  /\ inFlight' = 0 /\ live' = {}
  /\ review' = NewReview({})
  /\ apc' = [a \in Agents |-> "none"]
  /\ outcome' = [a \in Agents |-> "none"]
  /\ whole' = FALSE /\ marked' = {} /\ stopped' = FALSE /\ aborted' = {}
  /\ selected' = {} /\ base' = 0 /\ opened' = {} /\ todo' = {} /\ target' = 0
  /\ cancel' = [c \in Cancellers |-> NoCancel]
  /\ rerun' = [h \in Rerunners |-> NoRerun]
  /\ UNCHANGED <<runs, atStart, store>>

-----------------------------------------------------------------------------
AgentStep(a) ==
  \/ AgentBegin(a) \/ SessionReady(a) \/ CreateSessionFailed(a)
  \/ AgentCheck(a) \/ Prompt(a)
  \/ Reported(a)   \/ PromptFailed(a) \/ NoReport(a)

PersistStep ==
  \/ PersistSession
  \/ \E a \in Agents : ClearConcerns(a) \/ SaveAgent(a) \/ CreateConcern(a)
  \/ Completed \/ PersistFailed

FetchStep    == FetchDone \/ FetchFailed
CheckoutStep == CheckoutDone \/ CheckoutFailed

RunStep ==
  \/ LaunchAgents \/ ConfigFailed
  \/ JoinCancelled \/ JoinFailed \/ JoinStore
  \/ PersistStep
  \/ PersistFailure \/ Restore \/ RestoreFailed
  \/ Release

CancelStep(c) == (\E a \in Agents : CancelAbort(c, a)) \/ CancelReturn(c)

\* Not a step of the program: the bound MaxRuns is reached and nothing goes on.
Exhausted ==
  /\ runs = MaxRuns /\ inFlight = 0
  /\ UNCHANGED vars

Next ==
  \/ \E names \in Selections : Start(names)
  \/ \E h \in Rerunners : (\E a \in Agents : RerunRead(h, a)) \/ RerunStart(h) \/ RerunRefused(h)
  \/ \E c \in Cancellers : CancelAll(c) \/ (\E a \in Agents : CancelAgent(c, a)) \/ CancelStep(c)
  \/ FetchStep \/ CheckoutStep \/ RunStep
  \/ \E a \in Agents : AgentStep(a)
  \/ Restart
  \/ Exhausted

Spec == Init /\ [][Next]_vars

(***************************************************************************)
(* The goroutines run, GitHub and opencode answer or time out (30 seconds, *)
(* 5 minutes), and so does an abort.  Nothing bounds a checkout: it waits  *)
(* for the repository's lock, which knows no context, and for the output   *)
(* of git, which what git started may hold open after git is killed.  So   *)
(* it need not end even when it is cancelled.  Clients owe nothing.        *)
(***************************************************************************)
Fairness ==
  /\ WF_vars(FetchStep)
  /\ WF_vars(RunStep)
  /\ \A a \in Agents : WF_vars(AgentStep(a))
  /\ \A c \in Cancellers : WF_vars(CancelStep(c))

FairSpec == Spec /\ Fairness

-----------------------------------------------------------------------------
(* Properties *)

\* One review at a time: a goroutine runs exactly for the entry of the map, so no
\* two runs of a pull request ever overlap (Runner.Start, Runner.release).
SingleFlight == live = IF inFlight = 0 THEN {} ELSE {inFlight}

\* A review shown as settled has nothing left running, at the level of the review
\* and in the agents that ran; one that failed or was stopped has nothing open in
\* any agent, kept ones included.  The agents a completed rerun keeps are as they were
\* in its base, and so outside it (Review.finish, settleRunningStages, wg.Wait).
NothingRunning(rv, agents) ==
  /\ \A s \in ReviewStages : rv.stages[s] # "running"
  /\ \A a \in agents : /\ ~IsOpen(rv.agents[a].status)
                       /\ \A s \in AgentStages : rv.agents[a].stages[s] # "running"

NoSpinner ==
  /\ review.status \in {"error", "cancelled"} => NothingRunning(review, Agents)
  /\ review.status = "done" => NothingRunning(review, selected)

\* What a run may rewrite of the reviews stored before it started: the agents it
\* was asked to rerun and that were not cancelled, in the row it reruns, nothing
\* else; and a run that ends as cancelled wrote nothing (the loop of persist that
\* skips ErrCancelled, Review's early return, settle).
OnlyRerunRewritten ==
  inFlight # 0 =>
    /\ review.status = "cancelled" => store = atStart
    /\ \A i \in 1..Len(atStart) :
         /\ store[i].status = atStart[i].status
         /\ \A a \in Agents :
              \/ /\ store[i].agents[a]   = atStart[i].agents[a]
                 /\ store[i].concerns[a] = atStart[i].concerns[a]
              \/ i = base /\ a \in selected /\ outcome[a] # "cancelled"

\* Wherever persist stops, concerns are stored only beside an agent that succeeded:
\* a failed rerun never leaves the concerns of the earlier one under its error.
ConcernsHaveTheirReport ==
  \A i \in 1..Len(store) : \A a \in Agents :
    store[i].concerns[a] # 0 => store[i].agents[a] = "done"

\* The last snapshot of a review that completed, or was restored, shows the stored
\* agents and concerns, and the concerns of an agent that ran are this run's.
FinalMatchesStore ==
  pc = "release" /\ review.status = "done" =>
    LET row == store[review.sessionID]
    IN  \A a \in Agents :
          /\ review.concerns[a] = row.concerns[a]
          /\ row.agents[a] # "none" => review.agents[a].status = row.agents[a]
          /\ outcome[a] = "done" => row.concerns[a] = inFlight
          /\ outcome[a] = "error" => row.concerns[a] = 0 /\ row.agents[a] = "error"

\* An agent that was cancelled before its prompt returned is not left to the model:
\* an abort of its session was sent or is about to be, whichever of the cancel and
\* the creation of the session came first (Cancel's collection, progressFor).
CancelReachesAgent ==
  \A a \in Agents :
    apc[a] \in {"post", "wait"} /\ IsCancelled(a) =>
      a \in aborted \/ \E c \in Cancellers : cancel[c].run = inFlight /\ a \in cancel[c].aborts

\* Once a run is settled only restore touches its record: no event of an agent
\* arrives after it (the join in reviewer.Review).
NoLateProgress ==
  [][inFlight' = inFlight /\ inFlight # 0 /\ IsSettled(review) /\ review' # review =>
       review.status = "cancelled" /\ review'.status = "done"]_vars

\* A run that is past its checkout ends, whichever of its agents are cancelled and when,
\* and whatever fails: every agent reaches the join, and every way out of it the release.
ReviewEnds ==
  \A n \in 1..MaxRuns : (inFlight = n /\ pc = "config") ~> (inFlight # n)

\* What a reader of the record and the rows sees of where the run is.
Phase ==
  CASE pc = "idle"                           -> "idle"
    [] pc \in {"clear", "save", "concerns"}  -> "storing"
    [] pc \in {"restore", "persistFailure"}  -> "settling"
    [] pc = "release"                        -> "over"
    [] OTHER                                 -> "running"

Statuses == [i \in 1..Len(store) |-> store[i].status]

Life == INSTANCE ReviewLife WITH
          phase <- Phase, status <- review.status, again <- (base # 0), stored <- Statuses

\* Whatever the handlers, the agents and the statements of persist do to each other,
\* a reader sees ReviewLife: a run that is stopped adds no row, a rerun never adds
\* one, a first review adds its own at most once and a failure one error after it
\* (Runner.Start, Reviewer.session, Runner.settle, persistFailure, restore).
ImplementsLife == Life!Spec

\* todo.txt of a cancelled rerun: nothing is persisted and the previous stored
\* review stays intact (Runner.Cancel, runAgent, persist).
CancelledRerunPersistsNothing ==
  [][inFlight # 0 /\ base # 0 /\ whole => store' = store]_vars
=============================================================================
