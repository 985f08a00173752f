------------------------------ MODULE Streams ------------------------------
(***************************************************************************)
(* How a review reaches the browsers: orchestrator.Hub and Subscription,   *)
(* Orchestrator.Subscribe and SubscribeAll, the server's SSE handlers and  *)
(* the state their two kinds of client keep.                               *)
(*                                                                         *)
(* The threads are the goroutine of the run of each pull request and those *)
(* of its agents (Workers); they mutate the record under Runner.mu, then   *)
(* publish the clone they took outside it.  The subscribers are the SSE    *)
(* handlers with the client behind them: Watchers follow one pull request, *)
(* Globals follow all.  The content of a record is its run, the number of  *)
(* the update and the status; ReviewRun models what the updates are.       *)
(***************************************************************************)
EXTENDS Naturals, FiniteSets

CONSTANTS
  Keys,         \* the pull requests, and their runs' goroutines
  Workers,      \* the agents' goroutines
  Watchers,     \* subscribers to one pull request
  Globals,      \* subscribers to all
  KeyOf,        \* the pull request of a worker or a watcher
  MaxRuns,      \* bound: runs of a pull request
  MaxUpdates    \* bound: updates of a record before its last

Subs    == Watchers \cup Globals
Threads == Keys \cup Workers

ASSUME StreamsAssumption ==
  /\ Watchers \cap Globals = {} /\ Keys \cap Workers = {}
  /\ KeyOf \in [Workers \cup Watchers -> Keys]
  /\ MaxRuns \in Nat /\ MaxUpdates \in Nat

VARIABLES
  record,       \* Runner.inFlight, by pull request
  phase,        \* how far a run is
  runs,         \* how many runs a pull request has had
  stored,       \* its newest row, as hydrate returns it
  thread,       \* where a thread is in Hub.Publish
  entry,        \* hubEntry.review, by pull request; it counts while somebody watches
  members,      \* the subscriptions the hub knows
  pending,      \* Subscription.pending
  signal,       \* Subscription.signal holds a token
  closed,       \* Subscription.closed
  at,           \* where a subscriber's handler is
  held,         \* the seed, then the snapshot, a handler is about to use
  shown,        \* what the client behind it displays, by pull request
  panicked,     \* the process died of a send on a closed channel
  reached       \* history: the last run settled while a subscriber was a member

runVars == <<record, phase, runs, stored>>
hubVars == <<entry, members, reached>>
subVars == <<pending, signal, closed>>
cliVars == <<at, held, shown>>
vars    == <<runVars, thread, hubVars, subVars, cliVars, panicked>>

-----------------------------------------------------------------------------
Settled == {"done", "error", "cancelled"}
Snap    == [run : Nat, update : Nat, status : Settled \cup {"none", "running"}]
NoSnap  == [run |-> 0, update |-> 0, status |-> "none"]

Idle   == [pc |-> "idle", snap |-> NoSnap, left |-> {}]
Thread == [pc : {"idle", "publish", "push"}, snap : Snap, left : SUBSET Subs]
            \cup [pc : {"signal"}, snap : Snap, left : SUBSET Subs, to : Subs]

PRKey(t) == IF t \in Keys THEN t ELSE KeyOf[t]

TypeOK ==
  /\ record \in [Keys -> Snap] /\ entry \in [Keys -> Snap]
  /\ stored \in [Keys -> [run : Nat, update : {0}, status : {"none", "done", "error"}]]
  /\ phase \in [Keys -> {"none", "early", "agents", "persisted", "finished", "recorded"}]
  /\ runs \in [Keys -> 0..MaxRuns]
  /\ thread \in [Threads -> Thread]
  /\ members \subseteq Subs
  /\ pending \in [Subs -> [Keys -> Snap]]
  /\ signal \in [Subs -> BOOLEAN] /\ closed \in [Subs -> BOOLEAN]
  /\ at \in [Subs -> {"off", "missing", "hydrate", "seeded", "joined", "on", "pump",
                      "take", "gone"}]
  /\ held \in [Subs -> [Keys -> Snap]] /\ shown \in [Subs -> [Keys -> Snap]]
  /\ panicked \in BOOLEAN
  /\ reached \in [Subs -> [Keys -> 0..MaxRuns]]

Nothing == [k \in Keys |-> NoSnap]

Init ==
  /\ record = Nothing /\ entry = Nothing
  /\ stored \in [Keys -> {NoSnap, [NoSnap EXCEPT !.status = "done"]}]
  /\ phase = [k \in Keys |-> "none"] /\ runs = [k \in Keys |-> 0]
  /\ thread = [t \in Threads |-> Idle]
  /\ members = {}
  /\ pending = [s \in Subs |-> Nothing]
  /\ signal = [s \in Subs |-> FALSE] /\ closed = [s \in Subs |-> FALSE]
  /\ at = [s \in Subs |-> "off"]
  /\ held = [s \in Subs |-> Nothing] /\ shown = [s \in Subs |-> Nothing]
  /\ panicked = FALSE
  /\ reached = [s \in Subs |-> [k \in Keys |-> 0]]

-----------------------------------------------------------------------------
(* The runs. mutate changes the record and takes its clone in one critical *)
(* section; what follows is the thread's own.                              *)

Mutate(t, snap) ==
  /\ thread[t].pc = "idle"
  /\ record' = [record EXCEPT ![PRKey(t)] = snap]
  /\ thread' = [thread EXCEPT ![t] = [pc |-> "publish", snap |-> snap, left |-> {}]]

PhaseGoes(k, to) == phase' = [phase EXCEPT ![k] = to]

\* The process has not died, and does not in this step.
Alive == ~panicked /\ panicked' = FALSE

Elsewhere == UNCHANGED <<hubVars, subVars, cliVars>> /\ Alive

Start(k) ==
  /\ record[k] = NoSnap
  /\ runs[k] < MaxRuns
  /\ Mutate(k, [run |-> runs[k] + 1, update |-> 1, status |-> "running"])
  /\ runs' = [runs EXCEPT ![k] = @ + 1]
  /\ PhaseGoes(k, "early")
  /\ UNCHANGED stored
  /\ Elsewhere

\* The run's own updates before its agents start and after they return, and theirs.
Update(t) ==
  LET k == PRKey(t)
  IN  /\ phase[k] \in IF t \in Keys THEN {"early", "persisted"} ELSE {"agents"}
      /\ record[k].update < MaxUpdates
      /\ Mutate(t, [record[k] EXCEPT !.update = @ + 1])
      /\ UNCHANGED <<phase, runs, stored>>
      /\ Elsewhere

Launch(k) ==
  /\ phase[k] = "early" /\ thread[k].pc = "idle"
  /\ PhaseGoes(k, "agents")
  /\ UNCHANGED <<record, runs, stored, thread>>
  /\ Elsewhere

\* An agent's goroutine returns only when its last publish has.
JoinedSome(k) == \/ \A w \in Workers : KeyOf[w] # k
                 \/ \E w \in Workers : KeyOf[w] = k /\ thread[w].pc = "idle"
Joined(k) == \A w \in Workers : KeyOf[w] = k => thread[w].pc = "idle"

PersistRaw(k) ==
  /\ phase[k] = "agents" /\ Joined(k) /\ thread[k].pc = "idle"
  /\ stored' = [stored EXCEPT ![k] = [record[k] EXCEPT !.update = 0]]
  /\ PhaseGoes(k, "persisted")
  /\ UNCHANGED <<record, runs, thread>>
  /\ Elsewhere

Persist(k) ==
  /\ phase[k] = "agents" /\ Joined(k) /\ thread[k].pc = "idle"
  /\ stored' = [stored EXCEPT ![k] = [record[k] EXCEPT !.update = 0, !.status = "done"]]
  /\ PhaseGoes(k, "persisted")
  /\ UNCHANGED <<record, runs, thread>>
  /\ Elsewhere

\* finish: done once it is stored, an error or a cancellation at any point.
Finish(k, status) ==
  /\ \/ phase[k] = "persisted" /\ status \in {"done", "error"}
     \/ phase[k] = "early" /\ status # "done"
     \/ phase[k] = "agents" /\ Joined(k) /\ status # "done"
  /\ Mutate(k, [record[k] EXCEPT !.update = @ + 1, !.status = status])
  /\ PhaseGoes(k, "finished")
  /\ UNCHANGED <<runs, stored>>
  /\ Elsewhere

\* persistFailure. A row has no update number: what is hydrated from it has 0.
PersistFailure(k) ==
  /\ phase[k] = "finished" /\ thread[k].pc = "idle" /\ record[k].status = "error"
  /\ stored' = [stored EXCEPT ![k] = [record[k] EXCEPT !.update = 0]]
  /\ PhaseGoes(k, "recorded")
  /\ UNCHANGED <<record, runs, thread>>
  /\ Elsewhere

\* restore, when a rerun was cancelled: one more update of a settled record.
Restore(k) ==
  /\ phase[k] = "finished" /\ record[k].status = "cancelled" /\ stored[k] # NoSnap
  /\ Mutate(k, [record[k] EXCEPT !.update = @ + 1, !.status = "done"])
  /\ PhaseGoes(k, "recorded")
  /\ UNCHANGED <<runs, stored>>
  /\ Elsewhere

Release(k) ==
  /\ phase[k] \in {"finished", "recorded"} /\ thread[k].pc = "idle"
  /\ record' = [record EXCEPT ![k] = NoSnap]
  /\ PhaseGoes(k, "none")
  /\ UNCHANGED <<runs, stored, thread>>
  /\ Elsewhere

-----------------------------------------------------------------------------
(* Hub.Publish: collect under the hub's lock, then push one by one *)

WatchersOf(k) == {w \in members \cap Watchers : KeyOf[w] = k}

Audience(k) == (members \cap Globals) \cup WatchersOf(k)

Onward(t, left) == IF left = {} THEN Idle
                  ELSE [pc |-> "push", snap |-> thread[t].snap, left |-> left]

Publish(t) ==
  LET k    == PRKey(t)
      snap == thread[t].snap
      subs == Audience(k)
  IN  /\ thread[t].pc = "publish"
      /\ entry' = [entry EXCEPT ![k] = IF WatchersOf(k) = {} THEN @ ELSE snap]
      /\ thread' = [thread EXCEPT ![t] = Onward(t, subs)]
      /\ reached' = [s \in Subs |->
           IF s \in members /\ (s \in Watchers => KeyOf[s] = k) /\ snap.status \in Settled
           THEN [reached[s] EXCEPT ![k] = snap.run]
           ELSE reached[s]]
      /\ UNCHANGED <<runVars, members, subVars, cliVars>> /\ Alive

\* What is pending already is kept: the older snapshot wins.
PushUnlessPending(t, s) ==
  /\ thread[t].pc = "push" /\ s \in thread[t].left
  /\ IF closed[s] \/ pending[s][PRKey(t)] # NoSnap
     THEN /\ thread' = [thread EXCEPT ![t] = Onward(t, thread[t].left \ {s})]
          /\ UNCHANGED pending
     ELSE /\ pending' = [pending EXCEPT ![s][PRKey(t)] = thread[t].snap]
          /\ thread' = [thread EXCEPT ![t] = [pc |-> "signal", snap |-> thread[t].snap,
                                              left |-> thread[t].left \ {s}, to |-> s]]
  /\ UNCHANGED <<runVars, hubVars, signal, closed, cliVars>> /\ Alive

\* One slot for whatever came last, of any pull request.
PushOneSlot(t, s) ==
  /\ thread[t].pc = "push" /\ s \in thread[t].left
  /\ IF closed[s]
     THEN /\ thread' = [thread EXCEPT ![t] = Onward(t, thread[t].left \ {s})]
          /\ UNCHANGED pending
     ELSE /\ pending' = [pending EXCEPT ![s] = [Nothing EXCEPT ![PRKey(t)] = thread[t].snap]]
          /\ thread' = [thread EXCEPT ![t] = [pc |-> "signal", snap |-> thread[t].snap,
                                              left |-> thread[t].left \ {s}, to |-> s]]
  /\ UNCHANGED <<runVars, hubVars, signal, closed, cliVars>> /\ Alive

\* push, its locked half: a closed subscription is skipped.
Push(t, s) ==
  /\ thread[t].pc = "push" /\ s \in thread[t].left
  /\ IF closed[s]
     THEN /\ thread' = [thread EXCEPT ![t] = Onward(t, thread[t].left \ {s})]
          /\ UNCHANGED pending
     ELSE /\ pending' = [pending EXCEPT ![s][PRKey(t)] = thread[t].snap]
          /\ thread' = [thread EXCEPT ![t] = [pc |-> "signal", snap |-> thread[t].snap,
                                              left |-> thread[t].left \ {s}, to |-> s]]
  /\ UNCHANGED <<runVars, hubVars, signal, closed, cliVars>> /\ Alive

\* With an unbuffered channel the token needs a pump that is waiting.
SignalUnbuffered(t) ==
  /\ ~panicked
  /\ thread[t].pc = "signal"
  /\ panicked' = closed[thread[t].to]
  /\ signal' = [signal EXCEPT ![thread[t].to] = at[thread[t].to] = "pump" /\ ~closed[thread[t].to]]
  /\ thread' = [thread EXCEPT ![t] = Onward(t, thread[t].left)]
  /\ UNCHANGED <<runVars, hubVars, pending, closed, cliVars>>

\* push, its send: outside the lock, so the channel may be closed by now, and a send
\* on a closed channel panics in a select with a default too.
Signal(t) ==
  /\ ~panicked
  /\ thread[t].pc = "signal"
  /\ panicked' = closed[thread[t].to]
  /\ signal' = [signal EXCEPT ![thread[t].to] = ~closed[thread[t].to]]
  /\ thread' = [thread EXCEPT ![t] = Onward(t, thread[t].left)]
  /\ UNCHANGED <<runVars, hubVars, pending, closed, cliVars>>

-----------------------------------------------------------------------------
(* Subscribing *)

Goes(s, to) == at' = [at EXCEPT ![s] = to]

Holds(s, k, snap) == held' = [held EXCEPT ![s] = [Nothing EXCEPT ![k] = snap]]

SubFrame == UNCHANGED <<runVars, thread, subVars>> /\ Alive

\* Orchestrator.Subscribe: the run in flight, or without one and without watchers
\* the stored review, and only then the registration.
SeedInFlight(w) ==
  LET k == KeyOf[w]
  IN  /\ at[w] = "off"
      /\ Holds(w, k, record[k])
      /\ Goes(w, IF record[k] = NoSnap THEN "missing" ELSE "seeded")
      /\ UNCHANGED <<hubVars, shown>> /\ SubFrame

SeedWatching(w) ==
  /\ at[w] = "missing"
  /\ Goes(w, IF WatchersOf(KeyOf[w]) = {} THEN "hydrate" ELSE "seeded")
  /\ UNCHANGED <<hubVars, held, shown>> /\ SubFrame

Hydrate(w) ==
  /\ at[w] = "hydrate"
  /\ Holds(w, KeyOf[w], stored[KeyOf[w]])
  /\ Goes(w, "seeded")
  /\ UNCHANGED <<hubVars, shown>> /\ SubFrame

\* Hub.Subscribe: the seed counts for the first watcher only.
Subscribe(w) ==
  LET k    == KeyOf[w]
      snap == IF WatchersOf(k) = {} THEN held[w][k] ELSE entry[k]
  IN  /\ at[w] = "seeded"
      /\ members' = members \cup {w}
      /\ entry' = [entry EXCEPT ![k] = snap]
      /\ Holds(w, k, snap)
      /\ Goes(w, "on")
      /\ UNCHANGED <<reached, shown>> /\ SubFrame

\* Orchestrator.SubscribeAll: the registration first, then Active.
SubscribeAll(g) ==
  /\ at[g] = "off"
  /\ members' = members \cup {g}
  /\ Goes(g, "joined")
  /\ UNCHANGED <<entry, reached, held, shown>> /\ SubFrame

Active(g) ==
  /\ at[g] = "joined"
  /\ held' = [held EXCEPT ![g] = record]
  /\ Goes(g, "on")
  /\ UNCHANGED <<hubVars, shown>> /\ SubFrame

-----------------------------------------------------------------------------
(* pumpReviews and the client *)

\* The snapshot event: the client takes it as it is, finished reviews included.
WriteSnapshot(s) ==
  /\ at[s] = "on"
  /\ shown' = [shown EXCEPT ![s] = held[s]]
  /\ held' = [held EXCEPT ![s] = Nothing]
  /\ Goes(s, "pump")
  /\ UNCHANGED hubVars /\ SubFrame

Ready(s) ==
  /\ at[s] = "pump" /\ signal[s]
  /\ signal' = [signal EXCEPT ![s] = FALSE]
  /\ Goes(s, "take")
  /\ UNCHANGED <<runVars, thread, hubVars, pending, closed, held, shown>> /\ Alive

\* A review event: a list of active reviews drops a finished one.
Displayed(s, old, new) ==
  IF new = NoSnap THEN old
  ELSE IF s \in Globals /\ new.status \in Settled THEN NoSnap
  ELSE new

Take(s) ==
  /\ at[s] = "take"
  /\ shown' = [shown EXCEPT ![s] = [k \in Keys |->
                 Displayed(s, shown[s][k], pending[s][k])]]
  /\ pending' = [pending EXCEPT ![s] = Nothing]
  /\ Goes(s, "pump")
  /\ UNCHANGED <<runVars, thread, hubVars, signal, closed, held>> /\ Alive

\* The client is gone: the deferred Unsubscribe takes the subscription out of the
\* hub, its entry with the last watcher, and closes its channel. A client that comes
\* back is a new subscriber.
Unsubscribe(s) ==
  /\ s \in members
  /\ members' = members \ {s}
  /\ entry' = [k \in Keys |-> IF WatchersOf(k) = {s} THEN NoSnap ELSE entry[k]]
  /\ closed' = [closed EXCEPT ![s] = TRUE]
  /\ Goes(s, "gone")
  /\ pending' = [pending EXCEPT ![s] = Nothing]
  /\ signal' = [signal EXCEPT ![s] = FALSE]
  /\ held' = [held EXCEPT ![s] = Nothing] /\ shown' = [shown EXCEPT ![s] = Nothing]
  /\ reached' = [reached EXCEPT ![s] = [k \in Keys |-> 0]]
  /\ UNCHANGED <<runVars, thread>> /\ Alive

-----------------------------------------------------------------------------
RunStep(k) ==
  \/ Start(k) \/ Launch(k) \/ Persist(k)
  \/ (\E status \in Settled : Finish(k, status))
  \/ PersistFailure(k) \/ Restore(k) \/ Release(k)

PublishStep(t) == Publish(t) \/ (\E s \in Subs : Push(t, s)) \/ Signal(t)

PumpStep(s) == WriteSnapshot(s) \/ Ready(s) \/ Take(s)

SeedStep(w) == SeedInFlight(w) \/ SeedWatching(w) \/ Hydrate(w) \/ Subscribe(w)

Next ==
  \/ \E k \in Keys : RunStep(k)
  \/ \E t \in Threads : Update(t) \/ PublishStep(t)
  \/ \E w \in Watchers : SeedStep(w)
  \/ \E g \in Globals : SubscribeAll(g) \/ Active(g)
  \/ \E s \in Subs : PumpStep(s) \/ Unsubscribe(s)

Spec == Init /\ [][Next]_vars

(***************************************************************************)
(* Publishing never waits for a subscriber, and the pump of a connected    *)
(* client is a loop over its own channel.  Nothing makes clients come or   *)
(* leave, nor a run go on.                                                 *)
(***************************************************************************)
Fairness ==
  /\ \A t \in Threads : WF_vars(PublishStep(t))
  /\ \A s \in Subs : WF_vars(PumpStep(s) \/ Active(s))

FairSpec == Spec /\ Fairness

-----------------------------------------------------------------------------
(* Properties *)

\* No lost wake-up: while something is pending for a connected client its channel
\* holds a token, its pump is about to take, or a pusher is about to signal
\* (Subscription.push and Take, whose lock the signal is not under).
PendingIsSignalled ==
  \A s \in members :
    pending[s] # Nothing /\ ~panicked =>
      \/ signal[s] \/ at[s] = "take"
      \/ \E t \in Threads : thread[t].pc = "signal" /\ thread[t].to = s

\* A client that follows a review and was shown its end by an event is not shown it
\* running again, whatever order the agents' goroutines publish in (the join before
\* finish). It may be after a hydrated snapshot, update 0: the row is written before
\* the run's last updates.
NoResurrection ==
  [][\A w \in Watchers :
       LET k == KeyOf[w]
       IN  /\ shown[w][k].status \in Settled /\ shown[w][k].update # 0
           /\ shown'[w][k].run = shown[w][k].run
           => shown'[w][k].status \in Settled]_vars

\* The end of a run reaches every client that was a member when it was published: a
\* watcher is shown it or a later run, a list of active reviews no longer has it,
\* unless the client left first (Publish, push, Take, the clients' handlers).
EndReachesMembers ==
  \A s \in Subs : \A k \in Keys : \A n \in 1..MaxRuns :
    reached[s][k] = n ~>
      \/ at[s] = "gone" \/ panicked
      \/ /\ s \in Watchers
         /\ \/ shown[s][k].run = n /\ shown[s][k].status \in Settled
            \/ shown[s][k].run > n
      \/ s \in Globals /\ shown[s][k].run # n

\* All that was published has arrived, and no run is left.
Quiet(s) ==
  /\ ~panicked
  /\ at[s] = "pump" /\ ~signal[s] /\ pending[s] = Nothing
  /\ \A t \in Threads : thread[t].pc = "idle"
  /\ record = Nothing

\* docs/architecture.md: what a review does "reaches the client only on the stream".
\* So when no review is left, no open page shows one as running.
NoneLeftRunning ==
  \A w \in Watchers : Quiet(w) => shown[w][KeyOf[w]].status # "running"

\* push skips a closed subscription, so it never sends on a closed channel.
NoSendOnClosed == ~panicked
=============================================================================
