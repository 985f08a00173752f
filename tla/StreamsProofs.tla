---------------------------- MODULE StreamsProofs ----------------------------
(***************************************************************************)
(* What Hub.Publish, Subscription.push and the pumps promise a client, for *)
(* any pull requests, agents, subscribers and bounds: nothing pending is   *)
(* left without a signal, and an end that was shown is not undone by a     *)
(* message of the same run, whichever goroutine is late.                   *)
(***************************************************************************)
EXTENDS Streams, TLAPS

Flying   == {"early", "agents", "persisted"}
Unjoined == {"off", "missing", "hydrate", "seeded"}

\* The record of a pull request is that of its last run, and settles with finish.
RecordOf(k) ==
  /\ record[k] = NoSnap <=> phase[k] = "none"
  /\ phase[k] # "none" => record[k].run = runs[k] /\ runs[k] # 0 /\ record[k].update # 0
  /\ phase[k] \in Flying => record[k].status = "running"
  /\ phase[k] \in {"finished", "recorded"} => record[k].status \in Settled

Records == \A k \in Keys : RecordOf(k)

\* The run of k with number r has settled its record.
Over(k, r) == r <= runs[k] /\ ~(r = runs[k] /\ phase[k] \in Flying)

\* Nobody has heard of a run that is still to come, or of an end before it; what was
\* published is of some run.
Heard(k, x) ==
  /\ x.run <= runs[k] /\ (x.update # 0 => x.run # 0)
  /\ x.status \in Settled /\ x.update # 0 => Over(k, x.run)

Snaps ==
  /\ \A k \in Keys : Heard(k, record[k]) /\ Heard(k, entry[k]) /\ Heard(k, stored[k])
  /\ \A s \in Subs : \A k \in Keys :
       Heard(k, pending[s][k]) /\ Heard(k, held[s][k]) /\ Heard(k, shown[s][k])
  /\ \A t \in Threads : Heard(PRKey(t), thread[t].snap)

\* The agents' goroutines publish while their run waits for them, and a thread that has
\* still to deliver a running record is of a run that has not settled it.
Goroutines ==
  \A t \in Threads :
    /\ t \in Workers /\ phase[PRKey(t)] # "agents" => thread[t].pc = "idle"
    /\ thread[t].pc # "idle" =>
         /\ thread[t].snap.status # "none"
         /\ thread[t].snap.status = "running" =>
              thread[t].snap.run = runs[PRKey(t)] /\ phase[PRKey(t)] \in Flying

\* Only those that registered are published to.
Registered ==
  /\ \A s \in members : at[s] \notin Unjoined
  /\ \A t \in Threads : \A s \in thread[t].left : at[s] \notin Unjoined
  /\ \A t \in Threads : thread[t].pc = "signal" => at[thread[t].to] \notin Unjoined

\* A client is shown nothing before its snapshot; what is pending for a watcher is
\* not a running record of a run whose end it has been given.
Ended(x, r) == x.status \in Settled /\ x.update # 0 /\ x.run = r

Clients ==
  /\ \A s \in Subs : /\ at[s] \in Unjoined => pending[s] = Nothing
                     /\ at[s] \notin {"pump", "take"} => shown[s] = Nothing
  /\ \A w \in Watchers :
       LET x == pending[w][KeyOf[w]]
       IN  /\ x # NoSnap => x.status # "none"
           /\ x.status = "running" =>
                ~Ended(held[w][KeyOf[w]], x.run) /\ ~Ended(shown[w][KeyOf[w]], x.run)

\* Whoever has something pending is on the way to take it.
Signalled ==
  \A s \in Subs :
    pending[s] # Nothing /\ ~panicked =>
      \/ signal[s] \/ at[s] = "take"
      \/ \E t \in Threads : thread[t].pc = "signal" /\ thread[t].to = s

IInv == TypeOK /\ Records /\ Snaps /\ Goroutines /\ Registered /\ Clients /\ Signalled

-----------------------------------------------------------------------------
LEMMA KeyOfThread == \A t \in Threads : PRKey(t) \in Keys /\ (t \in Keys => PRKey(t) = t)
                                        /\ (t \in Workers => PRKey(t) = KeyOf[t])
BY StreamsAssumption DEF Threads, PRKey

LEMMA WatcherIsSub == Watchers \subseteq Subs /\ \A w \in Watchers : KeyOf[w] \in Keys
BY StreamsAssumption DEF Subs

LEMMA NoSnapIsSnap == /\ NoSnap \in Snap /\ Nothing \in [Keys -> Snap]
                      /\ \A k \in Keys : Nothing[k] = NoSnap
                      /\ NoSnap.run = 0 /\ NoSnap.update = 0 /\ NoSnap.status = "none"
BY DEF NoSnap, Snap, Nothing

LEMMA InitIInv == Init => IInv
<1> SUFFICES ASSUME Init PROVE IInv
  OBVIOUS
<1> USE DEF Init
<1>1. TypeOK
  <2>1. stored \in [Keys -> [run : Nat, update : {0}, status : {"none", "done", "error"}]]
    BY DEF NoSnap
  <2>2. Idle \in Thread
    BY NoSnapIsSnap DEF Idle, Thread
  <2>3. 0 \in 0..MaxRuns
    BY StreamsAssumption
  <2>4. /\ runs \in [Keys -> 0..MaxRuns]
        /\ reached \in [Subs -> [Keys -> 0..MaxRuns]]
    BY <2>3
  <2>5. /\ record \in [Keys -> Snap] /\ entry \in [Keys -> Snap]
        /\ pending \in [Subs -> [Keys -> Snap]]
        /\ held \in [Subs -> [Keys -> Snap]] /\ shown \in [Subs -> [Keys -> Snap]]
    BY NoSnapIsSnap
  <2> QED BY <2>1, <2>2, <2>4, <2>5 DEF TypeOK
<1>2. Records
  BY NoSnapIsSnap DEF Records, RecordOf, Flying
<1>3. Snaps
  <2>1. \A k \in Keys : stored[k].run = 0 /\ stored[k].update = 0
    BY DEF NoSnap
  <2>2. \A t \in Threads : thread[t].snap = NoSnap /\ PRKey(t) \in Keys
    BY KeyOfThread DEF Idle
  <2> QED BY <2>1, <2>2, NoSnapIsSnap DEF Snaps, Heard, Settled
<1>4. Goroutines /\ Registered
  BY DEF Goroutines, Registered, Idle
<1>5. Clients
  BY NoSnapIsSnap, WatcherIsSub DEF Clients
<1>6. Signalled
  BY DEF Signalled
<1> QED BY <1>1, <1>2, <1>3, <1>4, <1>5, <1>6 DEF IInv

-----------------------------------------------------------------------------
(* The runs *)

StoredStates == [run : Nat, update : {0}, status : {"none", "done", "error"}]
Phases == {"none", "early", "agents", "persisted", "finished", "recorded"}
Told(t, snap) == thread' = [thread EXCEPT ![t] = [pc |-> "publish", snap |-> snap, left |-> {}]]

\* A step of the run of k, or of one of its agents, by the thread t: it leaves the other
\* runs alone, no run comes back to life, and no other thread of the run is publishing
\* while it goes from one phase to the next.
RunGoesOn(k, t) ==
  /\ record' \in [Keys -> Snap] /\ stored' \in [Keys -> StoredStates]
  /\ phase' \in [Keys -> Phases] /\ runs' \in [Keys -> 0..MaxRuns]
  /\ \A j \in Keys : j # k => /\ record'[j] = record[j] /\ stored'[j] = stored[j]
                              /\ phase'[j] = phase[j] /\ runs'[j] = runs[j]
  /\ runs[k] <= runs'[k] /\ stored'[k].run <= runs'[k]
  /\ phase'[k] \in Flying => phase[k] \in Flying \/ runs[k] < runs'[k]
  /\ \/ phase'[k] = phase[k] /\ runs'[k] = runs[k]
     \/ \A u \in Threads : PRKey(u) = k => thread[u].pc = "idle"
  /\ \/ UNCHANGED thread
     \/ /\ Told(t, record'[k]) /\ thread[t].pc = "idle"
        /\ phase'[k] # "none" /\ (t \in Keys \/ phase'[k] = "agents")

LEMMA RunFrame ==
  ASSUME IInv, NEW k \in Keys, NEW t \in Threads, PRKey(t) = k, Elsewhere,
         RecordOf(k)', RunGoesOn(k, t)
  PROVE  IInv'
<1> USE NoSnapIsSnap
<1>0. /\ record \in [Keys -> Snap] /\ stored \in [Keys -> StoredStates]
      /\ phase \in [Keys -> Phases] /\ runs \in [Keys -> 0..MaxRuns]
      /\ thread \in [Threads -> Thread] /\ MaxRuns \in Nat
  BY StreamsAssumption DEF IInv, TypeOK, StoredStates, Phases
<1>1. PICK snap \in Snap, ph \in Phases, n \in 0..MaxRuns :
      /\ record' \in [Keys -> Snap] /\ stored' \in [Keys -> StoredStates]
      /\ phase' \in [Keys -> Phases] /\ runs' \in [Keys -> 0..MaxRuns]
      /\ record'[k] = snap /\ phase'[k] = ph /\ runs'[k] = n /\ runs[k] <= n
      /\ stored'[k].run <= n /\ (ph \in Flying => phase[k] \in Flying \/ runs[k] < n)
      /\ \/ ph = phase[k] /\ n = runs[k]
         \/ \A u \in Threads : PRKey(u) = k => thread[u].pc = "idle"
      /\ \/ UNCHANGED thread
         \/ Told(t, snap) /\ thread[t].pc = "idle" /\ ph # "none" /\ (t \in Keys \/ ph = "agents")
  BY DEF RunGoesOn
<1>2. \A j \in Keys : j # k => /\ record'[j] = record[j] /\ stored'[j] = stored[j]
                               /\ phase'[j] = phase[j] /\ runs'[j] = runs[j]
  BY DEF RunGoesOn
<1>3. [pc |-> "publish", snap |-> snap, left |-> {}] \in Thread
  BY <1>1 DEF Thread
<1>4. thread' \in [Threads -> Thread] /\ \A u \in Threads : u # t => thread'[u] = thread[u]
  BY <1>1, <1>0, <1>3 DEF Told
<1>5. UNCHANGED <<hubVars, subVars, cliVars, panicked>>
  <2>1. panicked \in BOOLEAN
    BY DEF IInv, TypeOK
  <2> QED BY <2>1 DEF Elsewhere, Alive
<1>6. TypeOK'
  <2>1. UNCHANGED <<entry, members, reached, pending, signal, closed, at, held, shown, panicked>>
    BY <1>5 DEF hubVars, subVars, cliVars
  <2>2. record' \in [Keys -> Snap] /\ entry' \in [Keys -> Snap]
    BY <1>1, <2>1 DEF IInv, TypeOK
  <2>3. stored' \in [Keys -> [run : Nat, update : {0}, status : {"none", "done", "error"}]]
    BY <1>1 DEF StoredStates
  <2>4. phase' \in [Keys -> {"none", "early", "agents", "persisted", "finished", "recorded"}]
    BY <1>1 DEF Phases
  <2>5. runs' \in [Keys -> 0..MaxRuns] /\ thread' \in [Threads -> Thread] /\ members' \subseteq Subs
    BY <1>1, <1>4, <2>1 DEF IInv, TypeOK
  <2>6. pending' \in [Subs -> [Keys -> Snap]] /\ signal' \in [Subs -> BOOLEAN] /\ closed' \in [Subs -> BOOLEAN]
    BY <2>1 DEF IInv, TypeOK
  <2>7. at' \in [Subs -> {"off", "missing", "hydrate", "seeded", "joined", "on", "pump",
                      "take", "gone"}]
    BY <2>1 DEF IInv, TypeOK
  <2>8. held' \in [Subs -> [Keys -> Snap]] /\ shown' \in [Subs -> [Keys -> Snap]]
        /\ panicked' \in BOOLEAN /\ reached' \in [Subs -> [Keys -> 0..MaxRuns]]
    BY <2>1 DEF IInv, TypeOK
  <2> QED BY <2>2, <2>3, <2>4, <2>5, <2>6, <2>7, <2>8 DEF TypeOK
<1>7. Records'
  BY <1>2 DEF IInv, Records, RecordOf
<1>8. ASSUME NEW j \in Keys, NEW x, x.run \in Nat, Heard(j, x)
      PROVE  x.run <= runs'[j] /\ (x.update # 0 => x.run # 0)
             /\ (x.status \in Settled /\ x.update # 0
                   => x.run <= runs'[j] /\ ~(x.run = runs'[j] /\ phase'[j] \in Flying))
  <2>1. runs[j] \in Nat /\ runs'[j] \in Nat /\ n \in Nat
    BY <1>0, <1>1
  <2> QED BY <2>1, <1>1, <1>2, <1>8 DEF Heard, Over
<1>9. Snaps'
  <2>1. ASSUME NEW j \in Keys PROVE Heard(j, record[j])' /\ Heard(j, stored[j])' /\ Heard(j, entry[j])'
    <3>1. Heard(j, entry[j])'
      BY <1>5, <1>8 DEF IInv, Snaps, TypeOK, Snap, hubVars, Heard, Over
    <3>2. Heard(j, stored[j])'
      <4>1. stored'[j].update = 0
        BY <1>1 DEF StoredStates
      <4>2. stored'[j].run <= runs'[j]
        <5>1. CASE j = k
          BY <5>1, <1>1
        <5>2. CASE j # k
          BY <5>2, <1>2 DEF IInv, Snaps, Heard
        <5> QED BY <5>1, <5>2
      <4> QED BY <4>1, <4>2 DEF Heard
    <3>3. Heard(j, record[j])'
      <4>1. runs'[j] \in Nat /\ record'[j] \in Snap /\ phase'[j] \in Phases
        BY <1>1
      <4>2. RecordOf(j)'
        BY <1>7 DEF Records
      <4> QED BY <4>1, <4>2 DEF RecordOf, Heard, Over, Flying, Phases, Snap, Settled
    <3> QED BY <3>1, <3>2, <3>3
  <2>2. ASSUME NEW s \in Subs, NEW j \in Keys
        PROVE  Heard(j, pending[s][j])' /\ Heard(j, held[s][j])' /\ Heard(j, shown[s][j])'
    <3>1. pending[s][j] \in Snap /\ held[s][j] \in Snap /\ shown[s][j] \in Snap
      BY DEF IInv, TypeOK
    <3> QED BY <3>1, <1>5, <1>8 DEF IInv, Snaps, Snap, subVars, cliVars, Heard, Over
  <2>3. ASSUME NEW u \in Threads PROVE Heard(PRKey(u), thread[u].snap)'
    <3>1. PRKey(u) \in Keys /\ thread[u].snap \in Snap
      BY <1>0, KeyOfThread DEF Thread
    <3>2. CASE thread'[u] = thread[u]
      BY <3>1, <3>2, <1>8 DEF IInv, Snaps, Snap, Heard, Over, PRKey
    <3>3. CASE thread'[u] # thread[u]
      <4>1. u = t /\ thread'[u].snap = snap
        BY <1>1, <3>3, <1>0, <1>4 DEF Told
      <4> QED BY <4>1, <2>1, <1>1 DEF PRKey
    <3> QED BY <3>2, <3>3
  <2> QED BY <2>1, <2>2, <2>3 DEF Snaps
<1>10. Goroutines'
  <2> SUFFICES ASSUME NEW u \in Threads
               PROVE  /\ u \in Workers /\ phase'[PRKey(u)] # "agents" => thread'[u].pc = "idle"
                      /\ thread'[u].pc # "idle" =>
                           /\ thread'[u].snap.status # "none"
                           /\ thread'[u].snap.status = "running" =>
                                thread'[u].snap.run = runs'[PRKey(u)] /\ phase'[PRKey(u)] \in Flying
    BY DEF Goroutines, PRKey
  <2>1. PRKey(u) \in Keys
    BY KeyOfThread
  <2>2. CASE thread'[u] = thread[u]
    BY <2>1, <2>2, <1>1, <1>2 DEF IInv, Goroutines
  <2>3. CASE thread'[u] # thread[u]
    <3>1. u = t /\ Told(t, snap) /\ ph # "none" /\ (t \in Keys \/ ph = "agents")
      BY <1>1, <2>3, <1>4
    <3>2. thread'[u].snap = snap
      BY <3>1, <1>0 DEF Told
    <3>3. t \in Workers => t \notin Keys
      BY StreamsAssumption
    <3>4. snap.status # "none" /\ (snap.status = "running" => snap.run = n /\ ph \in Flying)
      BY <1>1, <3>1 DEF RecordOf, Flying, Phases, Settled
    <3> QED BY <1>1, <3>1, <3>2, <3>3, <3>4
  <2> QED BY <2>2, <2>3
<1>11. Registered'
  <2>1. \A u \in Threads : \/ thread'[u] = thread[u]
                           \/ thread'[u].left = {} /\ thread'[u].pc = "publish"
    BY <1>1, <1>0, <1>4 DEF Told
  <2>2. members' = members /\ at' = at
    BY <1>5 DEF hubVars, cliVars
  <2> QED BY <2>1, <2>2 DEF IInv, Registered
<1>12. Clients'
  BY <1>5 DEF IInv, Clients, subVars, cliVars, Nothing, Subs, Ended
<1>13. Signalled'
  <2>1. \A u \in Threads : thread[u].pc = "signal" => thread'[u] = thread[u]
    BY <1>1, <1>4
  <2> QED BY <1>5, <2>1 DEF IInv, Signalled, subVars, cliVars, Nothing, Subs
<1> QED BY <1>6, <1>7, <1>9, <1>10, <1>11, <1>12, <1>13 DEF IInv

\* finish comes after every goroutine of the run has delivered.
LEMMA AllDelivered ==
  ASSUME IInv, NEW k \in Keys, thread[k].pc = "idle", phase[k] = "agents" => Joined(k)
  PROVE  \A u \in Threads : PRKey(u) = k => thread[u].pc = "idle"
<1> SUFFICES ASSUME NEW u \in Threads, PRKey(u) = k PROVE thread[u].pc = "idle"
  OBVIOUS
<1>1. CASE u \in Keys
  BY <1>1, KeyOfThread
<1>2. CASE u \in Workers
  BY <1>2, KeyOfThread DEF IInv, Goroutines, Joined
<1> QED BY <1>1, <1>2 DEF Threads

\* finish and restore: the next update of a record, which is settled.
LEMMA NextSnap ==
  ASSUME NEW x \in Snap, NEW st \in Settled, NEW y, y = [x EXCEPT !.update = @ + 1, !.status = st]
  PROVE  y \in Snap
<1>1. x.update + 1 \in Nat
  BY DEF Snap
<1>2. ASSUME NEW n \in Nat PROVE [x EXCEPT !.update = n, !.status = st] \in Snap
  BY DEF Snap
<1> QED BY <1>1, <1>2

LEMMA RunStepIInv ==
  ASSUME IInv, NEW k \in Keys, RunStep(k)
  PROVE  IInv'
<1> USE NoSnapIsSnap
<1>0. /\ record \in [Keys -> Snap] /\ stored \in [Keys -> StoredStates]
      /\ phase \in [Keys -> Phases] /\ runs \in [Keys -> 0..MaxRuns]
      /\ k \in Threads /\ PRKey(k) = k /\ MaxRuns \in Nat
      /\ record = [record EXCEPT ![k] = record[k]] /\ stored = [stored EXCEPT ![k] = stored[k]]
      /\ phase = [phase EXCEPT ![k] = phase[k]] /\ runs = [runs EXCEPT ![k] = runs[k]]
  <2>1. /\ record \in [Keys -> Snap] /\ stored \in [Keys -> StoredStates]
        /\ phase \in [Keys -> Phases] /\ runs \in [Keys -> 0..MaxRuns]
    BY DEF IInv, TypeOK, StoredStates, Phases
  <2> QED BY <2>1, KeyOfThread, StreamsAssumption DEF Threads
<1>1. /\ record[k] \in Snap /\ stored[k] \in StoredStates /\ phase[k] \in Phases
      /\ runs[k] \in 0..MaxRuns /\ runs[k] \in Nat /\ stored[k].run <= runs[k] /\ RecordOf(k)
  BY <1>0 DEF IInv, Snaps, Heard, Records
<1>2. CASE Start(k)
  <2> DEFINE snap == [run |-> runs[k] + 1, update |-> 1, status |-> "running"]
  <2>1. record[k] = NoSnap /\ runs[k] < MaxRuns /\ Mutate(k, snap) /\ Elsewhere
        /\ runs' = [runs EXCEPT ![k] = runs[k] + 1] /\ phase' = [phase EXCEPT ![k] = "early"]
        /\ stored' = [stored EXCEPT ![k] = stored[k]]
    BY <1>0, <1>2 DEF Start, PhaseGoes
  <2>2. snap \in Snap /\ runs[k] + 1 \in 0..MaxRuns /\ "early" \in Phases
    BY <1>1, <1>0, <2>1 DEF Snap, Phases
  <2>3. Told(k, snap) /\ thread[k].pc = "idle" /\ record' = [record EXCEPT ![k] = snap]
    BY <1>0, <2>1 DEF Mutate, Told
  <2>4. RecordOf(k)'
    BY <1>0, <2>1, <2>3 DEF RecordOf, Flying, NoSnap
  <2>5. \A u \in Threads : PRKey(u) = k => thread[u].pc = "idle"
    BY <1>1, <2>1, <2>3, AllDelivered DEF RecordOf
  <2>6. runs[k] <= runs[k] + 1 /\ runs[k] < runs[k] + 1 /\ stored[k].run <= runs[k] + 1
    BY <1>1 DEF StoredStates
  <2>7. RunGoesOn(k, k)
    BY <1>0, <1>1, <2>1, <2>2, <2>3, <2>5, <2>6 DEF RunGoesOn, Flying
  <2> QED BY <1>0, <2>1, <2>4, <2>7, RunFrame
<1>3. CASE Launch(k)
  <2>1. phase[k] = "early" /\ thread[k].pc = "idle" /\ UNCHANGED <<record, runs, stored, thread>>
        /\ phase' = [phase EXCEPT ![k] = "agents"] /\ Elsewhere /\ "agents" \in Phases
    BY <1>3 DEF Launch, PhaseGoes, Phases
  <2>2. RecordOf(k)'
    BY <1>0, <1>1, <2>1 DEF RecordOf, Flying
  <2>3. \A u \in Threads : PRKey(u) = k => thread[u].pc = "idle"
    BY <2>1, AllDelivered
  <2>4. RunGoesOn(k, k)
    BY <1>0, <1>1, <2>1, <2>3 DEF RunGoesOn, Flying
  <2> QED BY <1>0, <2>1, <2>2, <2>4, RunFrame
<1>4. CASE Persist(k)
  <2> DEFINE row == [record[k] EXCEPT !.update = 0, !.status = "done"]
  <2>1. phase[k] = "agents" /\ Joined(k) /\ thread[k].pc = "idle" /\ UNCHANGED <<record, runs, thread>>
        /\ stored' = [stored EXCEPT ![k] = row]
        /\ phase' = [phase EXCEPT ![k] = "persisted"] /\ Elsewhere /\ "persisted" \in Phases
    BY <1>4 DEF Persist, PhaseGoes, Phases
  <2>2. RecordOf(k)'
    BY <1>0, <1>1, <2>1 DEF RecordOf, Flying
  <2>3. \A u \in Threads : PRKey(u) = k => thread[u].pc = "idle"
    BY <2>1, AllDelivered
  <2>4. row \in StoredStates /\ row.run = record[k].run
    BY <1>1 DEF Snap, StoredStates
  <2>5. row.run <= runs[k]
    BY <1>1, <2>1, <2>4 DEF RecordOf
  <2> HIDE DEF row
  <2>6. RunGoesOn(k, k)
    BY <1>0, <1>1, <2>1, <2>3, <2>4, <2>5 DEF RunGoesOn, Flying
  <2> QED BY <1>0, <2>1, <2>2, <2>6, RunFrame
<1>5. ASSUME NEW status \in Settled, Finish(k, status) PROVE IInv'
  <2> PICK x \in Snap : x = record[k]
    BY <1>1
  <2>0. PICK snap : snap = [x EXCEPT !.update = @ + 1, !.status = status]
    OBVIOUS
  <2>1. /\ phase[k] \in Flying /\ (phase[k] = "agents" => Joined(k))
        /\ Mutate(k, snap) /\ Elsewhere /\ UNCHANGED <<runs, stored>>
        /\ phase' = [phase EXCEPT ![k] = "finished"] /\ "finished" \in Phases
    BY <2>0, <1>5 DEF Finish, PhaseGoes, Phases, Flying
  <2>2. snap \in Snap /\ snap.run = record[k].run /\ snap.status = status /\ snap.update # 0
    <3>1. snap \in Snap
      BY <2>0, NextSnap
    <3> QED BY <2>0, <3>1 DEF Snap
  <2>3. Told(k, snap) /\ thread[k].pc = "idle" /\ record' = [record EXCEPT ![k] = snap]
    BY <1>0, <2>1 DEF Mutate, Told
  <2>4. RecordOf(k)'
    BY <1>0, <1>1, <2>1, <2>2, <2>3 DEF RecordOf, Flying
  <2>5. \A u \in Threads : PRKey(u) = k => thread[u].pc = "idle"
    BY <2>1, <2>3, AllDelivered
  <2>6. RunGoesOn(k, k)
    BY <1>0, <1>1, <2>1, <2>2, <2>3, <2>5 DEF RunGoesOn, Flying
  <2> QED BY <1>0, <2>1, <2>4, <2>6, RunFrame
<1>6. CASE PersistFailure(k)
  <2> DEFINE row == [record[k] EXCEPT !.update = 0]
  <2>1. phase[k] = "finished" /\ thread[k].pc = "idle" /\ record[k].status = "error"
        /\ UNCHANGED <<record, runs, thread>> /\ stored' = [stored EXCEPT ![k] = row]
        /\ phase' = [phase EXCEPT ![k] = "recorded"] /\ Elsewhere /\ "recorded" \in Phases
    BY <1>6 DEF PersistFailure, PhaseGoes, Phases
  <2>2. RecordOf(k)'
    BY <1>0, <1>1, <2>1 DEF RecordOf, Flying
  <2>3. \A u \in Threads : PRKey(u) = k => thread[u].pc = "idle"
    BY <2>1, AllDelivered
  <2>4. row \in StoredStates /\ row.run = record[k].run
    BY <1>1, <2>1 DEF Snap, StoredStates
  <2>5. row.run <= runs[k]
    BY <1>1, <2>1, <2>4 DEF RecordOf
  <2> HIDE DEF row
  <2>6. RunGoesOn(k, k)
    BY <1>0, <1>1, <2>1, <2>3, <2>4, <2>5 DEF RunGoesOn, Flying
  <2> QED BY <1>0, <2>1, <2>2, <2>6, RunFrame
<1>7. CASE Restore(k)
  <2> PICK x \in Snap : x = record[k]
    BY <1>1
  <2>0. PICK snap : snap = [x EXCEPT !.update = @ + 1, !.status = "done"]
    OBVIOUS
  <2>1. /\ phase[k] = "finished" /\ Mutate(k, snap) /\ Elsewhere /\ UNCHANGED <<runs, stored>>
        /\ phase' = [phase EXCEPT ![k] = "recorded"] /\ "recorded" \in Phases
    BY <2>0, <1>7 DEF Restore, PhaseGoes, Phases
  <2>2. snap \in Snap /\ snap.run = record[k].run /\ snap.status = "done" /\ snap.update # 0
    <3>1. "done" \in Settled
      BY DEF Settled
    <3>2. snap \in Snap
      BY <2>0, <3>1, NextSnap
    <3> QED BY <2>0, <3>2 DEF Snap
  <2>3. Told(k, snap) /\ thread[k].pc = "idle" /\ record' = [record EXCEPT ![k] = snap]
    BY <1>0, <2>1 DEF Mutate, Told
  <2>4. RecordOf(k)'
    BY <1>0, <1>1, <2>1, <2>2, <2>3 DEF RecordOf, Flying, Settled
  <2>5. \A u \in Threads : PRKey(u) = k => thread[u].pc = "idle"
    BY <2>1, <2>3, AllDelivered
  <2>6. RunGoesOn(k, k)
    BY <1>0, <1>1, <2>1, <2>2, <2>3, <2>5 DEF RunGoesOn, Flying
  <2> QED BY <1>0, <2>1, <2>4, <2>6, RunFrame
<1>8. CASE Release(k)
  <2>1. phase[k] \in {"finished", "recorded"} /\ thread[k].pc = "idle" /\ UNCHANGED <<runs, stored, thread>>
        /\ record' = [record EXCEPT ![k] = NoSnap]
        /\ phase' = [phase EXCEPT ![k] = "none"] /\ Elsewhere /\ "none" \in Phases
    BY <1>8 DEF Release, PhaseGoes, Phases
  <2>2. RecordOf(k)'
    BY <1>0, <1>1, <2>1 DEF RecordOf, Flying
  <2>3. \A u \in Threads : PRKey(u) = k => thread[u].pc = "idle"
    BY <2>1, AllDelivered
  <2>4. RunGoesOn(k, k)
    BY <1>0, <1>1, <2>1, <2>3 DEF RunGoesOn, Flying
  <2> QED BY <1>0, <2>1, <2>2, <2>4, RunFrame
<1> QED BY <1>2, <1>3, <1>4, <1>5, <1>6, <1>7, <1>8 DEF RunStep

LEMMA UpdateIInv ==
  ASSUME IInv, NEW t \in Threads, Update(t)
  PROVE  IInv'
<1> DEFINE k == PRKey(t)
<1> USE NoSnapIsSnap
<1>0. /\ record \in [Keys -> Snap] /\ stored \in [Keys -> StoredStates]
      /\ phase \in [Keys -> Phases] /\ runs \in [Keys -> 0..MaxRuns]
      /\ k \in Keys /\ MaxRuns \in Nat
  BY KeyOfThread, StreamsAssumption DEF IInv, TypeOK, StoredStates, Phases
<1>1. /\ record[k] \in Snap /\ stored[k] \in StoredStates /\ phase[k] \in Phases
      /\ runs[k] \in 0..MaxRuns /\ runs[k] \in Nat /\ stored[k].run <= runs[k] /\ RecordOf(k)
  BY <1>0 DEF IInv, Snaps, Heard, Records
<1> DEFINE snap == [record[k] EXCEPT !.update = @ + 1]
<1>2. /\ phase[k] \in Flying /\ (t \notin Keys => phase[k] = "agents")
      /\ Mutate(t, snap) /\ Elsewhere /\ UNCHANGED <<phase, runs, stored>>
  BY <1>0 DEF Update, Flying
<1>3. /\ snap \in Snap /\ snap.run = record[k].run /\ snap.status = record[k].status
      /\ snap.update # 0
  BY <1>1 DEF Snap
<1>4. Told(t, snap) /\ thread[t].pc = "idle" /\ record' = [record EXCEPT ![k] = snap]
  BY <1>2 DEF Mutate, Told
<1> HIDE DEF snap
<1>5. RecordOf(k)'
  BY <1>0, <1>1, <1>2, <1>3, <1>4 DEF RecordOf, Flying
<1>6. /\ stored' = [stored EXCEPT ![k] = stored[k]] /\ phase' = [phase EXCEPT ![k] = phase[k]]
      /\ runs' = [runs EXCEPT ![k] = runs[k]]
  BY <1>0, <1>2
<1>7. phase[k] # "none" /\ runs[k] <= runs[k]
  BY <1>1, <1>2 DEF Flying
<1>8. RunGoesOn(k, t)
  BY <1>0, <1>1, <1>2, <1>3, <1>4, <1>6, <1>7 DEF RunGoesOn
<1> QED BY <1>0, <1>2, <1>5, <1>8, RunFrame

-----------------------------------------------------------------------------
(* Publishing *)

\* A step of a thread on its way through the subscribers goes on with the same record, to
\* those that registered.
LEMMA PublishFrame ==
  ASSUME IInv, NEW t \in Threads, NEW x \in Thread, thread' = [thread EXCEPT ![t] = x],
         thread[t].pc # "idle", UNCHANGED <<runVars, members, at>>,
         \/ x = Idle
         \/ x.pc # "idle" /\ x.snap = thread[t].snap,
         \A s \in x.left : at[s] \notin Unjoined,
         x.pc = "signal" => at[x.to] \notin Unjoined
  PROVE  /\ thread' \in [Threads -> Thread] /\ Records' /\ Goroutines' /\ Registered'
         /\ \A u \in Threads : Heard(PRKey(u), thread[u].snap)'
<1>1. thread \in [Threads -> Thread] /\ UNCHANGED <<record, phase, runs, stored>>
  BY DEF IInv, TypeOK, runVars
<1>2. thread' \in [Threads -> Thread] /\ thread'[t] = x
      /\ \A u \in Threads : u # t => thread'[u] = thread[u]
  BY <1>1
<1>3. Idle.pc = "idle" /\ Idle.snap = NoSnap
  BY DEF Idle
<1>4. Records'
  BY <1>1 DEF IInv, Records, RecordOf
<1>5. Goroutines'
  BY <1>1, <1>2, <1>3 DEF IInv, Goroutines, PRKey
<1>6. Registered'
  BY <1>2 DEF IInv, Registered
<1>7. ASSUME NEW u \in Threads PROVE Heard(PRKey(u), thread[u].snap)'
  <2>1. PRKey(u) \in Keys /\ runs[PRKey(u)] \in Nat
    BY KeyOfThread, StreamsAssumption DEF IInv, TypeOK
  <2>2. thread'[u].snap = thread[u].snap \/ thread'[u].snap = NoSnap
    BY <1>2, <1>3
  <2> QED BY <2>1, <2>2, <1>1, NoSnapIsSnap DEF IInv, Snaps, Heard, Over, PRKey, Settled
<1> QED BY <1>2, <1>4, <1>5, <1>6, <1>7

LEMMA OnwardType ==
  ASSUME TypeOK, NEW t \in Threads, NEW left \in SUBSET Subs
  PROVE  /\ Onward(t, left) \in Thread /\ Onward(t, left).left = left
         /\ \/ Onward(t, left) = Idle
            \/ Onward(t, left).pc = "push" /\ Onward(t, left).snap = thread[t].snap
<1>1. thread[t].snap \in Snap
  BY DEF TypeOK, Thread
<1> QED BY <1>1, NoSnapIsSnap DEF Onward, Idle, Thread

LEMMA PublishIInv ==
  ASSUME IInv, NEW t \in Threads, Publish(t)
  PROVE  IInv'
<1> DEFINE k    == PRKey(t)
           snap == thread[t].snap
<1>1. /\ k \in Keys /\ snap \in Snap /\ Heard(k, snap) /\ runs[k] \in 0..MaxRuns
      /\ entry \in [Keys -> Snap] /\ reached \in [Subs -> [Keys -> 0..MaxRuns]]
      /\ MaxRuns \in Nat /\ members \subseteq Subs /\ panicked \in BOOLEAN
  BY KeyOfThread, StreamsAssumption DEF IInv, TypeOK, Thread, Snaps
<1>2. Audience(k) \in SUBSET Subs /\ Audience(k) \subseteq members
  BY <1>1 DEF Audience, WatchersOf
<1>3. /\ thread[t].pc = "publish" /\ thread' = [thread EXCEPT ![t] = Onward(t, Audience(k))]
      /\ UNCHANGED <<runVars, members, subVars, cliVars, panicked>>
      /\ entry' = [entry EXCEPT ![k] = IF WatchersOf(k) = {} THEN @ ELSE snap]
  BY <1>1 DEF Publish, Alive
<1>4. UNCHANGED <<record, phase, runs, stored, pending, signal, closed, at, held, shown>>
  BY <1>3 DEF runVars, subVars, cliVars
<1>5. /\ thread' \in [Threads -> Thread] /\ Records' /\ Goroutines' /\ Registered'
      /\ \A u \in Threads : Heard(PRKey(u), thread[u].snap)'
  <2>1. \A s \in Audience(k) : at[s] \notin Unjoined
    BY <1>2 DEF IInv, Registered
  <2>2. PICK x \in Thread :
          /\ thread' = [thread EXCEPT ![t] = x] /\ x.left = Audience(k) /\ x.pc # "signal"
          /\ \/ x = Idle
             \/ x.pc # "idle" /\ x.snap = thread[t].snap
    <3> DEFINE subs == Audience(k)
    <3>1. TypeOK /\ subs \in SUBSET Subs /\ thread' = [thread EXCEPT ![t] = Onward(t, subs)]
      BY <1>2, <1>3 DEF IInv
    <3> HIDE DEF subs
    <3>2. /\ Onward(t, subs) \in Thread /\ Onward(t, subs).left = subs
          /\ \/ Onward(t, subs) = Idle
             \/ Onward(t, subs).pc = "push" /\ Onward(t, subs).snap = thread[t].snap
      BY <3>1, OnwardType
    <3> QED BY <3>1, <3>2 DEF subs, Idle
  <2>3. thread[t].pc # "idle" /\ UNCHANGED <<runVars, members, at>>
    BY <1>3, <1>4
  <2> QED BY <2>1, <2>2, <2>3, PublishFrame
<1>6. entry' \in [Keys -> Snap] /\ \A j \in Keys : entry'[j] = entry[j] \/ (j = k /\ entry'[j] = snap)
  BY <1>1, <1>3
<1>7. reached' \in [Subs -> [Keys -> 0..MaxRuns]]
  <2>1. snap.run \in 0..MaxRuns
    BY <1>1 DEF Heard, Snap
  <2>2. ASSUME NEW s \in Subs PROVE [reached[s] EXCEPT ![k] = snap.run] \in [Keys -> 0..MaxRuns]
    BY <1>1, <2>1
  <2> QED BY <1>1, <2>2 DEF Publish
<1>8. TypeOK'
  BY <1>1, <1>3, <1>4, <1>5, <1>6, <1>7 DEF IInv, TypeOK
<1>9. Snaps'
  BY <1>1, <1>4, <1>5, <1>6 DEF IInv, Snaps, Heard, Over
<1>10. Clients'
  BY <1>4, <1>5 DEF IInv, Clients, Ended
<1>11. Signalled'
  <2>1. \A u \in Threads : thread[u].pc = "signal" => thread'[u] = thread[u]
    BY <1>3 DEF IInv, TypeOK
  <2> QED BY <1>3, <1>4, <2>1 DEF IInv, Signalled
<1> QED BY <1>5, <1>8, <1>9, <1>10, <1>11 DEF IInv

\* The locked half of a push makes its thread the one that is about to signal.
LEMMA PushIInv ==
  ASSUME IInv, NEW t \in Threads, NEW s \in Subs, Push(t, s)
  PROVE  IInv'
<1> DEFINE k    == PRKey(t)
           snap == thread[t].snap
           left == thread[t].left \ {s}
<1>1. /\ k \in Keys /\ snap \in Snap /\ Heard(k, snap) /\ thread[t] \in Thread
      /\ pending \in [Subs -> [Keys -> Snap]] /\ pending[s] \in [Keys -> Snap]
      /\ panicked \in BOOLEAN /\ thread \in [Threads -> Thread]
      /\ left \in SUBSET Subs
  BY KeyOfThread DEF IInv, TypeOK, Thread, Snaps
<1>2. /\ thread[t].pc = "push" /\ s \in thread[t].left
      /\ UNCHANGED <<runVars, hubVars, signal, closed, cliVars, panicked>>
  BY <1>1 DEF Push, Alive
<1>3. UNCHANGED <<record, phase, runs, stored, entry, members, reached, signal, closed, at, held, shown>>
  BY <1>2 DEF runVars, hubVars, cliVars
<1>4. at[s] \notin Unjoined /\ \A z \in left : at[z] \notin Unjoined
  BY <1>2 DEF IInv, Registered
<1>5. CASE closed[s]
  <2>1. thread' = [thread EXCEPT ![t] = Onward(t, left)] /\ pending' = pending
    BY <1>5 DEF Push
  <2> HIDE DEF left
  <2>2. /\ Onward(t, left) \in Thread /\ Onward(t, left).left = left
        /\ \/ Onward(t, left) = Idle
           \/ Onward(t, left).pc = "push" /\ Onward(t, left).snap = thread[t].snap
    BY <1>1, OnwardType DEF IInv
  <2>3. /\ thread' \in [Threads -> Thread] /\ Records' /\ Goroutines' /\ Registered'
        /\ \A u \in Threads : Heard(PRKey(u), thread[u].snap)'
    <3>1. PICK x \in Thread :
            /\ thread' = [thread EXCEPT ![t] = x] /\ x.left = left /\ x.pc # "signal"
            /\ \/ x = Idle
               \/ x.pc # "idle" /\ x.snap = thread[t].snap
      BY <2>1, <2>2 DEF Idle
    <3>2. thread[t].pc # "idle" /\ UNCHANGED <<runVars, members, at>>
      BY <1>2, <1>3
    <3> QED BY <1>4, <3>1, <3>2, PublishFrame
  <2>4. TypeOK'
    BY <1>2, <1>3, <2>1, <2>3 DEF IInv, TypeOK
  <2>5. Snaps'
    BY <1>3, <2>1, <2>3 DEF IInv, Snaps, Heard, Over
  <2>6. Clients'
    BY <1>3, <2>1 DEF IInv, Clients, Ended
  <2>7. Signalled'
    <3>1. \A u \in Threads : thread[u].pc = "signal" => thread'[u] = thread[u]
      BY <1>1, <1>2, <2>1
    <3> QED BY <1>2, <1>3, <2>1, <3>1 DEF IInv, Signalled
  <2> QED BY <2>3, <2>4, <2>5, <2>6, <2>7 DEF IInv
<1>6. CASE ~closed[s]
  <2> DEFINE x == [pc |-> "signal", snap |-> snap, left |-> left, to |-> s]
  <2>1. thread' = [thread EXCEPT ![t] = x] /\ pending' = [pending EXCEPT ![s] = [@ EXCEPT ![k] = snap]]
    BY <1>6 DEF Push
  <2>2. x \in Thread /\ x.left = left /\ x.pc = "signal" /\ x.snap = snap /\ x.to = s
    BY <1>1 DEF Thread
  <2> HIDE DEF x
  <2>3. /\ thread' \in [Threads -> Thread] /\ Records' /\ Goroutines' /\ Registered'
        /\ \A u \in Threads : Heard(PRKey(u), thread[u].snap)'
    <3>1. thread[t].pc # "idle" /\ UNCHANGED <<runVars, members, at>>
      BY <1>2, <1>3
    <3> QED BY <1>4, <2>1, <2>2, <3>1, PublishFrame
  <2>4. /\ pending' \in [Subs -> [Keys -> Snap]]
        /\ \A z \in Subs : z # s => pending'[z] = pending[z]
        /\ \A j \in Keys : j # k => pending'[s][j] = pending[s][j]
        /\ pending'[s][k] = snap
    BY <1>1, <2>1
  <2>5. TypeOK'
    BY <1>2, <1>3, <2>3, <2>4 DEF IInv, TypeOK
  <2>6. Snaps'
    <3>1. \A z \in Subs : \A j \in Keys : Heard(j, pending'[z][j])
      BY <1>1, <2>4 DEF IInv, Snaps
    <3>2. \A j \in Keys : Heard(j, record[j]) /\ Heard(j, entry[j]) /\ Heard(j, stored[j])
      BY DEF IInv, Snaps
    <3>3. \A z \in Subs : \A j \in Keys : Heard(j, held[z][j]) /\ Heard(j, shown[z][j])
      BY DEF IInv, Snaps
    <3> QED BY <1>3, <2>3, <3>1, <3>2, <3>3 DEF Snaps, Heard, Over
  <2>7. Clients'
    <3>1. \A z \in Subs : /\ at[z] \in Unjoined => pending'[z] = Nothing
                          /\ at[z] \notin {"pump", "take"} => shown[z] = Nothing
      BY <1>4, <2>4 DEF IInv, Clients
    <3>2. ASSUME NEW w \in Watchers
          PROVE  /\ pending'[w][KeyOf[w]] # NoSnap => pending'[w][KeyOf[w]].status # "none"
                 /\ pending'[w][KeyOf[w]].status = "running" =>
                      /\ ~Ended(held[w][KeyOf[w]], pending'[w][KeyOf[w]].run)
                      /\ ~Ended(shown[w][KeyOf[w]], pending'[w][KeyOf[w]].run)
      <4>1. w \in Subs /\ KeyOf[w] \in Keys
        BY WatcherIsSub
      <4>2. CASE w = s /\ KeyOf[w] = k
        <5>1. pending'[w][KeyOf[w]] = snap /\ snap.status # "none"
          BY <4>2, <1>2, <2>4 DEF IInv, Goroutines
        <5>2. snap.status = "running" => snap.run = runs[k] /\ phase[k] \in Flying
          BY <1>2 DEF IInv, Goroutines
        <5>3. Heard(k, held[w][k]) /\ Heard(k, shown[w][k])
          BY <1>1, <4>1 DEF IInv, Snaps
        <5>4. snap.status = "running" => ~Ended(held[w][k], snap.run) /\ ~Ended(shown[w][k], snap.run)
          BY <5>2, <5>3 DEF Heard, Over, Ended
        <5> QED BY <5>1, <5>4, <4>2
      <4>3. CASE ~(w = s /\ KeyOf[w] = k)
        BY <4>1, <4>3, <2>4 DEF IInv, Clients
      <4> QED BY <4>2, <4>3
    <3> QED BY <1>3, <3>1, <3>2 DEF Clients, Ended
  <2>8. Signalled'
    <3>1. \A u \in Threads : thread[u].pc = "signal" => thread'[u] = thread[u]
      BY <1>1, <1>2, <2>1
    <3>2. thread'[t].pc = "signal" /\ thread'[t].to = s
      BY <1>1, <2>1, <2>2
    <3> QED BY <1>2, <1>3, <2>4, <3>1, <3>2 DEF IInv, Signalled
  <2> QED BY <2>3, <2>5, <2>6, <2>7, <2>8 DEF IInv
<1> QED BY <1>5, <1>6

\* The token is there afterwards, unless the channel is closed and the process dies.
LEMMA SignalIInv ==
  ASSUME IInv, NEW t \in Threads, Signal(t)
  PROVE  IInv'
<1> DEFINE to   == thread[t].to
           left == thread[t].left
<1>1. /\ thread[t] \in Thread /\ thread \in [Threads -> Thread] /\ left \in SUBSET Subs
      /\ signal \in [Subs -> BOOLEAN] /\ closed \in [Subs -> BOOLEAN]
  BY DEF IInv, TypeOK, Thread
<1>2. /\ thread[t].pc = "signal" /\ to \in Subs /\ closed[to] \in BOOLEAN
      /\ UNCHANGED <<runVars, hubVars, pending, closed, cliVars>>
      /\ panicked' = closed[to] /\ signal' = [signal EXCEPT ![to] = ~closed[to]]
      /\ thread' = [thread EXCEPT ![t] = Onward(t, left)]
  BY <1>1 DEF Signal, Thread
<1>3. UNCHANGED <<record, phase, runs, stored, entry, members, reached, pending, closed, at, held, shown>>
  BY <1>2 DEF runVars, hubVars, cliVars
<1> HIDE DEF left, to
<1>4. /\ Onward(t, left) \in Thread /\ Onward(t, left).left = left
      /\ \/ Onward(t, left) = Idle
         \/ Onward(t, left).pc = "push" /\ Onward(t, left).snap = thread[t].snap
  BY <1>1, OnwardType DEF IInv
<1>5. /\ thread' \in [Threads -> Thread] /\ Records' /\ Goroutines' /\ Registered'
      /\ \A u \in Threads : Heard(PRKey(u), thread[u].snap)'
  <2>1. PICK x \in Thread :
          /\ thread' = [thread EXCEPT ![t] = x] /\ x.left = left /\ x.pc # "signal"
          /\ \/ x = Idle
             \/ x.pc # "idle" /\ x.snap = thread[t].snap
    BY <1>2, <1>4 DEF Idle
  <2>2. thread[t].pc # "idle" /\ UNCHANGED <<runVars, members, at>>
    BY <1>2, <1>3
  <2>3. \A z \in left : at[z] \notin Unjoined
    BY DEF IInv, Registered, left
  <2> QED BY <2>1, <2>2, <2>3, PublishFrame
<1>6. signal' \in [Subs -> BOOLEAN] /\ signal'[to] = ~closed[to]
      /\ \A z \in Subs : z # to => signal'[z] = signal[z]
  BY <1>1, <1>2
<1>7. TypeOK'
  BY <1>2, <1>3, <1>5, <1>6 DEF IInv, TypeOK
<1>8. Snaps'
  BY <1>3, <1>5 DEF IInv, Snaps, Heard, Over
<1>9. Clients'
  BY <1>3 DEF IInv, Clients, Ended
<1>10. Signalled'
  <2>1. \A u \in Threads : u # t => thread'[u] = thread[u]
    BY <1>1, <1>2
  <2> SUFFICES ASSUME NEW z \in Subs, pending'[z] # Nothing, ~panicked'
               PROVE  \/ signal'[z] \/ at'[z] = "take"
                      \/ \E u \in Threads : thread'[u].pc = "signal" /\ thread'[u].to = z
    BY DEF Signalled, Nothing
  <2>2. CASE z = to
    BY <2>2, <1>2, <1>6
  <2>3. CASE z # to
    <3>1. ~panicked
      BY DEF Signal
    <3> QED BY <2>1, <2>3, <3>1, <1>3, <1>6 DEF IInv, Signalled, to
  <2> QED BY <2>2, <2>3
<1> QED BY <1>5, <1>7, <1>8, <1>9, <1>10 DEF IInv

-----------------------------------------------------------------------------
(* Subscribers *)

AtStates == {"off", "missing", "hydrate", "seeded", "joined", "on", "pump", "take", "gone"}

\* A step of the handler of s, or of its client, that leaves the others alone: what it
\* holds and shows is what was published or is pending for it, in this order.
SubscriberGoesOn(s) ==
  /\ UNCHANGED <<runVars, thread, panicked>>
  /\ entry' \in [Keys -> Snap] /\ \A k \in Keys : Heard(k, entry'[k])
  /\ members' \subseteq members \cup {s} /\ (s \in members' => at'[s] \notin Unjoined)
  /\ pending' \in [Subs -> [Keys -> Snap]] /\ pending'[s] \in {pending[s], Nothing}
  /\ signal' \in [Subs -> BOOLEAN] /\ closed' \in [Subs -> BOOLEAN]
  /\ at' \in [Subs -> AtStates] /\ (at[s] \notin Unjoined => at'[s] \notin Unjoined)
  /\ held' \in [Subs -> [Keys -> Snap]] /\ shown' \in [Subs -> [Keys -> Snap]]
  /\ \A k \in Keys : Heard(k, held'[s][k]) /\ Heard(k, shown'[s][k])
  /\ reached' \in [Subs -> [Keys -> 0..MaxRuns]]
  /\ \A z \in Subs : z # s => /\ at'[z] = at[z] /\ held'[z] = held[z] /\ shown'[z] = shown[z]
                              /\ pending'[z] = pending[z] /\ signal'[z] = signal[z]
  /\ at'[s] \in Unjoined => pending'[s] = Nothing
  /\ at'[s] \notin {"pump", "take"} => shown'[s] = Nothing
  /\ s \in Watchers =>
       LET x == pending'[s][KeyOf[s]]
       IN  x.status = "running" =>
             ~Ended(held'[s][KeyOf[s]], x.run) /\ ~Ended(shown'[s][KeyOf[s]], x.run)
  /\ \/ pending'[s] = Nothing \/ at'[s] = "take"
     \/ signal'[s] = signal[s] /\ at[s] # "take"

LEMMA SubscriberFrame ==
  ASSUME IInv, NEW s \in Subs, SubscriberGoesOn(s)
  PROVE  IInv'
<1>1. UNCHANGED <<record, phase, runs, stored, thread, panicked>>
  BY DEF SubscriberGoesOn, runVars
<1>2. TypeOK'
  <2>1. members' \subseteq Subs
    BY DEF SubscriberGoesOn, IInv, TypeOK
  <2> QED BY <1>1, <2>1 DEF SubscriberGoesOn, IInv, TypeOK, AtStates
<1>3. Records' /\ Goroutines'
  BY <1>1 DEF IInv, Records, RecordOf, Goroutines, PRKey
<1>4. Snaps'
  <2>1. ASSUME NEW z \in Subs, NEW k \in Keys
        PROVE  Heard(k, pending'[z][k]) /\ Heard(k, held'[z][k]) /\ Heard(k, shown'[z][k])
    <3>1. Heard(k, pending[z][k]) /\ Heard(k, held[z][k]) /\ Heard(k, shown[z][k])
      BY DEF IInv, Snaps
    <3>2. Heard(k, NoSnap)
      <4>1. runs[k] \in Nat
        BY StreamsAssumption DEF IInv, TypeOK
      <4> QED BY <4>1, NoSnapIsSnap DEF Heard, Settled
    <3>3. CASE z = s
      BY <3>1, <3>2, <3>3, NoSnapIsSnap DEF SubscriberGoesOn
    <3>4. CASE z # s
      BY <3>1, <3>4 DEF SubscriberGoesOn
    <3> QED BY <3>3, <3>4
  <2>2. \A k \in Keys : Heard(k, record[k]) /\ Heard(k, entry'[k]) /\ Heard(k, stored[k])
    BY DEF IInv, Snaps, SubscriberGoesOn
  <2>3. \A t \in Threads : Heard(PRKey(t), thread[t].snap)
    BY DEF IInv, Snaps
  <2> QED BY <1>1, <2>1, <2>2, <2>3 DEF Snaps, Heard, Over, PRKey
<1>5. Registered'
  <2>1. \A z \in Subs : at[z] \notin Unjoined => at'[z] \notin Unjoined
    BY DEF SubscriberGoesOn
  <2>2. \A t \in Threads : thread[t].left \subseteq Subs /\ (thread[t].pc = "signal" => thread[t].to \in Subs)
    BY DEF IInv, TypeOK, Thread
  <2>3. members \subseteq Subs
    BY DEF IInv, TypeOK
  <2>4. \A z \in members' : at'[z] \notin Unjoined
    BY <2>1, <2>3 DEF SubscriberGoesOn, IInv, Registered
  <2> QED BY <1>1, <2>1, <2>2, <2>4 DEF IInv, Registered
<1>6. Clients'
  <2>1. ASSUME NEW z \in Subs
        PROVE  /\ at'[z] \in Unjoined => pending'[z] = Nothing
               /\ at'[z] \notin {"pump", "take"} => shown'[z] = Nothing
    BY DEF SubscriberGoesOn, IInv, Clients
  <2>2. ASSUME NEW w \in Watchers
        PROVE  /\ pending'[w][KeyOf[w]] # NoSnap => pending'[w][KeyOf[w]].status # "none"
               /\ pending'[w][KeyOf[w]].status = "running" =>
                    /\ ~Ended(held'[w][KeyOf[w]], pending'[w][KeyOf[w]].run)
                    /\ ~Ended(shown'[w][KeyOf[w]], pending'[w][KeyOf[w]].run)
    <3>1. w \in Subs /\ KeyOf[w] \in Keys
      BY WatcherIsSub
    <3>2. pending'[w] \in {pending[w], Nothing}
      BY <3>1 DEF SubscriberGoesOn
    <3>3. pending'[w][KeyOf[w]] # NoSnap => pending'[w][KeyOf[w]].status # "none"
      BY <3>1, <3>2, NoSnapIsSnap DEF IInv, Clients
    <3>4. CASE w = s
      BY <3>3, <3>4 DEF SubscriberGoesOn
    <3>5. CASE w # s
      BY <3>1, <3>3, <3>5 DEF SubscriberGoesOn, IInv, Clients
    <3> QED BY <3>4, <3>5
  <2> QED BY <2>1, <2>2 DEF Clients, Ended
<1>7. Signalled'
  <2> SUFFICES ASSUME NEW z \in Subs, pending'[z] # Nothing, ~panicked'
               PROVE  \/ signal'[z] \/ at'[z] = "take"
                      \/ \E u \in Threads : thread'[u].pc = "signal" /\ thread'[u].to = z
    BY DEF Signalled, Nothing
  <2>1. pending[z] # Nothing
    BY DEF SubscriberGoesOn
  <2>2. \/ signal[z] \/ at[z] = "take"
        \/ \E u \in Threads : thread[u].pc = "signal" /\ thread[u].to = z
    BY <1>1, <2>1 DEF IInv, Signalled
  <2> QED BY <1>1, <2>2 DEF SubscriberGoesOn
<1> QED BY <1>2, <1>3, <1>4, <1>5, <1>6, <1>7 DEF IInv

\* What the proof of every step of a subscriber starts from.
LEMMA SubscriberNow ==
  ASSUME IInv, NEW s \in Subs
  PROVE  /\ record \in [Keys -> Snap] /\ entry \in [Keys -> Snap] /\ stored \in [Keys -> StoredStates]
         /\ members \subseteq Subs /\ at \in [Subs -> AtStates]
         /\ pending \in [Subs -> [Keys -> Snap]] /\ signal \in [Subs -> BOOLEAN]
         /\ closed \in [Subs -> BOOLEAN] /\ panicked \in BOOLEAN
         /\ held \in [Subs -> [Keys -> Snap]] /\ shown \in [Subs -> [Keys -> Snap]]
         /\ reached \in [Subs -> [Keys -> 0..MaxRuns]]
         /\ \A k \in Keys : Heard(k, NoSnap) /\ Heard(k, record[k]) /\ Heard(k, entry[k]) /\ Heard(k, stored[k])
         /\ \A k \in Keys : Heard(k, held[s][k]) /\ Heard(k, shown[s][k]) /\ Heard(k, pending[s][k])
         /\ s \in members => at[s] \notin Unjoined
         /\ at[s] \in Unjoined => pending[s] = Nothing
         /\ at[s] \notin {"pump", "take"} => shown[s] = Nothing
<1>1. ASSUME NEW k \in Keys PROVE Heard(k, NoSnap)
  <2>1. runs[k] \in Nat
    BY StreamsAssumption DEF IInv, TypeOK
  <2> QED BY <2>1, NoSnapIsSnap DEF Heard, Settled
<1> QED BY <1>1 DEF IInv, TypeOK, StoredStates, AtStates, Snaps, Registered, Clients

\* Only a snapshot or an update 0 is not known to be of a run that is over; nothing is
\* pending for a watcher that has yet to register.
LEMMA SeedIInv ==
  ASSUME IInv, NEW w \in Watchers, SeedStep(w)
  PROVE  IInv'
<1> DEFINE k == KeyOf[w]
<1>1. w \in Subs /\ k \in Keys /\ KeyOf[w] = k
  BY WatcherIsSub
<1> HIDE DEF k
<1> USE NoSnapIsSnap, SubscriberNow
<1>2. ASSUME NEW snap \in Snap, Holds(w, k, snap), Heard(k, snap)
      PROVE  /\ held' \in [Subs -> [Keys -> Snap]] /\ \A j \in Keys : Heard(j, held'[w][j])
             /\ \A z \in Subs : z # w => held'[z] = held[z]
  <2>1. [Nothing EXCEPT ![k] = snap] \in [Keys -> Snap]
        /\ \A j \in Keys : [Nothing EXCEPT ![k] = snap][j] = IF j = k THEN snap ELSE NoSnap
    BY <1>1
  <2>2. held' = [held EXCEPT ![w] = [Nothing EXCEPT ![k] = snap]] /\ held \in [Subs -> [Keys -> Snap]]
    BY <1>1, <1>2 DEF Holds
  <2>3. held'[w] = [Nothing EXCEPT ![k] = snap] /\ held' \in [Subs -> [Keys -> Snap]]
    BY <1>1, <2>1, <2>2
  <2> QED BY <1>1, <1>2, <2>1, <2>2, <2>3
<1>3. ASSUME at[w] \in Unjoined, NEW to \in AtStates, Goes(w, to), to \notin {"pump", "take"},
             SubFrame, UNCHANGED <<reached, shown>>,
             held' \in [Subs -> [Keys -> Snap]], \A j \in Keys : Heard(j, held'[w][j]),
             \A z \in Subs : z # w => held'[z] = held[z],
             entry' \in [Keys -> Snap], \A j \in Keys : Heard(j, entry'[j]),
             \/ members' = members /\ w \notin members
             \/ members' = members \cup {w} /\ to \notin Unjoined
      PROVE  IInv'
  <2>1. /\ UNCHANGED <<runVars, thread, panicked, pending, signal, closed, shown, reached>>
        /\ pending[w] = Nothing
    BY <1>1, <1>3 DEF SubFrame, subVars, Alive
  <2>2. at' \in [Subs -> AtStates] /\ at'[w] = to /\ \A z \in Subs : z # w => at'[z] = at[z]
    BY <1>1, <1>3 DEF Goes
  <2>3. shown[w] = Nothing
    BY <1>1, <1>3 DEF Unjoined
  <2>4. pending[w][KeyOf[w]].status = "none"
    BY <1>1, <2>1
  <2>5. SubscriberGoesOn(w)
    BY <1>1, <1>3, <2>1, <2>2, <2>3, <2>4 DEF SubscriberGoesOn
  <2> QED BY <1>1, <2>5, SubscriberFrame
<1>4. at[w] \in Unjoined => w \notin members
  BY <1>1
<1>5. {"missing", "hydrate", "seeded", "on"} \subseteq AtStates \ {"pump", "take"} /\ "on" \notin Unjoined
  BY DEF AtStates, Unjoined
<1>6. CASE SeedInFlight(w)
  <2>1. at[w] = "off" /\ Holds(w, k, record[k]) /\ UNCHANGED <<entry, members, reached, shown>> /\ SubFrame
        /\ record[k] \in Snap /\ Heard(k, record[k])
        /\ Goes(w, IF record[k] = NoSnap THEN "missing" ELSE "seeded")
    BY <1>1, <1>6 DEF SeedInFlight, hubVars, k
  <2>2. PICK to \in {"missing", "seeded"} : Goes(w, to)
    BY <2>1
  <2> QED BY <1>1, <1>2, <1>3, <1>4, <1>5, <2>1, <2>2 DEF Unjoined
<1>7. CASE SeedWatching(w)
  <2>1. at[w] = "missing" /\ UNCHANGED <<entry, members, reached, held, shown>> /\ SubFrame
        /\ Goes(w, IF WatchersOf(KeyOf[w]) = {} THEN "hydrate" ELSE "seeded")
    BY <1>7 DEF SeedWatching, hubVars
  <2>2. PICK to \in {"hydrate", "seeded"} : Goes(w, to)
    BY <2>1
  <2> QED BY <1>1, <1>3, <1>4, <1>5, <2>1, <2>2 DEF Unjoined
<1>8. CASE Hydrate(w)
  <2>1. at[w] = "hydrate" /\ Holds(w, k, stored[k]) /\ UNCHANGED <<entry, members, reached, shown>> /\ SubFrame
        /\ Goes(w, "seeded") /\ Heard(k, stored[k]) /\ stored[k] \in StoredStates
    BY <1>1, <1>8 DEF Hydrate, hubVars, k
  <2>2. stored[k] \in Snap
    BY <2>1 DEF StoredStates, Snap, Settled
  <2> QED BY <1>1, <1>2, <1>3, <1>4, <1>5, <2>1, <2>2 DEF Unjoined
<1>9. CASE Subscribe(w)
  <2>1. PICK snap \in {held[w][k], entry[k]} :
          /\ at[w] = "seeded" /\ members' = members \cup {w} /\ entry' = [entry EXCEPT ![k] = snap]
          /\ Holds(w, k, snap) /\ Goes(w, "on") /\ UNCHANGED <<reached, shown>> /\ SubFrame
    BY <1>9 DEF Subscribe, k
  <2>2. snap \in Snap /\ Heard(k, snap)
    BY <1>1, <2>1
  <2>3. entry' \in [Keys -> Snap] /\ \A j \in Keys : Heard(j, entry'[j])
    BY <1>1, <2>1, <2>2
  <2> QED BY <1>1, <1>2, <1>3, <1>5, <2>1, <2>2, <2>3 DEF Unjoined
<1> QED BY <1>6, <1>7, <1>8, <1>9 DEF SeedStep

LEMMA GlobalIInv ==
  ASSUME IInv, NEW g \in Globals, SubscribeAll(g) \/ Active(g)
  PROVE  IInv'
<1>1. g \in Subs /\ g \notin Watchers
  BY StreamsAssumption DEF Subs
<1> USE NoSnapIsSnap, SubscriberNow
<1>2. UNCHANGED <<runVars, thread, panicked, pending, signal, closed, entry, reached, shown>>
  BY <1>1 DEF SubscribeAll, Active, SubFrame, subVars, hubVars, Alive
<1>3. at[g] \in {"off", "joined"} /\ shown[g] = Nothing
  BY <1>1 DEF SubscribeAll, Active
<1>4. PICK to \in {"joined", "on"} : Goes(g, to)
  BY DEF SubscribeAll, Active
<1>5. at' \in [Subs -> AtStates] /\ at'[g] = to /\ \A z \in Subs : z # g => at'[z] = at[z]
  BY <1>1, <1>4 DEF Goes, AtStates
<1>6. members' \subseteq members \cup {g}
  BY DEF SubscribeAll, Active, hubVars
<1>7. /\ held' \in [Subs -> [Keys -> Snap]] /\ \A j \in Keys : Heard(j, held'[g][j])
      /\ \A z \in Subs : z # g => held'[z] = held[z]
  BY <1>1 DEF SubscribeAll, Active
<1>8. SubscriberGoesOn(g)
  BY <1>1, <1>2, <1>3, <1>5, <1>6, <1>7 DEF SubscriberGoesOn, Unjoined
<1> QED BY <1>1, <1>8, SubscriberFrame

\* The pump shows what it holds or what is pending, and then neither is there any more.
LEMMA PumpIInv ==
  ASSUME IInv, NEW s \in Subs, PumpStep(s) \/ Unsubscribe(s)
  PROVE  IInv'
<1> USE NoSnapIsSnap, SubscriberNow
<1>1. /\ held[s] \in [Keys -> Snap] /\ shown[s] \in [Keys -> Snap] /\ pending[s] \in [Keys -> Snap]
  OBVIOUS
<1>2. ASSUME NEW to \in {"pump", "take", "gone"}, Goes(s, to)
      PROVE  /\ at' \in [Subs -> AtStates] /\ at'[s] = to /\ to \notin Unjoined
             /\ \A z \in Subs : z # s => at'[z] = at[z]
  BY <1>2 DEF Goes, AtStates, Unjoined
<1>3. CASE WriteSnapshot(s)
  <2>1. /\ UNCHANGED <<runVars, thread, panicked, pending, signal, closed, entry, members, reached>>
        /\ at[s] = "on" /\ Goes(s, "pump")
        /\ shown' = [shown EXCEPT ![s] = held[s]] /\ held' = [held EXCEPT ![s] = Nothing]
    BY <1>3 DEF WriteSnapshot, SubFrame, subVars, hubVars, Alive
  <2>2. /\ shown' \in [Subs -> [Keys -> Snap]] /\ held' \in [Subs -> [Keys -> Snap]]
        /\ shown'[s] = held[s] /\ held'[s] = Nothing
        /\ \A z \in Subs : z # s => shown'[z] = shown[z] /\ held'[z] = held[z]
    BY <1>1, <2>1
  <2>3. s \in Watchers => /\ KeyOf[s] \in Keys
                          /\ pending[s][KeyOf[s]].status = "running" =>
                               ~Ended(held[s][KeyOf[s]], pending[s][KeyOf[s]].run)
    BY WatcherIsSub DEF IInv, Clients
  <2>4. s \in Watchers => \A r : ~Ended(Nothing[KeyOf[s]], r)
    BY <2>3 DEF Ended, Settled
  <2>5. SubscriberGoesOn(s)
    BY <1>2, <2>1, <2>2, <2>3, <2>4 DEF SubscriberGoesOn
  <2> QED BY <2>5, SubscriberFrame
<1>4. CASE Ready(s)
  <2>1. /\ UNCHANGED <<runVars, thread, panicked, pending, closed, entry, members, reached, held, shown>>
        /\ at[s] = "pump" /\ Goes(s, "take") /\ signal' = [signal EXCEPT ![s] = FALSE]
    BY <1>4 DEF Ready, hubVars, Alive
  <2>2. signal' \in [Subs -> BOOLEAN] /\ \A z \in Subs : z # s => signal'[z] = signal[z]
    BY <2>1
  <2>3. s \in Watchers /\ pending[s][KeyOf[s]].status = "running" =>
          /\ ~Ended(held[s][KeyOf[s]], pending[s][KeyOf[s]].run)
          /\ ~Ended(shown[s][KeyOf[s]], pending[s][KeyOf[s]].run)
    BY DEF IInv, Clients
  <2>4. SubscriberGoesOn(s)
    BY <1>2, <2>1, <2>2, <2>3 DEF SubscriberGoesOn
  <2> QED BY <2>4, SubscriberFrame
<1>5. CASE Take(s)
  <2> DEFINE now == [k \in Keys |-> Displayed(s, shown[s][k], pending[s][k])]
  <2>1. /\ UNCHANGED <<runVars, thread, panicked, signal, closed, entry, members, reached, held>>
        /\ at[s] = "take" /\ Goes(s, "pump")
        /\ shown' = [shown EXCEPT ![s] = now] /\ pending' = [pending EXCEPT ![s] = Nothing]
    BY <1>5 DEF Take, hubVars, Alive
  <2>2. \A k \in Keys : now[k] \in {shown[s][k], pending[s][k], NoSnap}
    BY DEF Displayed
  <2>3. now \in [Keys -> Snap] /\ \A k \in Keys : Heard(k, now[k])
    BY <1>1, <2>2
  <2> HIDE DEF now
  <2>4. /\ shown' \in [Subs -> [Keys -> Snap]] /\ pending' \in [Subs -> [Keys -> Snap]]
        /\ shown'[s] = now /\ pending'[s] = Nothing
        /\ \A z \in Subs : z # s => shown'[z] = shown[z] /\ pending'[z] = pending[z]
    BY <2>1, <2>3
  <2>5. s \in Watchers => pending'[s][KeyOf[s]].status # "running"
    BY <2>4, WatcherIsSub
  <2>6. SubscriberGoesOn(s)
    BY <1>2, <2>1, <2>3, <2>4, <2>5 DEF SubscriberGoesOn
  <2> QED BY <2>6, SubscriberFrame
<1>6. CASE Unsubscribe(s)
  <2>1. /\ UNCHANGED <<runVars, thread, panicked>> /\ Goes(s, "gone")
        /\ members' = members \ {s}
        /\ entry' = [k \in Keys |-> IF WatchersOf(k) = {s} THEN NoSnap ELSE entry[k]]
        /\ closed' = [closed EXCEPT ![s] = TRUE]
        /\ pending' = [pending EXCEPT ![s] = Nothing] /\ signal' = [signal EXCEPT ![s] = FALSE]
        /\ held' = [held EXCEPT ![s] = Nothing] /\ shown' = [shown EXCEPT ![s] = Nothing]
        /\ reached' = [reached EXCEPT ![s] = [k \in Keys |-> 0]]
    BY <1>6 DEF Unsubscribe, Alive
  <2>2. entry' \in [Keys -> Snap] /\ \A k \in Keys : Heard(k, entry'[k])
    BY <2>1
  <2>3. reached' \in [Subs -> [Keys -> 0..MaxRuns]]
    <3>1. 0 \in 0..MaxRuns
      BY StreamsAssumption
    <3> QED BY <2>1, <3>1
  <2>4. /\ shown' \in [Subs -> [Keys -> Snap]] /\ pending' \in [Subs -> [Keys -> Snap]]
        /\ held' \in [Subs -> [Keys -> Snap]] /\ signal' \in [Subs -> BOOLEAN]
        /\ closed' \in [Subs -> BOOLEAN]
        /\ shown'[s] = Nothing /\ held'[s] = Nothing /\ pending'[s] = Nothing
        /\ \A z \in Subs : z # s => /\ shown'[z] = shown[z] /\ pending'[z] = pending[z]
                                    /\ held'[z] = held[z] /\ signal'[z] = signal[z]
    BY <2>1
  <2>5. s \in Watchers => pending'[s][KeyOf[s]].status # "running"
    BY <2>4, WatcherIsSub
  <2>6. SubscriberGoesOn(s)
    BY <1>2, <2>1, <2>2, <2>3, <2>4, <2>5 DEF SubscriberGoesOn
  <2> QED BY <2>6, SubscriberFrame
<1> QED BY <1>3, <1>4, <1>5, <1>6 DEF PumpStep

-----------------------------------------------------------------------------
LEMMA NextIInv == IInv /\ [Next]_vars => IInv'
<1> SUFFICES ASSUME IInv, [Next]_vars PROVE IInv'
  OBVIOUS
<1>1. ASSUME NEW k \in Keys, RunStep(k) PROVE IInv'
  BY <1>1, RunStepIInv
<1>2. ASSUME NEW t \in Threads, Update(t) \/ PublishStep(t) PROVE IInv'
  BY <1>2, UpdateIInv, PublishIInv, PushIInv, SignalIInv DEF PublishStep
<1>3. ASSUME NEW w \in Watchers, SeedStep(w) PROVE IInv'
  BY <1>3, SeedIInv
<1>4. ASSUME NEW g \in Globals, SubscribeAll(g) \/ Active(g) PROVE IInv'
  BY <1>4, GlobalIInv
<1>5. ASSUME NEW s \in Subs, PumpStep(s) \/ Unsubscribe(s) PROVE IInv'
  BY <1>5, PumpIInv
<1>6. CASE UNCHANGED vars
  <2> USE <1>6 DEF vars, runVars, hubVars, subVars, cliVars
  <2>1. TypeOK'
    BY DEF IInv, TypeOK
  <2>2. Records' /\ Snaps' /\ Goroutines' /\ Registered' /\ Clients' /\ Signalled'
    BY DEF IInv, Records, RecordOf, Snaps, Heard, Over, Goroutines, Registered, Clients, Ended,
           Signalled, PRKey
  <2> QED BY <2>1, <2>2 DEF IInv
<1> QED BY <1>1, <1>2, <1>3, <1>4, <1>5, <1>6 DEF Next

\* The invariant is one of every run, agent and subscriber at any pace.
THEOREM Invariance == Spec => []IInv
BY InitIInv, NextIInv, PTL DEF Spec

\* No variable leaves its type: no run, thread or client is ever where the code has
\* no step for it.
THEOREM TypeCorrect == Spec => []TypeOK
<1>1. IInv => TypeOK
  BY DEF IInv
<1> QED BY <1>1, Invariance, PTL

\* No wake-up is lost between the two halves of Subscription.push and the pump, for
\* any number of goroutines that push to one subscription.
THEOREM NoLostWakeUp == Spec => []PendingIsSignalled
<1>1. IInv => PendingIsSignalled
  BY DEF IInv, TypeOK, Signalled, PendingIsSignalled
<1> QED BY <1>1, Invariance, PTL

\* However late an agent's goroutine publishes, a client that was shown the end of a run
\* is not shown it running again (Runner's join before finish, Publish, push, Take).
THEOREM EndIsNotUndone == Spec => NoResurrection
<1> DEFINE A(w) ==
             LET k == KeyOf[w]
             IN  /\ shown[w][k].status \in Settled /\ shown[w][k].update # 0
                 /\ shown'[w][k].run = shown[w][k].run
                 => shown'[w][k].status \in Settled
<1>1. ASSUME IInv, [Next]_vars PROVE [\A w \in Watchers : A(w)]_vars
  <2> SUFFICES ASSUME NEW w \in Watchers, shown'[w] # shown[w],
                      shown[w][KeyOf[w]].status \in Settled, shown[w][KeyOf[w]].update # 0,
                      shown'[w][KeyOf[w]].run = shown[w][KeyOf[w]].run
               PROVE  shown'[w][KeyOf[w]].status \in Settled
    OBVIOUS
  <2> DEFINE k == KeyOf[w]
  <2>1. w \in Subs /\ k \in Keys /\ w \notin Globals
    BY WatcherIsSub, StreamsAssumption
  <2>2. shown \in [Subs -> [Keys -> Snap]] /\ pending[w][k] \in Snap /\ shown[w] # Nothing
    <3>1. shown \in [Subs -> [Keys -> Snap]] /\ pending[w][k] \in Snap
      BY <2>1, <1>1 DEF IInv, TypeOK
    <3>2. Nothing[k].status \notin Settled
      BY <2>1, NoSnapIsSnap DEF Settled
    <3> QED BY <3>1, <3>2
  <2>3. at[w] \in {"pump", "take"}
    BY <1>1, <2>1, <2>2 DEF IInv, Clients
  <2>4. WriteSnapshot(w) \/ Take(w) \/ Unsubscribe(w)
    <3>1. ~(\E k2 \in Keys : RunStep(k2))
      BY DEF RunStep, Start, Launch, Persist, Finish, PersistFailure, Restore, Release, Elsewhere, cliVars
    <3>2. ~(\E t \in Threads : Update(t) \/ PublishStep(t))
      BY DEF Update, Elsewhere, PublishStep, Publish, Push, Signal, cliVars
    <3>3. ~(\E v \in Watchers : SeedStep(v)) /\ ~(\E g \in Globals : SubscribeAll(g) \/ Active(g))
      BY DEF SeedStep, SeedInFlight, SeedWatching, Hydrate, Subscribe, SubscribeAll, Active
    <3>4. PICK s \in Subs : PumpStep(s) \/ Unsubscribe(s)
      BY <1>1, <3>1, <3>2, <3>3 DEF Next, vars, cliVars
    <3>5. ~Ready(s)
      BY DEF Ready
    <3>6. s = w
      BY <2>1, <2>2, <3>4, <3>5 DEF PumpStep, WriteSnapshot, Take, Unsubscribe
    <3> QED BY <3>4, <3>5, <3>6 DEF PumpStep
  <2>5. CASE Take(w)
    <3>1. shown'[w][k] = Displayed(w, shown[w][k], pending[w][k])
      BY <2>1, <2>2, <2>5 DEF Take
    <3>2. CASE pending[w][k] = NoSnap
      BY <3>1, <3>2 DEF Displayed
    <3>3. CASE pending[w][k] # NoSnap
      <4>1. shown'[w][k] = pending[w][k]
        BY <2>1, <3>1, <3>3 DEF Displayed
      <4>2. pending[w][k].status # "none"
        BY <1>1, <3>3 DEF IInv, Clients
      <4>3. pending[w][k].status # "running"
        BY <1>1, <4>1 DEF IInv, Clients, Ended
      <4> QED BY <2>2, <4>1, <4>2, <4>3 DEF Snap
    <3> QED BY <3>2, <3>3
  <2>6. CASE Unsubscribe(w)
    <3>1. shown'[w][k] = NoSnap
      BY <2>1, <2>2, <2>6, NoSnapIsSnap DEF Unsubscribe
    <3>2. shown[w][k].run # 0
      BY <1>1, <2>1 DEF IInv, Snaps, Heard
    <3> QED BY <3>1, <3>2, NoSnapIsSnap
  <2> QED BY <2>3, <2>4, <2>5, <2>6 DEF WriteSnapshot
<1> QED BY <1>1, Invariance, PTL DEF Spec, NoResurrection
=============================================================================
