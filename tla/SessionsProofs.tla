--------------------------- MODULE SessionsProofs ---------------------------
(***************************************************************************)
(* What SweepOpencodeSessions may delete, for any pull requests, sessions, *)
(* sweeps and bounds: the list of a sweep never meets what was referred to *)
(* when it read and still is, and nothing but heckl's own sessions is ever *)
(* on it.                                                                  *)
(***************************************************************************)
EXTENDS Sessions, TLAPS

Runs   == /\ run \in [PRs -> Run] /\ created \in 0..MaxSessions
          /\ \A p \in PRs : run[p].pc = "track" => run[p].id \in Ids
Own    == ledger \subseteq Ids /\ Foreign \subseteq opencode
Sweeps == /\ sweep \in [Sweepers -> Sweep] /\ kept = [s \in Sweepers |-> kept[s]]
          /\ \A s \in Sweepers : sweep[s].todo \cap kept[s] = {}

\* The conjuncts are kept apart by who changes them: the runs, the ledger, the sweeps.
IInv == Runs /\ Own /\ Sweeps

LEMMA InitIInv == Init => IInv
BY SessionsAssumption DEF Init, IInv, Runs, Own, Sweeps, Run, Sweep, NoRun, NoSweep, Ids

\* A step of a run that writes no row and tracks nothing leaves the sweeps alone; one
\* that writes a row can only take from what is kept.
LEMMA RunStepIInv ==
  ASSUME IInv, NEW p \in PRs, RunStep(p)
  PROVE  IInv'
<1> USE SessionsAssumption DEF IInv, RunFrame
<1>1. Runs'
  <2>1. ASSUME NEW base \in 0..MaxRows, Start(p, base) PROVE Runs'
    BY <2>1 DEF Start, Runs, Run, Ids
  <2>2. CASE CreateSession(p)
    <3> DEFINE id == created + 1
    <3>1. id \in 0..MaxSessions /\ id \in Ids /\ created' = id
      BY <2>2 DEF CreateSession, Runs, Ids
    <3>2. run[p] \in Run /\ run \in [PRs -> Run]
      BY DEF Runs
    <3>3. [run[p] EXCEPT !.pc = "track", !.id = id] \in Run
      BY <3>1, <3>2 DEF Run
    <3>4. run' = [run EXCEPT ![p] = [run[p] EXCEPT !.pc = "track", !.id = id]]
      BY <2>2, <3>2 DEF CreateSession
    <3>5. \A q \in PRs : q # p => run'[q] = run[q]
      BY <3>2, <3>4
    <3>6. run'[p].id = id
      BY <3>2, <3>3, <3>4 DEF Run
    <3> QED BY <3>1, <3>2, <3>3, <3>4, <3>5, <3>6 DEF Runs
  <2>3. CASE CreateFailed(p) \/ Finished(p) \/ Cancelled(p) \/ Track(p)
    BY <2>3 DEF CreateFailed, Finished, Cancelled, Track, Goes, Runs, Run, Ids
  <2>4. CASE Failed(p) \/ StoreSession(p) \/ StoreAgent(p)
    <3>1. UNCHANGED created /\ (Goes(p, "release") \/ Goes(p, "agent"))
      BY <2>4 DEF Failed, StoreSession, StoreAgent
    <3> QED BY <3>1 DEF Goes, Runs, Run, Ids
  <2>5. CASE Release(p)
    BY <2>5 DEF Release, NoRun, Runs, Run, Ids
  <2> QED BY <2>1, <2>2, <2>3, <2>4, <2>5 DEF RunStep
<1>2. Own'
  <2>1. CASE Track(p)
    BY <2>1 DEF Track, Own, Runs, Ids
  <2>2. CASE CreateSession(p)
    BY <2>2 DEF CreateSession, Own
  <2>3. CASE UNCHANGED <<ledger, opencode>>
    BY <2>3 DEF Own, Ids
  <2> QED BY <2>1, <2>2, <2>3 DEF RunStep, Start, CreateFailed, Finished, Cancelled,
                                  Failed, StoreSession, StoreAgent, Release
<1>3. Sweeps'
  <2>1. CASE UNCHANGED <<sweep, kept>>
    BY <2>1 DEF Sweeps
  <2>2. ASSUME NEW rs, Write(p, rs), UNCHANGED sweep PROVE Sweeps'
    BY <2>2 DEF Write, Sweeps
  <2> QED BY <2>1, <2>2 DEF RunStep, Start, CreateSession, CreateFailed, Track, Finished,
                            Cancelled, Failed, StoreSession, StoreAgent, Release
<1> QED BY <1>1, <1>2, <1>3

\* A read takes as its list what is in the ledger and not referred to; every other step
\* only takes from the list, and what it deletes is one of heckl's own.
LEMMA SweepStepIInv ==
  ASSUME IInv, NEW s \in Sweepers, SweepStep(s)
  PROVE  IInv'
<1> USE SessionsAssumption DEF IInv, SweepFrame, SweepGoes
<1>1. Runs'
  <2>1. UNCHANGED <<run, created>>
    BY DEF SweepStep, SweepStart, Read, SweepEnds, Forget, DeleteSession, DeleteFailed
  <2> QED BY <2>1 DEF Runs, Run, Ids
<1>2. Own'
  <2>1. ledger' \subseteq ledger
    BY DEF SweepStep, SweepStart, Read, SweepEnds, Forget, DeleteSession, DeleteFailed
  <2>2. opencode' = opencode \/ \E id \in Ids : opencode' = opencode \ {id}
    BY DEF SweepStep, SweepStart, Read, SweepEnds, Forget, DeleteSession, DeleteFailed
  <2>3. Foreign \cap Ids = {} /\ Ids' = Ids
    BY DEF Ids
  <2> QED BY <2>1, <2>2, <2>3 DEF Own
<1>3. Sweeps'
  <2>1. CASE SweepStart(s)
    BY <2>1 DEF SweepStart, Sweeps, Sweep, Ids
  <2>2. CASE Read(s)
    <3>1. sweep \in [Sweepers -> Sweep] /\ kept = [z \in Sweepers |-> kept[z]]
      BY DEF Sweeps
    <3>2. sweep' = [sweep EXCEPT ![s] = [pc |-> "delete", todo |-> Unreachable, id |-> 0]]
      BY <2>2 DEF Read
    <3>3. [pc |-> "delete", todo |-> Unreachable, id |-> 0] \in Sweep
      BY DEF Sweep, Own, Unreachable
    <3>4. sweep' \in [Sweepers -> Sweep] /\ sweep'[s].todo = Unreachable
      BY <3>1, <3>2, <3>3
    <3>5. kept' = [kept EXCEPT ![s] = Referred(rows)]
      BY <2>2 DEF Read
    <3>6. kept' = [z \in Sweepers |-> kept'[z]] /\ kept'[s] = Referred(rows)
      BY <3>1, <3>5
    <3>7. \A z \in Sweepers : z # s => sweep'[z] = sweep[z] /\ kept'[z] = kept[z]
      BY <3>1, <3>2, <3>5
    <3>8. sweep'[s].todo \cap kept'[s] = {}
      BY <3>4, <3>6 DEF Unreachable
    <3> QED BY <3>4, <3>6, <3>7, <3>8 DEF Sweeps
  <2>3. CASE SweepEnds(s)
    <3>1. sweep \in [Sweepers -> Sweep] /\ kept = [z \in Sweepers |-> kept[z]]
      BY DEF Sweeps
    <3>2. sweep' = [sweep EXCEPT ![s] = NoSweep] /\ kept' = [kept EXCEPT ![s] = {}]
      BY <2>3 DEF SweepEnds, NoSweep
    <3>3. NoSweep \in Sweep /\ NoSweep.todo = {}
      BY DEF NoSweep, Sweep
    <3>4. sweep' \in [Sweepers -> Sweep] /\ sweep'[s].todo = {}
      BY <3>1, <3>2, <3>3
    <3>5. kept' = [z \in Sweepers |-> kept'[z]]
      BY <3>1, <3>2
    <3>6. \A z \in Sweepers : z # s => sweep'[z] = sweep[z] /\ kept'[z] = kept[z]
      BY <3>1, <3>2
    <3> QED BY <3>4, <3>5, <3>6 DEF Sweeps
  <2>4. CASE Forget(s)
    BY <2>4 DEF Forget, Sweeps, Sweep, Ids
  <2>5. ASSUME NEW id \in Ids, DeleteSession(s, id) \/ DeleteFailed(s, id) PROVE Sweeps'
    BY <2>5 DEF DeleteSession, DeleteFailed, Sweeps, Sweep, Ids
  <2> QED BY <2>1, <2>2, <2>3, <2>4, <2>5 DEF SweepStep
<1> QED BY <1>1, <1>2, <1>3

LEMMA NextIInv == IInv /\ [Next]_vars => IInv'
<1> SUFFICES ASSUME IInv, [Next]_vars PROVE IInv'
  OBVIOUS
<1>1. ASSUME NEW p \in PRs, RunStep(p) PROVE IInv'
  BY <1>1, RunStepIInv
<1>2. ASSUME NEW s \in Sweepers, SweepStep(s) PROVE IInv'
  BY <1>2, SweepStepIInv
<1>3. CASE Restart
  BY <1>3, SessionsAssumption
     DEF Restart, IInv, Runs, Own, Sweeps, Run, Sweep, NoRun, NoSweep, Ids
<1>4. CASE UNCHANGED vars
  BY <1>4 DEF vars, IInv, Runs, Own, Sweeps, Ids
<1> QED BY <1>1, <1>2, <1>3, <1>4 DEF Next

\* Whatever the runs write while a sweep is under way, the sweep never has on its list
\* a session that is not heckl's own, or that a row referred to when it read and still
\* refers to (SweepOpencodeSessions, UnreachableOpencodeSessions).
THEOREM SweptIsUnreachable == Spec => []OnlyUnreachableSwept
<1>1. IInv => OnlyUnreachableSwept
  BY DEF IInv, Own, Sweeps, OnlyUnreachableSwept
<1> QED BY <1>1, InitIInv, NextIInv, PTL DEF Spec

-----------------------------------------------------------------------------
(* Types: sessions are numbered as they are created, and nothing stored, tracked or *)
(* kept has a number that is still to come. *)

Rows(n) == [primary : 0..n, agent : 0..n]

Numbered ==
  /\ rows \in [PRs -> Seq(Rows(created))]
  /\ opencode \subseteq Foreign \cup 1..created /\ ledger \subseteq 1..created
  /\ \A p \in PRs : run[p].id <= created
  /\ due \in Nat /\ restarts \in 0..MaxRestarts
  /\ kept \in [Sweepers -> SUBSET Ids]

LEMMA MoreRows ==
  ASSUME NEW n \in Nat, NEW m \in Nat, n <= m, NEW rs \in Seq(Rows(n))
  PROVE  rs \in Seq(Rows(m))
<1>1. Rows(n) \subseteq Rows(m)
  BY DEF Rows
<1> QED BY <1>1

LEMMA ReferredIsNumbered ==
  ASSUME NEW n \in Nat, NEW rs \in [PRs -> Seq(Rows(n))]
  PROVE  Referred(rs) \subseteq 1..n
<1> SUFFICES ASSUME NEW x \in Referred(rs) PROVE x \in 1..n
  OBVIOUS
<1>1. PICK p \in PRs : x \in UNION {{rs[p][i].primary, rs[p][i].agent} : i \in DOMAIN rs[p]}
  BY DEF Referred
<1>2. PICK i \in DOMAIN rs[p] : x \in {rs[p][i].primary, rs[p][i].agent}
  BY <1>1
<1>3. rs[p] \in Seq(Rows(n)) /\ rs[p][i] \in Rows(n)
  BY <1>2
<1>4. x # 0
  BY DEF Referred
<1> QED BY <1>2, <1>3, <1>4 DEF Rows

LEMMA InitNumbered == Init => Numbered
<1> SUFFICES ASSUME Init PROVE Numbered
  OBVIOUS
<1>1. <<>> \in Seq(Rows(0))
  OBVIOUS
<1> QED BY <1>1, SessionsAssumption DEF Init, Numbered, NoRun

LEMMA WriteNumbered ==
  ASSUME IInv, Numbered, NEW p \in PRs, NEW rs \in Seq(Rows(created)), Write(p, rs)
  PROVE  rows' \in [PRs -> Seq(Rows(created))] /\ kept' \in [Sweepers -> SUBSET Ids]
BY DEF Write, Numbered

LEMMA RunStepNumbered ==
  ASSUME IInv, Numbered, NEW p \in PRs, RunStep(p)
  PROVE  Numbered'
<1> USE SessionsAssumption DEF RunFrame
<1>1. /\ created \in Nat /\ run \in [PRs -> Run] /\ run[p].id \in 0..created /\ run[p] \in Run
      /\ rows[p] \in Seq(Rows(created)) /\ Ids' = Ids /\ Sweepers' = Sweepers
  BY DEF IInv, Runs, Run, Numbered, Ids, Sweepers
<1>2. ASSUME NEW base \in 0..MaxRows, Start(p, base) PROVE Numbered'
  <2>1. \A q \in PRs : run'[q].id <= created
    BY <1>1, <1>2 DEF Start, Numbered
  <2> QED BY <1>1, <1>2, <2>1 DEF Start, Numbered
<1>3. CASE CreateSession(p)
  <2>1. created' = created + 1 /\ created' \in Nat /\ 1..created \subseteq 1..created'
        /\ created' \in 1..created' /\ created <= created'
    BY <1>1, <1>3 DEF CreateSession
  <2>2. rows' \in [PRs -> Seq(Rows(created'))]
    <3>1. \A q \in PRs : rows[q] \in Seq(Rows(created'))
      BY <1>1, <2>1, MoreRows DEF Numbered
    <3>2. rows' = rows /\ rows = [q \in PRs |-> rows[q]]
      BY <1>3 DEF CreateSession, Numbered
    <3> QED BY <3>1, <3>2
  <2>3. \A q \in PRs : run'[q].id <= created'
    <3>1. run' = [run EXCEPT ![p] = [run[p] EXCEPT !.pc = "track", !.id = created']]
      BY <1>1, <1>3, <2>1 DEF CreateSession
    <3>2. run'[p].id = created' /\ \A q \in PRs : q # p => run'[q] = run[q]
      BY <1>1, <3>1 DEF Run
    <3>3. \A q \in PRs : run[q].id \in Nat /\ run[q].id <= created
      BY <1>1 DEF Run, Numbered
    <3> QED BY <1>1, <2>1, <3>2, <3>3
  <2>4. opencode' \subseteq Foreign \cup 1..created' /\ ledger' \subseteq 1..created'
    BY <1>3, <2>1 DEF CreateSession, Numbered
  <2> QED BY <1>1, <1>3, <2>2, <2>3, <2>4 DEF CreateSession, Numbered
<1>4. ASSUME Goes(p, "track") \/ Goes(p, "work") \/ Goes(p, "session") \/ Goes(p, "agent") \/ Goes(p, "release")
      PROVE  \A q \in PRs : run'[q].id <= created
  <2>1. PICK to : run' = [run EXCEPT ![p] = [run[p] EXCEPT !.pc = to]]
    BY <1>1, <1>4 DEF Goes
  <2>2. run'[p].id = run[p].id /\ \A q \in PRs : q # p => run'[q] = run[q]
    BY <1>1, <2>1 DEF Run
  <2> QED BY <2>2 DEF Numbered
<1>5. CASE Track(p)
  <2>1. ledger' \subseteq 1..created
    <3>1. run[p].id \in 1..created
      BY <1>1, <1>5 DEF Track, IInv, Runs, Ids
    <3> QED BY <1>5, <3>1 DEF Track, Numbered
  <2> QED BY <1>1, <1>4, <1>5, <2>1 DEF Track, Numbered
<1>6. CASE CreateFailed(p) \/ Finished(p) \/ Cancelled(p)
  BY <1>1, <1>4, <1>6 DEF CreateFailed, Finished, Cancelled, Numbered
<1>7. ASSUME Goes(p, "agent") \/ Goes(p, "release"), UNCHANGED <<created, opencode, ledger, due, restarts>>,
             NEW rs \in Seq(Rows(created)), Write(p, rs) \/ UNCHANGED <<rows, kept>>
      PROVE  Numbered'
  <2>1. rows' \in [PRs -> Seq(Rows(created))] /\ kept' \in [Sweepers -> SUBSET Ids]
    BY <1>7, WriteNumbered DEF Numbered
  <2> QED BY <1>1, <1>4, <1>7, <2>1 DEF Numbered
<1>8. NewRow(p) \in Seq(Rows(created))
  <2>1. [primary |-> run[p].id, agent |-> 0] \in Rows(created)
    BY <1>1 DEF Rows
  <2> QED BY <1>1, <2>1 DEF NewRow
<1>9. CASE Failed(p) \/ StoreSession(p)
  BY <1>7, <1>8, <1>9 DEF Failed, StoreSession
<1>10. CASE StoreAgent(p)
  <2> DEFINE rs(i) == [rows[p] EXCEPT ![i].agent = run[p].id]
  <2>1. ASSUME NEW i PROVE rs(i) \in Seq(Rows(created))
    <3>1. ASSUME NEW x \in Rows(created) PROVE [x EXCEPT !.agent = run[p].id] \in Rows(created)
      BY <1>1 DEF Rows
    <3>2. Len(rows[p]) \in Nat /\ rows[p] \in [1..Len(rows[p]) -> Rows(created)]
      BY <1>1
    <3>3. rs(i) \in [1..Len(rows[p]) -> Rows(created)]
      BY <3>1, <3>2
    <3> QED BY <3>2, <3>3
  <2>2. PICK i : Write(p, rs(i))
    BY <1>10 DEF StoreAgent
  <2> QED BY <1>7, <1>10, <2>1, <2>2 DEF StoreAgent
<1>11. CASE Release(p)
  <2>1. \A q \in PRs : run'[q].id <= created
    BY <1>1, <1>11 DEF Release, NoRun, Numbered
  <2> QED BY <1>1, <1>11, <2>1 DEF Release, Numbered
<1> QED BY <1>2, <1>3, <1>5, <1>6, <1>9, <1>10, <1>11 DEF RunStep

LEMMA SweepStepNumbered ==
  ASSUME IInv, Numbered, NEW s \in Sweepers, SweepStep(s)
  PROVE  Numbered'
<1> USE SessionsAssumption DEF SweepFrame
<1>1. Ids' = Ids /\ Sweepers' = Sweepers /\ UNCHANGED <<created, rows, run, restarts>>
  BY DEF Ids, Sweepers, SweepStep, SweepStart, Read, SweepEnds, Forget, DeleteSession, DeleteFailed
<1>2. opencode' \subseteq opencode /\ ledger' \subseteq ledger
  BY DEF SweepStep, SweepStart, Read, SweepEnds, Forget, DeleteSession, DeleteFailed
<1>3. due' \in Nat
  <2>1. CASE SweepStart(s)
    <3>1. s # Job => due \in Nat /\ due > 0 /\ due - 1 \in Nat
      BY <2>1 DEF SweepStart, Numbered
    <3> QED BY <2>1, <3>1 DEF SweepStart, Numbered
  <2>2. CASE UNCHANGED due
    BY <2>2 DEF Numbered
  <2> QED BY <2>1, <2>2 DEF SweepStep, Read, SweepEnds, Forget, DeleteSession, DeleteFailed
<1>4. kept' \in [Sweepers -> SUBSET Ids]
  <2>1. Referred(rows) \subseteq Ids
    <3>1. created \in 0..MaxSessions /\ 1..created \subseteq Ids
      BY DEF IInv, Runs, Ids
    <3> QED BY <3>1, ReferredIsNumbered DEF Numbered
  <2> QED BY <2>1 DEF Numbered, SweepStep, SweepStart, Read, SweepEnds, Forget, DeleteSession, DeleteFailed
<1> QED BY <1>1, <1>2, <1>3, <1>4 DEF Numbered

LEMMA NextNumbered == IInv /\ Numbered /\ [Next]_vars => Numbered'
<1> SUFFICES ASSUME IInv, Numbered, [Next]_vars PROVE Numbered'
  OBVIOUS
<1>1. ASSUME NEW p \in PRs, RunStep(p) PROVE Numbered'
  BY <1>1, RunStepNumbered
<1>2. ASSUME NEW s \in Sweepers, SweepStep(s) PROVE Numbered'
  BY <1>2, SweepStepNumbered
<1>3. CASE Restart
  <2>1. created \in Nat /\ restarts' \in 0..MaxRestarts
    BY <1>3, SessionsAssumption DEF Restart, Numbered, IInv, Runs
  <2> QED BY <1>3, <2>1 DEF Restart, Numbered, NoRun, Ids, Sweepers
<1>4. CASE UNCHANGED vars
  BY <1>4 DEF vars, Numbered, Ids, Sweepers
<1> QED BY <1>1, <1>2, <1>3, <1>4 DEF Next

\* No row, ledger entry or list of a sweep ever has a session that was not created, and
\* every variable has its type (runAgent, persist, SweepOpencodeSessions).
THEOREM TypeCorrect == Spec => []TypeOK
<1>1. IInv /\ Numbered => TypeOK
  <2> SUFFICES ASSUME IInv, Numbered PROVE TypeOK
    OBVIOUS
  <2>1. created \in 0..MaxSessions /\ created \in Nat /\ MaxSessions \in Nat /\ created <= MaxSessions
    BY SessionsAssumption DEF IInv, Runs
  <2>2. Referred(rows) \subseteq 1..created
    BY <2>1, ReferredIsNumbered DEF Numbered
  <2>3. rows \in [PRs -> Seq([primary : 0..MaxSessions, agent : 0..MaxSessions])]
    <3>1. \A p \in PRs : rows[p] \in Seq(Rows(MaxSessions))
      BY <2>1, MoreRows DEF Numbered
    <3> QED BY <3>1 DEF Numbered, Rows
  <2> QED BY <2>1, <2>2, <2>3 DEF IInv, Runs, Sweeps, Numbered, TypeOK
<1> QED BY <1>1, InitIInv, NextIInv, InitNumbered, NextNumbered, PTL DEF Spec
=============================================================================
