------------------------------ MODULE Sessions ------------------------------
(***************************************************************************)
(* The opencode sessions heckl creates and sweeps: reviewer.runAgent and   *)
(* persist as far as they write session ids, the ledger opencode_sessions, *)
(* the two tables that refer to a session, and SweepOpencodeSessions,      *)
(* which runs every seven hours and after every review.                    *)
(*                                                                         *)
(* A pull request has one run at a time with one agent (ReviewRun has the  *)
(* rest); its reviews are rows that refer to the session of their first    *)
(* run and to the one of their agent's last.                               *)
(***************************************************************************)
EXTENDS Naturals, Sequences, FiniteSets

CONSTANTS
  PRs,          \* the pull requests
  Foreign,      \* sessions somebody else created in opencode
  Undeletable,  \* sessions opencode refuses to delete
  Job, OnDone,  \* the sweep of the scheduled job, and those after a review
  MaxSessions,  \* bound: sessions heckl creates
  MaxRows,      \* bound: reviews of a pull request
  MaxDue,       \* bound: a run starts while fewer sweeps after reviews have yet to start
  MaxRestarts   \* bound

Ids      == 1..MaxSessions
Sweepers == {Job} \cup OnDone

ASSUME SessionsAssumption ==
  /\ MaxSessions \in Nat /\ MaxRows \in Nat /\ MaxDue \in Nat /\ MaxRestarts \in Nat
  /\ Foreign \cap Ids = {} /\ Undeletable \subseteq Ids
  /\ Job \notin OnDone

VARIABLES
  created,      \* how many sessions heckl created; the id of a session is its number
  opencode,     \* the sessions that exist
  ledger,       \* the rows of opencode_sessions
  rows,         \* the reviews of a pull request: what they refer to, 0 for nothing
  run,          \* where the run of a pull request is
  due,          \* onDone goroutines that have not started
  sweep,        \* where a sweep is and what it has left to delete
  restarts,     \* how often the process died
  kept          \* history: what was referred to when a sweep read, and still is

vars == <<created, opencode, ledger, rows, run, due, sweep, restarts, kept>>

-----------------------------------------------------------------------------
NoRun   == [pc |-> "off", id |-> 0, base |-> 0]
NoSweep == [pc |-> "idle", todo |-> {}, id |-> 0]

Run   == [pc : {"off", "create", "track", "work", "session", "agent", "release"},
          id : 0..MaxSessions, base : Nat]
Sweep == [pc : {"idle", "read", "delete", "forget"}, todo : SUBSET Ids, id : 0..MaxSessions]

\* pr_review_sessions.opencode_session_id and review_agents.opencode_session_id.
Referred(rs) ==
  (UNION {UNION {{rs[p][i].primary, rs[p][i].agent} : i \in DOMAIN rs[p]} : p \in PRs}) \ {0}

TypeOK ==
  /\ created \in 0..MaxSessions
  /\ opencode \subseteq Foreign \cup 1..created
  /\ ledger \subseteq 1..created /\ Referred(rows) \subseteq 1..created
  /\ rows \in [PRs -> Seq([primary : 0..MaxSessions, agent : 0..MaxSessions])]
  /\ run \in [PRs -> Run]
  /\ due \in Nat
  /\ sweep \in [Sweepers -> Sweep]
  /\ restarts \in 0..MaxRestarts
  /\ kept \in [Sweepers -> SUBSET Ids]

Init ==
  /\ created = 0 /\ opencode = Foreign /\ ledger = {}
  /\ rows = [p \in PRs |-> <<>>]
  /\ run = [p \in PRs |-> NoRun]
  /\ due = 0 /\ restarts = 0
  /\ sweep = [s \in Sweepers |-> NoSweep]
  /\ kept = [s \in Sweepers |-> {}]

-----------------------------------------------------------------------------
(* A run *)

Goes(p, to) == run' = [run EXCEPT ![p].pc = to]

RunFrame == UNCHANGED <<sweep, restarts>>

\* A first review, or a rerun of the newest.
Start(p, base) ==
  /\ run[p].pc = "off" /\ due < MaxDue
  /\ base \in {0, Len(rows[p])} /\ (base = 0 => Len(rows[p]) < MaxRows)
  /\ run' = [run EXCEPT ![p] = [pc |-> "create", id |-> 0, base |-> base]]
  /\ UNCHANGED <<created, opencode, ledger, rows, due, kept>> /\ RunFrame

CreateSession(p) ==
  /\ run[p].pc = "create" /\ created < MaxSessions
  /\ created' = created + 1
  /\ opencode' = opencode \cup {created + 1}
  /\ run' = [run EXCEPT ![p].pc = "track", ![p].id = created + 1]
  /\ UNCHANGED <<ledger, rows, due, kept>> /\ RunFrame

\* As if the id of a session that was not created were kept.
CreateFailedTracked(p) ==
  /\ run[p].pc = "create" /\ run[p].base # 0
  /\ Goes(p, "track")
  /\ UNCHANGED <<created, opencode, ledger, rows, due, kept>> /\ RunFrame

\* The agent of a rerun fails without a session, which is stored.
CreateFailed(p) ==
  /\ run[p].pc = "create" /\ run[p].base # 0
  /\ Goes(p, "session")
  /\ UNCHANGED <<created, opencode, ledger, rows, due, kept>> /\ RunFrame

\* A failure is a warning.
Track(p) ==
  /\ run[p].pc = "track"
  /\ ledger' \in {ledger, ledger \cup {run[p].id}}
  /\ Goes(p, "work")
  /\ UNCHANGED <<created, opencode, rows, due, kept>> /\ RunFrame

Write(p, rs) ==
  /\ rows' = [rows EXCEPT ![p] = rs]
  /\ kept' = [s \in Sweepers |-> kept[s] \cap Referred(rows')]

NewRow(p) == Append(rows[p], [primary |-> run[p].id, agent |-> 0])

\* The agent reports, or fails in a rerun: there is something to store.
Finished(p) ==
  /\ run[p].pc = "work"
  /\ Goes(p, "session")
  /\ UNCHANGED <<created, opencode, ledger, rows, due, kept>> /\ RunFrame

Cancelled(p) ==
  /\ run[p].pc = "work"
  /\ Goes(p, "release")
  /\ UNCHANGED <<created, opencode, ledger, rows, due, kept>> /\ RunFrame

\* persistFailure, after a failed first review or a failed statement of persist: a
\* rerun writes nothing, and what a first review writes may fail too.
Failed(p) ==
  /\ \/ run[p].pc \in {"session", "agent"}
     \/ run[p].pc \in {"create", "work"} /\ run[p].base = 0
  /\ \/ run[p].base = 0 /\ Write(p, NewRow(p))
     \/ UNCHANGED <<rows, kept>>
  /\ Goes(p, "release")
  /\ UNCHANGED <<created, opencode, ledger, due>> /\ RunFrame

StoreSession(p) ==
  /\ run[p].pc = "session"
  /\ IF run[p].base = 0 THEN Write(p, NewRow(p)) ELSE UNCHANGED <<rows, kept>>
  /\ Goes(p, "agent")
  /\ UNCHANGED <<created, opencode, ledger, due>> /\ RunFrame

\* UpsertReviewAgent: an earlier session of the agent is not referred to any more.
StoreAgent(p) ==
  /\ run[p].pc = "agent"
  /\ LET row == IF run[p].base = 0 THEN Len(rows[p]) ELSE run[p].base
     IN  Write(p, [rows[p] EXCEPT ![row].agent = run[p].id])
  /\ Goes(p, "release")
  /\ UNCHANGED <<created, opencode, ledger, due>> /\ RunFrame

Release(p) ==
  /\ run[p].pc = "release"
  /\ run' = [run EXCEPT ![p] = NoRun]
  /\ due' = due + 1
  /\ UNCHANGED <<created, opencode, ledger, rows, kept>> /\ RunFrame

-----------------------------------------------------------------------------
(* SweepOpencodeSessions *)

SweepFrame == UNCHANGED <<created, rows, run, restarts>>

SweepGoes(s, to, todo, id) == sweep' = [sweep EXCEPT ![s] = [pc |-> to, todo |-> todo, id |-> id]]

SweepStart(s) ==
  /\ sweep[s].pc = "idle"
  /\ s # Job => due > 0
  /\ due' = IF s = Job THEN due ELSE due - 1
  /\ SweepGoes(s, "read", {}, 0)
  /\ UNCHANGED <<opencode, ledger, kept>> /\ SweepFrame

\* UnreachableOpencodeSessions; without the agents' table in the query, and with it.
UnreachableByReview ==
  ledger \ UNION {{rows[p][i].primary : i \in DOMAIN rows[p]} : p \in PRs}
Unreachable == ledger \ Referred(rows)

Read(s) ==
  /\ sweep[s].pc = "read"
  /\ SweepGoes(s, "delete", Unreachable, 0)
  /\ kept' = [kept EXCEPT ![s] = Referred(rows)]
  /\ UNCHANGED <<opencode, ledger, due>> /\ SweepFrame

\* Nothing left, or the read failed.
SweepEnds(s) ==
  /\ \/ sweep[s].pc = "delete" /\ sweep[s].todo = {}
     \/ sweep[s].pc = "read"
  /\ SweepGoes(s, "idle", {}, 0)
  /\ kept' = [kept EXCEPT ![s] = {}]
  /\ UNCHANGED <<opencode, ledger, due>> /\ SweepFrame

\* By created_at.
Oldest(s, id) == id \in sweep[s].todo /\ \A other \in sweep[s].todo : id <= other

DeleteSession(s, id) ==
  /\ sweep[s].pc = "delete" /\ Oldest(s, id) /\ id \notin Undeletable
  /\ opencode' = opencode \ {id}
  /\ SweepGoes(s, "forget", sweep[s].todo \ {id}, id)
  /\ UNCHANGED <<ledger, due, kept>> /\ SweepFrame

\* The first failure ends the sweep.
DeleteFailedStops(s, id) ==
  /\ sweep[s].pc = "delete" /\ Oldest(s, id)
  /\ SweepGoes(s, "delete", {}, 0)
  /\ UNCHANGED <<opencode, ledger, due, kept>> /\ SweepFrame

DeleteFailed(s, id) ==
  /\ sweep[s].pc = "delete" /\ Oldest(s, id)
  /\ SweepGoes(s, "delete", sweep[s].todo \ {id}, 0)
  /\ UNCHANGED <<opencode, ledger, due, kept>> /\ SweepFrame

\* A failure leaves the row for the next sweep.
Forget(s) ==
  /\ sweep[s].pc = "forget"
  /\ ledger' \in {ledger, ledger \ {sweep[s].id}}
  /\ SweepGoes(s, "delete", sweep[s].todo, 0)
  /\ UNCHANGED <<opencode, due, kept>> /\ SweepFrame

-----------------------------------------------------------------------------
\* The process dies and starts again: opencode and the database stay.
Restart ==
  /\ restarts < MaxRestarts
  /\ restarts' = restarts + 1
  /\ run' = [p \in PRs |-> NoRun] /\ due' = 0
  /\ sweep' = [s \in Sweepers |-> NoSweep]
  /\ kept' = [s \in Sweepers |-> {}]
  /\ UNCHANGED <<created, opencode, ledger, rows>>

RunStep(p) ==
  \/ (\E base \in 0..MaxRows : Start(p, base))
  \/ CreateSession(p) \/ CreateFailed(p) \/ Track(p)
  \/ Finished(p) \/ Cancelled(p) \/ Failed(p)
  \/ StoreSession(p) \/ StoreAgent(p) \/ Release(p)

SweepStep(s) ==
  \/ SweepStart(s) \/ Read(s) \/ SweepEnds(s) \/ Forget(s)
  \/ \E id \in Ids : DeleteSession(s, id) \/ DeleteFailed(s, id)

Next ==
  \/ \E p \in PRs : RunStep(p)
  \/ \E s \in Sweepers : SweepStep(s)
  \/ Restart

Spec == Init /\ [][Next]_vars

(***************************************************************************)
(* The job comes round every seven hours and its steps are one goroutine.  *)
(* What is asked of the rest of the world: the query does not fail for     *)
(* ever, nor does the deletion of a session that can be deleted.           *)
(***************************************************************************)
Fairness ==
  /\ WF_vars(SweepStep(Job))
  /\ SF_vars(Read(Job))
  /\ \A id \in Ids : SF_vars(DeleteSession(Job, id))

FairSpec == Spec /\ Fairness

-----------------------------------------------------------------------------
(* Properties *)

\* No sweep has a session on its list that is not heckl's own or that a stored
\* review or agent referred to when it read and still refers to (the ledger and both
\* halves of UnreachableOpencodeSessions).
OnlyUnreachableSwept ==
  /\ Foreign \subseteq opencode
  /\ \A s \in Sweepers : sweep[s].todo \cap kept[s] = {}

\* A tracked session that no run works in and no row refers to, a rerun's casualty or
\* what a cancelled or interrupted run left, is deleted in the end, whatever other
\* sessions cannot be (the continue of the sweep, the job that comes round).
DeadCollected ==
  \A id \in Ids \ Undeletable :
    (id \in ledger \ Referred(rows) /\ \A p \in PRs : run[p].id # id) ~> id \notin opencode

\* docs/architecture.md: a session is dead when heckl can no longer navigate to it. A
\* session an agent works in is linked from its review in flight.
InFlightKept == \A p \in PRs : run[p].pc = "work" => run[p].id \in opencode
=============================================================================
