----------------------------- MODULE Worktrees -----------------------------
(***************************************************************************)
(* The worktrees of one repository: who checks them out (checkout.Manager),*)
(* who uses them (a running review, a tmux session) and who removes them   *)
(* (the three sweeps of server/reap.go and server/jobs.go).                *)
(*                                                                         *)
(* The processes are the run of a review and the handler that opens a tmux *)
(* session, at most one of each per pull request, and the sweeps: Jobs for *)
(* the scheduled one, Closers for those a list of pull requests triggers,  *)
(* Cleaners for those that follow killed tmux sessions.  GitHub and tmux   *)
(* change on their own.                                                    *)
(***************************************************************************)
EXTENDS Naturals, FiniteSets

CONSTANTS
  PRs,          \* the pull requests of the repository
  Shas,         \* commits, and by pull request those its head may be at
  Commits,
  Existing,     \* the worktrees that may be on disk when the server starts
  Users,        \* <<"review", p>> and <<"tmux", p>>: the runs and handlers there may be
  Jobs, Closers, Cleaners,
  Selections,   \* the pull requests a client may ask to clean up at once
  PageSize,     \* github.PRPageSize
  MaxMoves      \* bound: pushes, closes and reopenings

Sweepers == Jobs \cup Closers \cup Cleaners
Trees    == {t \in PRs \X Shas : t[2] \in Commits[t[1]]}

ASSUME WorktreesAssumption ==
  /\ IsFiniteSet(PRs)
  /\ Users \subseteq {"review", "tmux"} \X PRs
  /\ Jobs \cap Closers = {} /\ Jobs \cap Cleaners = {} /\ Closers \cap Cleaners = {}
  /\ Commits \in [PRs -> (SUBSET Shas) \ {{}}] /\ Existing \subseteq Trees
  /\ Selections \subseteq SUBSET PRs
  /\ PageSize \in Nat /\ MaxMoves \in Nat

VARIABLES
  head,         \* GitHub: the head of a pull request
  open,         \* GitHub: the open pull requests
  moves,        \* how often GitHub changed
  disk,         \* the directory of each worktree
  lock,         \* the user that holds the repository's lock, or <<>>
  user,         \* where a run or a handler is, and the head it read
  live,         \* the pull requests that have a live tmux session
  row,          \* those that have a row in tmux_sessions
  sweep,        \* where a sweep is and what it has read
  guarded,      \* history: the consumers a sweep could see and that are still there
  steady        \* history: the trees of open heads a sweep could see, unchanged since

github  == <<head, open, moves>>
tmux    == <<live, row>>
history == <<guarded, steady>>
vars    == <<github, disk, lock, user, tmux, sweep, history>>

-----------------------------------------------------------------------------
\* A directory that is partial has its HEAD at its commit, but not all its files; a
\* torn one has not even that.
Dirs == {"absent", "torn", "partial", "complete"}

Off  == [pc |-> "off", sha |-> <<>>]
Idle == [pc |-> "idle", refs |-> {}, pins |-> {}, trees |-> {}, tree |-> <<>>]

TypeOK ==
  /\ head \in [PRs -> Shas] /\ (\A p \in PRs : head[p] \in Commits[p])
  /\ open \subseteq PRs /\ moves \in 0..MaxMoves
  /\ disk \in [Trees -> Dirs]
  /\ lock \in Users \cup {<<>>}
  /\ user \in [Users -> [pc : {"off", "fetch", "lock", "checkout", "agents",
                               "kill", "create", "save"}, sha : Shas \cup {<<>>}]]
  /\ \A u \in Users : lock = u <=> user[u].pc = "checkout"
  /\ live \subseteq PRs /\ row \subseteq PRs
  /\ sweep \in [Sweepers -> [pc : {"idle", "kill", "delete", "reviews", "sessions", "ref",
                                   "list", "prs", "remove", "lock"},
                             refs : SUBSET PRs, pins : SUBSET PRs, trees : SUBSET Trees,
                             tree : Trees \cup {<<>>}]]
  /\ guarded \in [Sweepers -> SUBSET ({"review", "tmux"} \X PRs)]
  /\ steady \in [Sweepers -> SUBSET Trees]

Init ==
  /\ head \in [PRs -> Shas] /\ (\A p \in PRs : head[p] \in Commits[p])
  /\ open \in SUBSET PRs /\ moves = 0
  /\ \E there \in SUBSET Existing :
       disk = [t \in Trees |-> IF t \in there THEN "complete" ELSE "absent"]
  /\ lock = <<>>
  /\ user = [u \in Users |-> Off]
  /\ live = {} /\ row = {}
  /\ sweep = [s \in Sweepers |-> Idle]
  /\ guarded = [s \in Sweepers |-> {}] /\ steady = [s \in Sweepers |-> {}]

-----------------------------------------------------------------------------
(* GitHub, and tmux where the server has no part in it *)

Moved(p) ==
  /\ moves < MaxMoves
  /\ moves' = moves + 1
  /\ steady' = [s \in Sweepers |-> {t \in steady[s] : t[1] # p}]
  /\ UNCHANGED <<disk, lock, user, tmux, sweep, guarded>>

Push(p) ==
  /\ \E sha \in Commits[p] \ {head[p]} : head' = [head EXCEPT ![p] = sha]
  /\ UNCHANGED open
  /\ Moved(p)

CloseOrReopen(p) ==
  /\ open' = IF p \in open THEN open \ {p} ELSE open \cup {p}
  /\ UNCHANGED head
  /\ Moved(p)

Unguard(kind, p) == guarded' = [s \in Sweepers |-> guarded[s] \ {<<kind, p>>}]

\* The last editor of the session is closed.
SessionExits(p) ==
  /\ p \in live
  /\ live' = live \ {p}
  /\ Unguard("tmux", p)
  /\ UNCHANGED <<github, disk, lock, user, row, sweep, steady>>

-----------------------------------------------------------------------------
(* checkout.Manager.Worktree, for a run and for a handler *)

Goes(u, to)  == user' = [user EXCEPT ![u].pc = to]
Returns(u)   == user' = [user EXCEPT ![u] = Off]

Acquire(u) ==
  /\ user[u].pc = "lock" /\ lock = <<>>
  /\ lock' = u
  /\ Goes(u, "checkout")
  /\ UNCHANGED <<github, disk, tmux, sweep, history>>

TreeOf(u) == <<u[2], user[u].sha>>

\* worktreeIsAt compares HEAD and nothing else.
IsAt(t) == disk[t] \in {"partial", "complete"}

EnsureWorktree(u) ==
  disk' = IF IsAt(TreeOf(u)) THEN disk ELSE [disk EXCEPT ![TreeOf(u)] = "complete"]

Checkout(u) ==
  /\ user[u].pc = "checkout"
  /\ EnsureWorktree(u)
  /\ lock' = <<>>
  /\ Goes(u, IF u[1] = "review" THEN "agents" ELSE "kill")
  /\ UNCHANGED <<github, tmux, sweep, history>>

\* git fails or is killed with its context: before the add, in the middle of it, or at
\* rev-parse, and then a tree that is at its commit is not taken for one and removed.
Torn(t) == {disk[t], "absent", "torn", "partial"}

\* A run that fails is over; an earlier tmux session outlives a handler that fails.
Fails(u) ==
  /\ Returns(u)
  /\ IF u[1] = "review" THEN Unguard("review", u[2]) ELSE UNCHANGED guarded

\* As if the lock were released on the way of success only.
CheckoutFailedLocked(u) ==
  /\ user[u].pc = "checkout"
  /\ \E dir \in Torn(TreeOf(u)) : disk' = [disk EXCEPT ![TreeOf(u)] = dir]
  /\ Fails(u)
  /\ UNCHANGED <<github, lock, tmux, sweep, steady>>

CheckoutFailed(u) ==
  /\ user[u].pc = "checkout"
  /\ \E dir \in Torn(TreeOf(u)) : disk' = [disk EXCEPT ![TreeOf(u)] = dir]
  /\ lock' = <<>>
  /\ Fails(u)
  /\ UNCHANGED <<github, tmux, sweep, steady>>

-----------------------------------------------------------------------------
(* A review: what Runner.Active shows is a run that is not off *)

Reviewing(p) == <<"review", p>> \in Users /\ user[<<"review", p>>].pc # "off"

StartReview(u) ==
  /\ u[1] = "review" /\ user[u].pc = "off"
  /\ Goes(u, "fetch")
  /\ UNCHANGED <<github, disk, lock, tmux, sweep, history>>

\* GitHub gives the head of a closed pull request too.
FetchPR(u) ==
  /\ \/ user[u].pc = "fetch"
     \/ u[1] = "tmux" /\ user[u].pc = "off"
  /\ user' = [user EXCEPT ![u] = [pc |-> "lock", sha |-> head[u[2]]]]
  /\ UNCHANGED <<github, disk, lock, tmux, sweep, history>>

\* The agents return, or the head cannot be fetched.
EndReview(u) ==
  /\ u[1] = "review" /\ user[u].pc \in {"fetch", "agents"}
  /\ Returns(u)
  /\ Unguard("review", u[2])
  /\ UNCHANGED <<github, disk, lock, tmux, sweep, steady>>

-----------------------------------------------------------------------------
(* handleTmuxSession after its checkout, and handleGetTmuxSession *)

\* None of the files is there, or the old session cannot be killed.
GiveUp(u) ==
  /\ user[u].pc = "kill"
  /\ Returns(u)
  /\ UNCHANGED <<github, disk, lock, tmux, sweep, history>>

KillOld(u) ==
  /\ user[u].pc = "kill"
  /\ live' = live \ {u[2]}
  /\ Goes(u, "create")
  /\ Unguard("tmux", u[2])
  /\ UNCHANGED <<github, disk, lock, row, sweep, steady>>

\* What fails may leave the session there: the kill of one that lacks a window, or the
\* selection of the first.
CreateSession(u) ==
  /\ user[u].pc = "create"
  /\ \/ live' = live \cup {u[2]} /\ Goes(u, "save")
     \/ live' \in {live, live \cup {u[2]}} /\ Returns(u)
  /\ UNCHANGED <<github, disk, lock, row, sweep, history>>

SaveSession(u) ==
  /\ user[u].pc = "save"
  /\ row' \in {row, row \cup {u[2]}}
  /\ Returns(u)
  /\ UNCHANGED <<github, disk, lock, live, sweep, history>>

GetSession(p) ==
  /\ p \in row \ live
  /\ row' = row \ {p}
  /\ UNCHANGED <<github, disk, lock, user, live, sweep, history>>

-----------------------------------------------------------------------------
(* The sweeps: what they read *)

Reads(s, to, field) == sweep' = [sweep EXCEPT ![s] = [field EXCEPT !.pc = to]]

SweepFrame == UNCHANGED <<github, disk, lock, user>>

\* pinnedPRs, its first half, and of reapClosed, reapSessions and sweepWorktrees what
\* they do with it.
PinReviews(s) ==
  /\ \/ sweep[s].pc = "reviews"
     \/ s \in Jobs /\ sweep[s].pc = "idle"
  /\ Reads(s, "sessions", [sweep[s] EXCEPT !.pins = {p \in PRs : Reviewing(p)}])
  /\ guarded' = [guarded EXCEPT ![s] = {<<"review", p>> : p \in {q \in PRs : Reviewing(q)}}]
  /\ UNCHANGED <<tmux, steady>> /\ SweepFrame

Stale(s, trees, seen) == {t \in trees : t[1] \notin sweep[s].pins \cup seen}

\* The rows or the list of live sessions may be unreadable: nothing is pinned then.
PinSessions(s) ==
  /\ sweep[s].pc = "sessions"
  /\ \E seen \in {row \cap live, {}} :
       /\ Reads(s, IF s \in Jobs THEN "list" ELSE IF s \in Closers THEN "remove" ELSE "ref",
                [sweep[s] EXCEPT !.pins = @ \cup seen, !.trees = Stale(s, @, seen)])
       /\ guarded' = [guarded EXCEPT ![s] = @ \cup {<<"tmux", p>> : p \in seen}]
  /\ UNCHANGED <<tmux, steady>> /\ SweepFrame

OnDisk == {t \in Trees : disk[t] # "absent"}

\* Worktrees, in reapClosed and in sweepRepo.
ListTrees(s) ==
  /\ sweep[s].pc = "list"
  /\ IF s \in Jobs
     THEN Reads(s, "prs", [sweep[s] EXCEPT !.trees = OnDisk])
     ELSE Reads(s, "reviews", [sweep[s] EXCEPT !.trees = {t \in OnDisk : t[1] \notin sweep[s].refs}])
  /\ UNCHANGED <<tmux, history>> /\ SweepFrame

\* One page of the open pull requests, whichever GitHub puts on it.
Page == {q \in SUBSET open : Cardinality(q) = IF Cardinality(open) < PageSize
                                              THEN Cardinality(open) ELSE PageSize}

FullOffByOne(page) == Cardinality(page) > PageSize
Full(page) == Cardinality(page) >= PageSize

\* handleListPRs and the goroutine it starts: refs is the open set.
RequestPRs(s) ==
  /\ s \in Closers /\ sweep[s].pc = "idle"
  /\ \E page \in Page :
       /\ ~Full(page)
       /\ Reads(s, "list", [Idle EXCEPT !.refs = page])
  /\ steady' = [steady EXCEPT ![s] = {t \in Trees : t[1] \in open}]
  /\ UNCHANGED <<tmux, guarded>> /\ SweepFrame

\* sweepRepo: closed, or superseded.
ListPRs(s) ==
  /\ sweep[s].pc = "prs"
  /\ \E page \in Page :
       LET kept == {<<p, head[p]>> : p \in page}
       IN  IF Full(page)
           THEN sweep' = [sweep EXCEPT ![s] = Idle]
           ELSE Reads(s, "remove", [sweep[s] EXCEPT !.trees =
                        {t \in @ : t[1] \notin sweep[s].pins /\ t \notin kept}])
  /\ steady' = [steady EXCEPT ![s] = {<<p, head[p]>> : p \in open}]
  /\ UNCHANGED <<tmux, guarded>> /\ SweepFrame

-----------------------------------------------------------------------------
(* handleCleanupTmuxSessions and reapSessions *)

Cleanup(s, refs) ==
  /\ s \in Cleaners /\ sweep[s].pc = "idle"
  /\ Reads(s, "kill", [Idle EXCEPT !.refs = refs])
  /\ UNCHANGED <<tmux, history>> /\ SweepFrame

\* A kill may fail.
KillSessions(s) ==
  /\ sweep[s].pc = "kill"
  /\ \E killed \in SUBSET (sweep[s].refs \cap row \cap live) :
       /\ live' = live \ killed
       /\ guarded' = [z \in Sweepers |-> guarded[z] \ ({"tmux"} \X killed)]
  /\ Reads(s, "delete", sweep[s])
  /\ UNCHANGED <<row, steady>> /\ SweepFrame

DeleteRows(s) ==
  /\ sweep[s].pc = "delete"
  /\ row' = row \ sweep[s].refs
  /\ guarded' = [z \in Sweepers |-> guarded[z] \ ({"tmux"} \X sweep[s].refs)]
  /\ Reads(s, "reviews", sweep[s])
  /\ UNCHANGED <<live, steady>> /\ SweepFrame

\* The rows go one by one; the first failure ends the handler, and nothing is swept.
DeleteRowsFailed(s) ==
  /\ sweep[s].pc = "delete"
  /\ \E gone \in SUBSET sweep[s].refs :
       /\ gone # sweep[s].refs
       /\ row' = row \ gone
       /\ guarded' = [[z \in Sweepers |-> guarded[z] \ ({"tmux"} \X gone)] EXCEPT ![s] = {}]
  /\ sweep' = [sweep EXCEPT ![s] = Idle]
  /\ steady' = [steady EXCEPT ![s] = {}]
  /\ UNCHANGED live /\ SweepFrame

\* sessionAlive asks tmux itself; without a session the trees are listed.
NextRef(s, p) ==
  /\ sweep[s].pc = "ref" /\ p \in sweep[s].refs
  /\ LET pinned == p \in sweep[s].pins \cup live
     IN  Reads(s, IF pinned THEN "ref" ELSE "remove",
               [sweep[s] EXCEPT !.refs = @ \ {p},
                                !.trees = IF pinned THEN {} ELSE {t \in OnDisk : t[1] = p}])
  /\ UNCHANGED <<tmux, history>> /\ SweepFrame

-----------------------------------------------------------------------------
(* removeWorktrees *)

TakeTree(s, t) == [sweep[s] EXCEPT !.tree = t, !.trees = @ \ {t}]

\* reviewing, right before the delete.
RecheckSkipped(s, t) ==
  /\ sweep[s].pc = "remove" /\ t \in sweep[s].trees
  /\ Reads(s, "lock", TakeTree(s, t))
  /\ guarded' = [guarded EXCEPT ![s] = @ \cup {<<"review", p>> : p \in {q \in PRs : Reviewing(q)}}]
  /\ UNCHANGED <<tmux, steady>> /\ SweepFrame

Recheck(s, t) ==
  /\ sweep[s].pc = "remove" /\ t \in sweep[s].trees
  /\ IF Reviewing(t[1])
     THEN Reads(s, "remove", [sweep[s] EXCEPT !.trees = @ \ {t}])
     ELSE Reads(s, "lock", TakeTree(s, t))
  /\ guarded' = [guarded EXCEPT ![s] = @ \cup {<<"review", p>> : p \in {q \in PRs : Reviewing(q)}}]
  /\ UNCHANGED <<tmux, steady>> /\ SweepFrame

\* Manager.Remove once it has the lock; RemoveAll may fail half way.
Remove(s) ==
  /\ sweep[s].pc = "lock" /\ lock = <<>>
  /\ LET dir == disk[sweep[s].tree]
     IN  \E left \in {dir, "absent"} \cup (IF dir = "absent" THEN {} ELSE {"torn"})
                                     \cup (IF IsAt(sweep[s].tree) THEN {"partial"} ELSE {}) :
           disk' = [disk EXCEPT ![sweep[s].tree] = left]
  /\ Reads(s, "remove", [sweep[s] EXCEPT !.tree = <<>>])
  /\ UNCHANGED <<github, lock, user, tmux, history>>

SweepEnds(s) ==
  /\ sweep[s].pc = IF s \in Cleaners THEN "ref" ELSE "remove"
  /\ sweep[s].trees = {} /\ (s \in Cleaners => sweep[s].refs = {})
  /\ sweep' = [sweep EXCEPT ![s] = Idle]
  /\ guarded' = [guarded EXCEPT ![s] = {}] /\ steady' = [steady EXCEPT ![s] = {}]
  /\ UNCHANGED tmux /\ SweepFrame

\* GitHub does not answer, or the directory cannot be read.
SweepFailed(s) ==
  /\ sweep[s].pc \in {"list", "prs"}
  /\ sweep' = [sweep EXCEPT ![s] = Idle]
  /\ guarded' = [guarded EXCEPT ![s] = {}] /\ steady' = [steady EXCEPT ![s] = {}]
  /\ UNCHANGED tmux /\ SweepFrame

\* reapSessions goes on with its next pull request.
RefDone(s) ==
  /\ s \in Cleaners /\ sweep[s].pc = "remove" /\ sweep[s].trees = {}
  /\ Reads(s, "ref", sweep[s])
  /\ UNCHANGED <<tmux, history>> /\ SweepFrame

-----------------------------------------------------------------------------
\* The process dies and starts again: tmux, the rows and the directories stay.
Restart ==
  /\ lock' = <<>>
  /\ user' = [u \in Users |-> Off]
  /\ sweep' = [s \in Sweepers |-> Idle]
  /\ guarded' = [s \in Sweepers |-> {}] /\ steady' = [s \in Sweepers |-> {}]
  /\ IF lock = <<>> THEN UNCHANGED disk
     ELSE \E dir \in Torn(TreeOf(lock)) : disk' = [disk EXCEPT ![TreeOf(lock)] = dir]
  /\ UNCHANGED <<github, tmux>>

UserStep(u) ==
  \/ StartReview(u) \/ FetchPR(u) \/ Acquire(u) \/ Checkout(u) \/ CheckoutFailed(u)
  \/ EndReview(u) \/ GiveUp(u) \/ KillOld(u) \/ CreateSession(u) \/ SaveSession(u)

SweepStep(s) ==
  \/ PinReviews(s) \/ PinSessions(s) \/ ListTrees(s) \/ RequestPRs(s) \/ ListPRs(s)
  \/ (\E refs \in Selections : Cleanup(s, refs))
  \/ KillSessions(s) \/ DeleteRows(s) \/ DeleteRowsFailed(s) \/ RefDone(s)
  \/ (\E p \in PRs : NextRef(s, p))
  \/ (\E t \in Trees : Recheck(s, t))
  \/ Remove(s) \/ SweepEnds(s) \/ SweepFailed(s)

Next ==
  \/ \E p \in PRs : Push(p) \/ CloseOrReopen(p) \/ SessionExits(p) \/ GetSession(p)
  \/ \E u \in Users : UserStep(u)
  \/ \E s \in Sweepers : SweepStep(s)
  \/ Restart

Spec == Init /\ [][Next]_vars

-----------------------------------------------------------------------------
(* Properties *)

\* A sweep that is about to delete a worktree could see no consumer of it: no review
\* was in flight at its pins or at the check before this delete, and no recorded
\* tmux session was live at its pins, that are still there (pinnedPRs, reviewing).
SweepSparesConsumers ==
  \A s \in Sweepers : sweep[s].pc = "lock" =>
    \A kind \in {"review", "tmux"} : <<kind, sweep[s].tree[1]>> \notin guarded[s]

\* Neither the scheduled sweep nor that of closed pull requests deletes the head of
\* a pull request that has been open, with that head, since the list was asked for,
\* however the list was cut (PRPageSize, sweepRepo, reapClosed).
OpenHeadKept ==
  \A s \in Jobs \cup Closers : sweep[s].pc = "lock" => sweep[s].tree \notin steady[s]

\* docs/architecture.md of the reaper: yanking the directory from under a running
\* agent is the one failure this must not cause.
AgentKeepsTree ==
  \A u \in Users : user[u].pc = "agents" => disk[TreeOf(u)] # "absent"

\* server/tmux.go tells the user that a file it does not find in the worktree does
\* not exist at this commit: what Worktree returns must be complete.
CheckoutIsComplete ==
  [][\A u \in Users : user[u].pc = "checkout" /\ user'[u].pc = "kill" =>
       disk'[TreeOf(u)] = "complete"]_vars
=============================================================================
