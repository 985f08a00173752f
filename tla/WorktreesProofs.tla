-------------------------- MODULE WorktreesProofs --------------------------
(***************************************************************************)
(* What the sweeps may delete, for any pull requests, commits, users and   *)
(* sweeps at once: not the worktree of a consumer they could see, and not  *)
(* the head of a pull request that was open when they asked for the list.  *)
(***************************************************************************)
EXTENDS Worktrees, FiniteSetTheorems, TLAPS

\* Only a handler goes on to tmux.
Handlers == \A u \in Users : user[u].pc \in {"kill", "create", "save"} => u[1] = "tmux"

\* A review that counts for a sweep is still in flight.
Present == \A s \in Sweepers : \A p \in PRs : <<"review", p>> \in guarded[s] => Reviewing(p)

\* The job alone asks for the heads, and a cleaner alone goes from one pull request to
\* the next; the others start with nothing that counts.
OnlyJobs(s) ==
  /\ sweep[s].pc = "prs" => s \in Jobs
  /\ sweep[s].pc \in {"kill", "delete", "ref"} => s \in Cleaners
  /\ sweep[s].pc = "idle" /\ s \notin Jobs => guarded[s] = {}

\* A tmux session that counts is of a pull request that is pinned; nothing pinned is
\* about to be removed.
Pinned(s) ==
  /\ sweep[s].pc # "idle" => \A p \in PRs : <<"tmux", p>> \in guarded[s] => p \in sweep[s].pins
  /\ sweep[s].pc \in {"remove", "lock"} => \A t \in sweep[s].trees : t[1] \notin sweep[s].pins
  /\ sweep[s].pc = "lock" => sweep[s].tree \in Trees /\ sweep[s].tree[1] \notin sweep[s].pins

Rechecked(s) == sweep[s].pc = "lock" => <<"review", sweep[s].tree[1]>> \notin guarded[s]

\* A closer that lists the trees has the open pull requests; from then on, and for the job
\* once it has the heads, no tree to remove is a steady one.
Steady(s) ==
  /\ s \in Closers /\ sweep[s].pc = "list" => \A t \in steady[s] : t[1] \in sweep[s].refs
  /\ \/ s \in Closers /\ sweep[s].pc \in {"reviews", "sessions", "remove", "lock"}
     \/ s \in Jobs /\ sweep[s].pc \in {"remove", "lock"}
     => sweep[s].trees \cap steady[s] = {}
  /\ s \in Jobs \cup Closers /\ sweep[s].pc = "lock" => sweep[s].tree \notin steady[s]

SweepInv(s) == OnlyJobs(s) /\ Pinned(s) /\ Rechecked(s) /\ Steady(s)

IInv == TypeOK /\ Handlers /\ Present /\ \A s \in Sweepers : SweepInv(s)

-----------------------------------------------------------------------------
LEMMA UserIsPair ==
  ASSUME NEW u \in Users
  PROVE  u = <<u[1], u[2]>> /\ u[1] \in {"review", "tmux"} /\ u[2] \in PRs /\ u # <<>>
BY WorktreesAssumption

LEMMA TreeIsPair ==
  ASSUME NEW t \in Trees
  PROVE  t = <<t[1], t[2]>> /\ t[1] \in PRs /\ t[2] \in Shas
BY DEF Trees

\* A page that is not full is the whole list.
LEMMA PageIsWhole ==
  ASSUME open \subseteq PRs, NEW page \in Page, ~Full(page)
  PROVE  page = open
<1>1. IsFiniteSet(open)
  BY WorktreesAssumption, FS_Subset
<1>2. page \subseteq open /\ IsFiniteSet(page)
  BY <1>1, FS_Subset DEF Page
<1>3. Cardinality(open) \in Nat /\ Cardinality(page) \in Nat
  BY <1>1, <1>2, FS_CardinalityType
<1>4. Cardinality(page) = Cardinality(open)
  BY <1>3, WorktreesAssumption DEF Page, Full
<1> QED BY <1>1, <1>2, <1>4, FS_Subset

LEMMA InitIInv == Init => IInv
<1> SUFFICES ASSUME Init PROVE IInv
  OBVIOUS
<1> USE DEF Init
<1>1. TypeOK
  <2>1. head \in [PRs -> Shas] /\ \A p \in PRs : head[p] \in Commits[p]
    OBVIOUS
  <2>2. disk \in [Trees -> Dirs]
    BY DEF Dirs
  <2>3. user \in [Users -> [pc : {"off", "fetch", "lock", "checkout", "agents",
                                  "kill", "create", "save"}, sha : Shas \cup {<<>>}]]
    BY DEF Off
  <2>4. \A u \in Users : lock = u <=> user[u].pc = "checkout"
    BY UserIsPair DEF Off
  <2> QED BY <2>1, <2>2, <2>3, <2>4, WorktreesAssumption DEF TypeOK, Idle
<1>2. Handlers
  BY DEF Handlers, Off
<1>3. Present
  BY DEF Present
<1>4. \A s \in Sweepers : SweepInv(s)
  BY DEF SweepInv, OnlyJobs, Pinned, Rechecked, Steady, Idle
<1> QED BY <1>1, <1>2, <1>3, <1>4 DEF IInv

-----------------------------------------------------------------------------
\* A step of anybody else can only take from what counts for a sweep.
LEMMA SweepElsewhere ==
  ASSUME NEW s \in Sweepers, SweepInv(s), sweep'[s] = sweep[s],
         guarded'[s] \subseteq guarded[s], steady'[s] \subseteq steady[s]
  PROVE  SweepInv(s)'
BY DEF SweepInv, OnlyJobs, Pinned, Rechecked, Steady, Trees

\* GitHub, and tmux on its own.
LEMMA OutsideIInv ==
  ASSUME IInv, NEW p \in PRs, Push(p) \/ CloseOrReopen(p) \/ SessionExits(p) \/ GetSession(p)
  PROVE  IInv'
<1> USE DEF IInv
<1>1. TypeOK'
  <2>1. CASE Push(p)
    <3>1. PICK sha \in Commits[p] \ {head[p]} : head' = [head EXCEPT ![p] = sha]
      BY <2>1 DEF Push
    <3>2. head' \in [PRs -> Shas] /\ \A q \in PRs : head'[q] \in Commits[q]
      BY <3>1, WorktreesAssumption DEF TypeOK
    <3> QED BY <2>1, <3>2, WorktreesAssumption DEF Push, Moved, tmux, TypeOK
  <2>2. CASE CloseOrReopen(p)
    BY <2>2, WorktreesAssumption DEF CloseOrReopen, Moved, tmux, TypeOK
  <2>3. CASE SessionExits(p)
    BY <2>3 DEF SessionExits, Unguard, github, TypeOK
  <2>4. CASE GetSession(p)
    BY <2>4 DEF GetSession, github, history, TypeOK
  <2> QED BY <2>1, <2>2, <2>3, <2>4
<1>2. UNCHANGED <<user, sweep>>
  BY DEF Push, CloseOrReopen, SessionExits, GetSession, Moved
<1>3. \A s \in Sweepers : guarded'[s] \subseteq guarded[s] /\ steady'[s] \subseteq steady[s]
  BY DEF Push, CloseOrReopen, SessionExits, GetSession, Moved, Unguard, history, TypeOK
<1>4. \A s \in Sweepers : SweepInv(s)'
  BY <1>2, <1>3, SweepElsewhere
<1>5. Handlers' /\ Present'
  BY <1>2, <1>3 DEF Handlers, Present, Reviewing
<1> QED BY <1>1, <1>4, <1>5, <1>2 DEF Sweepers

-----------------------------------------------------------------------------
(* Runs and handlers *)

UserStates == [pc : {"off", "fetch", "lock", "checkout", "agents", "kill", "create", "save"},
               sha : Shas \cup {<<>>}]

\* What a step of u must do about the lock: hold it exactly in "checkout".
LEMMA UserType ==
  ASSUME TypeOK, NEW u \in Users, NEW x \in UserStates, user' = [user EXCEPT ![u] = x],
         \/ lock' = lock /\ (user[u].pc = "checkout" <=> x.pc = "checkout")
         \/ lock = <<>> /\ lock' = u /\ x.pc = "checkout"
         \/ lock = u /\ lock' = <<>> /\ x.pc # "checkout"
  PROVE  /\ lock' \in Users \cup {<<>>}
         /\ user' \in [Users -> UserStates]
         /\ \A v \in Users : lock' = v <=> user'[v].pc = "checkout"
<1>1. user \in [Users -> UserStates] /\ lock \in Users \cup {<<>>}
      /\ \A v \in Users : lock = v <=> user[v].pc = "checkout"
  BY DEF TypeOK, UserStates
<1>2. user' \in [Users -> UserStates] /\ user'[u] = x
      /\ \A v \in Users : v # u => user'[v] = user[v]
  BY <1>1
<1>3. \A v \in Users : v # <<>>
  BY UserIsPair
<1>4. lock' \in Users \cup {<<>>}
  BY <1>1
<1>5. ASSUME NEW v \in Users PROVE lock' = v <=> user'[v].pc = "checkout"
  BY <1>1, <1>2, <1>3
<1> QED BY <1>2, <1>4, <1>5

LEMMA TornType ==
  ASSUME TypeOK, NEW t, NEW dir \in Torn(t), disk' = [disk EXCEPT ![t] = dir]
  PROVE  disk' \in [Trees -> Dirs]
BY DEF TypeOK, Torn, Dirs

\* What a step of a user leaves of the types: the pull requests and the sweeps.
LEMMA UserFrame ==
  ASSUME TypeOK, UNCHANGED <<github, sweep>>,
         disk' \in [Trees -> Dirs], lock' \in Users \cup {<<>>},
         user' \in [Users -> UserStates],
         \A v \in Users : lock' = v <=> user'[v].pc = "checkout",
         live' \subseteq PRs, row' \subseteq PRs,
         guarded' \in [Sweepers -> SUBSET ({"review", "tmux"} \X PRs)],
         steady' \in [Sweepers -> SUBSET Trees]
  PROVE  TypeOK'
<1>1. Trees' = Trees /\ Sweepers' = Sweepers
  BY DEF Trees, Sweepers
<1> QED BY <1>1 DEF TypeOK, github, UserStates

LEMMA UnguardType ==
  ASSUME TypeOK, NEW kind, NEW p, Unguard(kind, p)
  PROVE  /\ guarded' \in [Sweepers -> SUBSET ({"review", "tmux"} \X PRs)]
         /\ \A s \in Sweepers : guarded'[s] = guarded[s] \ {<<kind, p>>}
BY DEF TypeOK, Unguard

LEMMA UserStepTypeOK ==
  ASSUME IInv, NEW u \in Users, UserStep(u)
  PROVE  TypeOK' /\ UNCHANGED <<github, sweep, steady>>
<1> USE DEF IInv
<1>1. /\ u[1] \in {"review", "tmux"} /\ u[2] \in PRs
      /\ user \in [Users -> UserStates] /\ user[u] \in UserStates
      /\ disk \in [Trees -> Dirs] /\ lock \in Users \cup {<<>>}
      /\ live \subseteq PRs /\ row \subseteq PRs
      /\ guarded \in [Sweepers -> SUBSET ({"review", "tmux"} \X PRs)]
      /\ steady \in [Sweepers -> SUBSET Trees]
      /\ lock = u <=> user[u].pc = "checkout"
  BY UserIsPair DEF TypeOK, UserStates
<1>2. ASSUME NEW to \in {"off", "fetch", "lock", "checkout", "agents", "kill", "create", "save"},
             Goes(u, to)
      PROVE  user' = [user EXCEPT ![u] = [user[u] EXCEPT !.pc = to]]
             /\ [user[u] EXCEPT !.pc = to] \in UserStates /\ [user[u] EXCEPT !.pc = to].pc = to
  BY <1>1, <1>2 DEF Goes, UserStates
<1>3. Off \in UserStates /\ Off.pc = "off"
  BY DEF Off, UserStates
<1> USE DEF github, tmux, history
<1>4. CASE StartReview(u)
  BY <1>1, <1>2, <1>4, UserType, UserFrame DEF StartReview
<1>5. CASE FetchPR(u)
  <2>1. [pc |-> "lock", sha |-> head[u[2]]] \in UserStates
    BY <1>1 DEF TypeOK, UserStates
  <2> QED BY <2>1, <1>1, <1>5, UserType, UserFrame DEF FetchPR
<1>6. CASE Acquire(u)
  <2>1. Goes(u, "checkout") /\ lock = <<>> /\ lock' = u
    BY <1>6 DEF Acquire
  <2>2. user' = [user EXCEPT ![u] = [user[u] EXCEPT !.pc = "checkout"]]
        /\ [user[u] EXCEPT !.pc = "checkout"] \in UserStates
        /\ [user[u] EXCEPT !.pc = "checkout"].pc = "checkout"
    BY <1>2, <2>1
  <2>3. /\ lock' \in Users \cup {<<>>}
        /\ user' \in [Users -> UserStates]
        /\ \A v \in Users : lock' = v <=> user'[v].pc = "checkout"
    BY <2>1, <2>2, UserType
  <2> QED BY <2>3, <1>1, <1>6, UserFrame DEF Acquire
<1>7. CASE Checkout(u)
  <2>1. disk' \in [Trees -> Dirs]
    BY <1>1, <1>7 DEF Checkout, EnsureWorktree, Dirs
  <2>2. PICK to \in {"agents", "kill"} : Goes(u, to)
    BY <1>7 DEF Checkout
  <2>3. /\ user[u].pc = "checkout" /\ lock' = <<>>
        /\ UNCHANGED <<github, live, row, sweep, guarded, steady>>
    BY <1>7 DEF Checkout
  <2>4. /\ user' = [user EXCEPT ![u] = [user[u] EXCEPT !.pc = to]]
        /\ [user[u] EXCEPT !.pc = to] \in UserStates
        /\ [user[u] EXCEPT !.pc = to].pc # "checkout"
    BY <2>2, <1>2
  <2>5. /\ lock' \in Users \cup {<<>>}
        /\ user' \in [Users -> UserStates]
        /\ \A v \in Users : lock' = v <=> user'[v].pc = "checkout"
    BY <1>1, <2>3, <2>4, UserType
  <2> QED BY <2>1, <2>3, <2>5, <1>1, UserFrame
<1>8. CASE CheckoutFailed(u)
  <2>1. disk' \in [Trees -> Dirs]
    BY <1>8, TornType DEF CheckoutFailed
  <2>2. guarded' \in [Sweepers -> SUBSET ({"review", "tmux"} \X PRs)]
    BY <1>1, <1>8, UnguardType DEF CheckoutFailed, Fails
  <2> QED BY <2>1, <2>2, <1>1, <1>3, <1>8, UserType, UserFrame DEF CheckoutFailed, Fails, Returns
<1>9. CASE EndReview(u)
  <2>1. guarded' \in [Sweepers -> SUBSET ({"review", "tmux"} \X PRs)]
    BY <1>9, UnguardType DEF EndReview
  <2> QED BY <2>1, <1>1, <1>3, <1>9, UserType, UserFrame DEF EndReview, Returns
<1>10. CASE GiveUp(u)
  BY <1>1, <1>3, <1>10, UserType, UserFrame DEF GiveUp, Returns
<1>11. CASE KillOld(u)
  <2>1. guarded' \in [Sweepers -> SUBSET ({"review", "tmux"} \X PRs)]
    BY <1>11, UnguardType DEF KillOld
  <2>2. /\ user[u].pc = "kill" /\ Goes(u, "create") /\ live' \subseteq PRs
        /\ UNCHANGED <<github, disk, lock, row, sweep, steady>>
    BY <1>1, <1>11 DEF KillOld
  <2>3. /\ lock' \in Users \cup {<<>>}
        /\ user' \in [Users -> UserStates]
        /\ \A v \in Users : lock' = v <=> user'[v].pc = "checkout"
    BY <1>1, <1>2, <2>2, UserType
  <2> QED BY <2>1, <2>2, <2>3, <1>1, UserFrame
<1>12. CASE CreateSession(u)
  <2>1. live' \subseteq PRs /\ UNCHANGED <<github, disk, lock, row, sweep, history>>
        /\ user[u].pc = "create" /\ (Goes(u, "save") \/ Returns(u))
    BY <1>1, <1>12 DEF CreateSession
  <2>2. PICK x \in UserStates : user' = [user EXCEPT ![u] = x] /\ x.pc # "checkout"
    <3>1. CASE Goes(u, "save")
      BY <3>1, <1>2
    <3>2. CASE Returns(u)
      BY <3>2, <1>3 DEF Returns
    <3> QED BY <2>1, <3>1, <3>2
  <2>3. /\ lock' \in Users \cup {<<>>}
        /\ user' \in [Users -> UserStates]
        /\ \A v \in Users : lock' = v <=> user'[v].pc = "checkout"
    BY <2>1, <2>2, UserType
  <2> QED BY <2>1, <2>3, <1>1, UserFrame
<1>13. CASE SaveSession(u)
  <2>1. row' \subseteq PRs
    BY <1>1, <1>13 DEF SaveSession
  <2> QED BY <2>1, <1>1, <1>3, <1>13, UserType, UserFrame DEF SaveSession, Returns
<1> QED BY <1>4, <1>5, <1>6, <1>7, <1>8, <1>9, <1>10, <1>11, <1>12, <1>13 DEF UserStep

\* A review that leaves is struck off every sweep's list of those that count.
LEMMA UserStepIInv ==
  ASSUME IInv, NEW u \in Users, UserStep(u)
  PROVE  IInv'
<1> USE DEF IInv
<1>1. TypeOK' /\ UNCHANGED <<sweep, steady>>
  BY UserStepTypeOK
<1>2. u[1] \in {"review", "tmux"} /\ user \in [Users -> UserStates]
      /\ guarded \in [Sweepers -> SUBSET ({"review", "tmux"} \X PRs)]
  BY UserIsPair DEF TypeOK, UserStates
<1>3. \A s \in Sweepers : guarded'[s] \subseteq guarded[s]
  BY <1>2, UnguardType
     DEF UserStep, StartReview, FetchPR, Acquire, Checkout, CheckoutFailed, Fails, EndReview,
         GiveUp, KillOld, CreateSession, SaveSession, history
<1>4. \A s \in Sweepers : SweepInv(s)'
  BY <1>1, <1>3, SweepElsewhere
<1>5. \A v \in Users : v # u => user'[v] = user[v]
  BY <1>2 DEF UserStep, StartReview, FetchPR, Acquire, Checkout, CheckoutFailed, Fails, EndReview,
         GiveUp, KillOld, CreateSession, SaveSession, Goes, Returns
<1>6. Handlers'
  <2>1. user'[u].pc \in {"kill", "create", "save"} => u[1] = "tmux"
    BY <1>2 DEF Handlers, UserStep, StartReview, FetchPR, Acquire, Checkout, CheckoutFailed,
         Fails, EndReview, GiveUp, KillOld, CreateSession, SaveSession, Goes, Returns, Off, UserStates
  <2> QED BY <2>1, <1>5 DEF Handlers
<1>7. ASSUME NEW s \in Sweepers, NEW p \in PRs, <<"review", p>> \in guarded'[s]
      PROVE  Reviewing(p)'
  <2>1. <<"review", p>> \in Users /\ user[<<"review", p>>].pc # "off"
    BY <1>3, <1>7 DEF Present, Reviewing
  <2>2. CASE u # <<"review", p>>
    BY <2>1, <2>2, <1>5 DEF Reviewing
  <2>3. CASE u = <<"review", p>>
    <3>1. u[1] = "review" /\ u[2] = p
      BY <2>3
    <3>2. ~(user[u].pc \in {"kill", "create", "save"})
      BY <3>1 DEF Handlers
    <3>3. CASE CheckoutFailed(u) \/ EndReview(u)
      <4>1. guarded'[s] = guarded[s] \ {<<"review", p>>}
        BY <3>1, <3>3, UnguardType DEF CheckoutFailed, Fails, EndReview
      <4> QED BY <4>1, <1>7
    <3>4. CASE StartReview(u) \/ FetchPR(u) \/ Acquire(u) \/ Checkout(u)
      <4>1. user'[u].pc # "off"
        BY <1>2, <3>4 DEF StartReview, FetchPR, Acquire, Checkout, Goes, UserStates
      <4> QED BY <4>1, <2>1, <2>3 DEF Reviewing
    <3> QED BY <3>2, <3>3, <3>4 DEF UserStep, GiveUp, KillOld, CreateSession, SaveSession
  <2> QED BY <2>2, <2>3
<1> QED BY <1>1, <1>4, <1>6, <1>7 DEF Present, Sweepers

-----------------------------------------------------------------------------
(* Sweeps *)

SweepStates == [pc : {"idle", "kill", "delete", "reviews", "sessions", "ref",
                      "list", "prs", "remove", "lock"},
                refs : SUBSET PRs, pins : SUBSET PRs, trees : SUBSET Trees,
                tree : Trees \cup {<<>>}]
Guards == SUBSET ({"review", "tmux"} \X PRs)

\* What a step of a sweep leaves of the types: the pull requests and the users.
LEMMA SweepTypes ==
  ASSUME TypeOK, UNCHANGED <<github, lock, user>>, disk' \in [Trees -> Dirs],
         live' \subseteq live, row' \subseteq row,
         sweep' \in [Sweepers -> SweepStates],
         guarded' \in [Sweepers -> Guards], steady' \in [Sweepers -> SUBSET Trees]
  PROVE  TypeOK'
<1>1. Trees' = Trees /\ Sweepers' = Sweepers
  BY DEF Trees, Sweepers
<1> QED BY <1>1 DEF TypeOK, github, SweepStates, Guards

\* A step of the sweep s that goes to x, leaves to s what counts as g and h, and takes
\* from the others, keeps the invariant if it holds of s afterwards.
LEMMA SweepFrameIInv ==
  ASSUME IInv, NEW s \in Sweepers, UNCHANGED <<github, lock, user>>, disk' \in [Trees -> Dirs],
         live' \subseteq live, row' \subseteq row,
         NEW x \in SweepStates, sweep' = [sweep EXCEPT ![s] = x],
         guarded' \in [Sweepers -> Guards], steady' \in [Sweepers -> SUBSET Trees],
         \A z \in Sweepers \ {s} : guarded'[z] \subseteq guarded[z] /\ steady'[z] = steady[z],
         \A p \in PRs : <<"review", p>> \in guarded'[s] =>
                          <<"review", p>> \in guarded[s] \/ Reviewing(p),
         SweepInv(s)'
  PROVE  IInv'
<1>1. sweep \in [Sweepers -> SweepStates]
  BY DEF IInv, TypeOK, SweepStates
<1>2. sweep' \in [Sweepers -> SweepStates] /\ \A z \in Sweepers \ {s} : sweep'[z] = sweep[z]
  BY <1>1
<1>3. TypeOK'
  BY <1>2, SweepTypes DEF IInv
<1>4. Handlers'
  BY DEF IInv, Handlers
<1>5. ASSUME NEW z \in Sweepers, NEW p \in PRs, <<"review", p>> \in guarded'[z]
      PROVE  Reviewing(p)'
  BY <1>5 DEF IInv, Present, Reviewing
<1>6. ASSUME NEW z \in Sweepers PROVE SweepInv(z)'
  <2>1. CASE z # s
    BY <2>1, <1>2, SweepElsewhere DEF IInv
  <2> QED BY <2>1
<1> QED BY <1>3, <1>4, <1>5, <1>6 DEF IInv, Present, Sweepers

\* The reads that replace what is pinned, and that of the live sessions.
LEMMA PinsIInv ==
  ASSUME IInv, NEW s \in Sweepers, PinReviews(s) \/ PinSessions(s)
  PROVE  IInv'
<1>0. /\ sweep \in [Sweepers -> SweepStates] /\ sweep[s] \in SweepStates
      /\ guarded \in [Sweepers -> Guards] /\ steady \in [Sweepers -> SUBSET Trees]
      /\ disk \in [Trees -> Dirs] /\ live \subseteq PRs
  BY DEF IInv, TypeOK, SweepStates, Guards
<1>1. CASE PinReviews(s)
  <2> DEFINE x == [sweep[s] EXCEPT !.pins = {p \in PRs : Reviewing(p)}, !.pc = "sessions"]
             g == {<<"review", p>> : p \in {q \in PRs : Reviewing(q)}}
  <2>1. sweep' = [sweep EXCEPT ![s] = x]
    BY <1>0, <1>1 DEF PinReviews, Reads, SweepStates
  <2>2. x \in SweepStates /\ x.pc = "sessions" /\ x.trees = sweep[s].trees
    BY <1>0 DEF SweepStates
  <2>3. g \in Guards /\ \A p \in PRs : <<"tmux", p>> \notin g
    BY DEF Guards
  <2>4. guarded' \in [Sweepers -> Guards] /\ guarded'[s] = g
        /\ \A z \in Sweepers \ {s} : guarded'[z] = guarded[z]
    BY <1>0, <1>1, <2>3 DEF PinReviews
  <2>5. sweep'[s] = x /\ steady' = steady
    BY <1>0, <1>1, <2>1 DEF PinReviews
  <2>6. s \in Closers => sweep[s].pc = "reviews"
    BY <1>1, WorktreesAssumption DEF PinReviews
  <2>7. SweepInv(s)'
    <3>1. OnlyJobs(s)' /\ Rechecked(s)' /\ Pinned(s)'
      BY <2>2, <2>3, <2>4, <2>5 DEF OnlyJobs, Rechecked, Pinned
    <3>2. Steady(s)'
      BY <2>2, <2>5, <2>6 DEF IInv, SweepInv, Steady
    <3> QED BY <3>1, <3>2 DEF SweepInv
  <2>8. \A p \in PRs : <<"review", p>> \in g => Reviewing(p)
    OBVIOUS
  <2> HIDE DEF x, g
  <2> QED BY <1>0, <1>1, <2>1, <2>2, <2>4, <2>5, <2>7, <2>8, SweepFrameIInv
          DEF PinReviews, SweepFrame, tmux
<1>2. CASE PinSessions(s)
  <2>1. PICK seen \in {row \cap live, {}} :
          /\ Reads(s, IF s \in Jobs THEN "list" ELSE IF s \in Closers THEN "remove" ELSE "ref",
                   [sweep[s] EXCEPT !.pins = @ \cup seen, !.trees = Stale(s, @, seen)])
          /\ guarded' = [guarded EXCEPT ![s] = @ \cup {<<"tmux", p>> : p \in seen}]
    BY <1>2 DEF PinSessions
  <2> DEFINE to == IF s \in Jobs THEN "list" ELSE IF s \in Closers THEN "remove" ELSE "ref"
             x == [sweep[s] EXCEPT !.pins = @ \cup seen, !.trees = Stale(s, @, seen), !.pc = to]
             g == guarded[s] \cup {<<"tmux", p>> : p \in seen}
  <2>2. sweep' = [sweep EXCEPT ![s] = x] /\ seen \subseteq PRs
    BY <1>0, <2>1 DEF Reads, SweepStates
  <2>3. /\ x \in SweepStates /\ x.pc = to /\ x.pins = sweep[s].pins \cup seen
        /\ x.trees = {t \in sweep[s].trees : t[1] \notin sweep[s].pins \cup seen}
    BY <1>0, <2>2 DEF SweepStates, Stale
  <2>4. /\ guarded' \in [Sweepers -> Guards] /\ guarded'[s] = g
        /\ \A z \in Sweepers \ {s} : guarded'[z] = guarded[z]
    BY <1>0, <2>1, <2>2 DEF Guards
  <2>5. sweep'[s] = x /\ steady' = steady /\ sweep[s].pc = "sessions"
    BY <1>0, <1>2, <2>2 DEF PinSessions
  <2>6. \A p \in PRs : <<"tmux", p>> \in g => p \in x.pins
    BY <2>3, <2>5 DEF IInv, SweepInv, Pinned
  <2>7. \A p \in PRs : <<"review", p>> \in g => <<"review", p>> \in guarded[s]
    OBVIOUS
  <2> HIDE DEF x, g
  <2>8. SweepInv(s)'
    <3>1. OnlyJobs(s)' /\ Rechecked(s)'
      BY <2>3, <2>5 DEF OnlyJobs, Rechecked, Sweepers
    <3>2. Pinned(s)'
      BY <2>3, <2>4, <2>5, <2>6 DEF Pinned
    <3>3. Steady(s)'
      BY <2>3, <2>5, WorktreesAssumption DEF IInv, SweepInv, Steady
    <3> QED BY <3>1, <3>2, <3>3 DEF SweepInv
  <2> QED BY <1>0, <1>2, <2>2, <2>3, <2>4, <2>5, <2>7, <2>8, SweepFrameIInv
          DEF PinSessions, SweepFrame, tmux
<1> QED BY <1>1, <1>2

\* The lists: of trees, of the open pull requests, of what a client asks to clean up.
LEMMA ListsIInv ==
  ASSUME IInv, NEW s \in Sweepers,
         \/ ListTrees(s) \/ RequestPRs(s) \/ ListPRs(s) \/ RefDone(s)
         \/ (\E refs \in Selections : Cleanup(s, refs))
         \/ (\E p \in PRs : NextRef(s, p))
  PROVE  IInv'
<1>0. /\ sweep \in [Sweepers -> SweepStates] /\ sweep[s] \in SweepStates
      /\ guarded \in [Sweepers -> Guards] /\ steady \in [Sweepers -> SUBSET Trees]
      /\ disk \in [Trees -> Dirs] /\ open \subseteq PRs
      /\ head \in [PRs -> Shas] /\ \A p \in PRs : head[p] \in Commits[p]
  BY DEF IInv, TypeOK, SweepStates, Guards
<1>1. CASE ListTrees(s)
  <2>1. CASE s \in Jobs
    <3> DEFINE y == [sweep[s] EXCEPT !.trees = OnDisk, !.pc = "prs"]
    <3>1. sweep' = [sweep EXCEPT ![s] = y]
      BY <1>0, <1>1, <2>1 DEF ListTrees, Reads, SweepStates
    <3>2. y \in SweepStates /\ y.pc = "prs" /\ y.pins = sweep[s].pins
      BY <1>0 DEF SweepStates, OnDisk
    <3>3. sweep'[s] = y /\ UNCHANGED history /\ sweep[s].pc = "list"
      BY <1>0, <1>1, <3>1 DEF ListTrees
    <3> HIDE DEF y
    <3>4. SweepInv(s)'
      BY <3>2, <3>3, <2>1, WorktreesAssumption
         DEF IInv, history, SweepInv, OnlyJobs, Pinned, Rechecked, Steady
    <3> QED BY <1>0, <1>1, <3>1, <3>2, <3>3, <3>4, SweepFrameIInv
            DEF ListTrees, SweepFrame, tmux, history
  <2>2. CASE s \notin Jobs
    <3> DEFINE y == [sweep[s] EXCEPT !.trees = {t \in OnDisk : t[1] \notin sweep[s].refs},
                                     !.pc = "reviews"]
    <3>1. sweep' = [sweep EXCEPT ![s] = y]
      BY <1>0, <1>1, <2>2 DEF ListTrees, Reads, SweepStates
    <3>2. /\ y \in SweepStates /\ y.pc = "reviews" /\ y.pins = sweep[s].pins
          /\ \A t \in y.trees : t[1] \notin sweep[s].refs
      BY <1>0 DEF SweepStates, OnDisk
    <3>3. sweep'[s] = y /\ UNCHANGED history /\ sweep[s].pc = "list"
      BY <1>0, <1>1, <3>1 DEF ListTrees
    <3> HIDE DEF y
    <3>4. SweepInv(s)'
      BY <3>2, <3>3, <2>2
         DEF IInv, history, SweepInv, OnlyJobs, Pinned, Rechecked, Steady
    <3> QED BY <1>0, <1>1, <3>1, <3>2, <3>3, <3>4, SweepFrameIInv
            DEF ListTrees, SweepFrame, tmux, history
  <2> QED BY <2>1, <2>2
<1>2. CASE RequestPRs(s)
  <2>1. PICK page \in Page :
          ~Full(page) /\ Reads(s, "list", [Idle EXCEPT !.refs = page])
    BY <1>2 DEF RequestPRs
  <2>2. page = open
    BY <1>0, <2>1, PageIsWhole
  <2> DEFINE y == [Idle EXCEPT !.refs = page, !.pc = "list"]
  <2>3. sweep' = [sweep EXCEPT ![s] = y] /\ y \in SweepStates /\ y.pc = "list" /\ y.refs = open
    BY <1>0, <2>1, <2>2 DEF Reads, Idle, SweepStates
  <2>4. sweep'[s] = y /\ guarded' = guarded /\ s \in Closers /\ sweep[s].pc = "idle"
    BY <1>0, <1>2, <2>3 DEF RequestPRs
  <2>5. guarded[s] = {}
    BY <2>4, WorktreesAssumption DEF IInv, SweepInv, OnlyJobs
  <2>6. /\ steady' \in [Sweepers -> SUBSET Trees]
        /\ steady'[s] = {t \in Trees : t[1] \in open}
        /\ \A z \in Sweepers \ {s} : steady'[z] = steady[z]
    BY <1>0, <1>2 DEF RequestPRs
  <2> HIDE DEF y
  <2>7. SweepInv(s)'
    BY <2>3, <2>4, <2>5, <2>6, WorktreesAssumption
       DEF SweepInv, OnlyJobs, Pinned, Rechecked, Steady
  <2> QED BY <1>0, <1>2, <2>3, <2>4, <2>6, <2>7, SweepFrameIInv
          DEF RequestPRs, SweepFrame, tmux
<1>3. CASE ListPRs(s)
  <2> DEFINE heads == {<<p, head[p]>> : p \in open}
  <2>1. heads \in SUBSET Trees
    BY <1>0 DEF Trees
  <2>2. /\ steady' \in [Sweepers -> SUBSET Trees] /\ steady'[s] = heads
        /\ \A z \in Sweepers \ {s} : steady'[z] = steady[z]
    BY <1>0, <1>3, <2>1 DEF ListPRs
  <2>3. guarded' = guarded /\ s \in Jobs /\ sweep[s].pc = "prs"
    BY <1>3 DEF ListPRs, IInv, SweepInv, OnlyJobs
  <2>4. PICK page \in Page :
          LET kept == {<<p, head[p]>> : p \in page}
          IN  IF Full(page)
              THEN sweep' = [sweep EXCEPT ![s] = Idle]
              ELSE Reads(s, "remove", [sweep[s] EXCEPT !.trees =
                           {t \in @ : t[1] \notin sweep[s].pins /\ t \notin kept}])
    BY <1>3 DEF ListPRs
  <2>5. CASE Full(page)
    <3>1. sweep' = [sweep EXCEPT ![s] = Idle] /\ sweep'[s] = Idle
      BY <1>0, <2>4, <2>5
    <3>2. Idle \in SweepStates /\ Idle.pc = "idle"
      BY DEF Idle, SweepStates
    <3>3. SweepInv(s)'
      BY <2>3, <3>1, <3>2 DEF SweepInv, OnlyJobs, Pinned, Rechecked, Steady
    <3> QED BY <1>0, <1>3, <2>2, <2>3, <3>1, <3>2, <3>3, SweepFrameIInv
            DEF ListPRs, SweepFrame, tmux
  <2>6. CASE ~Full(page)
    <3>1. page = open
      BY <1>0, <2>6, PageIsWhole
    <3> DEFINE left == {t \in sweep[s].trees : t[1] \notin sweep[s].pins /\ t \notin heads}
               y == [sweep[s] EXCEPT !.trees = left, !.pc = "remove"]
    <3>2. sweep' = [sweep EXCEPT ![s] = y]
      BY <1>0, <2>4, <2>6, <3>1 DEF Reads, SweepStates
    <3>3. y \in SweepStates /\ y.pc = "remove" /\ y.pins = sweep[s].pins /\ y.trees = left
      BY <1>0 DEF SweepStates
    <3>4. sweep'[s] = y
      BY <1>0, <3>2
    <3>5. left \cap heads = {} /\ \A t \in left : t[1] \notin sweep[s].pins
      OBVIOUS
    <3> HIDE DEF y, left, heads
    <3>6. SweepInv(s)'
      BY <2>2, <2>3, <3>3, <3>4, <3>5
         DEF IInv, SweepInv, OnlyJobs, Pinned, Rechecked, Steady
    <3> QED BY <1>0, <1>3, <2>2, <2>3, <3>2, <3>3, <3>6, SweepFrameIInv
            DEF ListPRs, SweepFrame, tmux
  <2> QED BY <2>5, <2>6
<1>4. CASE RefDone(s)
  <2> DEFINE y == [sweep[s] EXCEPT !.pc = "ref"]
  <2>1. sweep' = [sweep EXCEPT ![s] = y] /\ sweep'[s] = y
    BY <1>0, <1>4 DEF RefDone, Reads
  <2>2. y \in SweepStates /\ y.pc = "ref" /\ y.pins = sweep[s].pins
    BY <1>0 DEF SweepStates
  <2>3. UNCHANGED history /\ s \in Cleaners /\ sweep[s].pc = "remove"
    BY <1>4 DEF RefDone
  <2> HIDE DEF y
  <2>4. SweepInv(s)'
    BY <2>1, <2>2, <2>3, WorktreesAssumption
       DEF IInv, history, SweepInv, OnlyJobs, Pinned, Rechecked, Steady
  <2> QED BY <1>0, <1>4, <2>1, <2>2, <2>3, <2>4, SweepFrameIInv
          DEF RefDone, SweepFrame, tmux, history
<1>5. ASSUME NEW refs \in Selections, Cleanup(s, refs) PROVE IInv'
  <2> DEFINE y == [Idle EXCEPT !.refs = refs, !.pc = "kill"]
  <2>1. sweep' = [sweep EXCEPT ![s] = y] /\ sweep'[s] = y
    BY <1>0, <1>5 DEF Cleanup, Reads, Idle
  <2>2. y \in SweepStates /\ y.pc = "kill"
    BY WorktreesAssumption DEF Idle, SweepStates
  <2>3. UNCHANGED history /\ s \in Cleaners /\ sweep[s].pc = "idle"
    BY <1>5 DEF Cleanup
  <2>4. guarded[s] = {}
    BY <2>3, WorktreesAssumption DEF IInv, SweepInv, OnlyJobs
  <2> HIDE DEF y
  <2>5. SweepInv(s)'
    BY <2>1, <2>2, <2>3, <2>4, WorktreesAssumption
       DEF history, SweepInv, OnlyJobs, Pinned, Rechecked, Steady
  <2> QED BY <1>0, <1>5, <2>1, <2>2, <2>3, <2>5, SweepFrameIInv
          DEF Cleanup, SweepFrame, tmux, history
<1>6. ASSUME NEW p \in PRs, NextRef(s, p) PROVE IInv'
  <2> DEFINE pinned == p \in sweep[s].pins \cup live
             trees  == IF pinned THEN {} ELSE {t \in OnDisk : t[1] = p}
             to     == IF pinned THEN "ref" ELSE "remove"
             y      == [sweep[s] EXCEPT !.refs = @ \ {p}, !.trees = trees, !.pc = to]
  <2>1. sweep' = [sweep EXCEPT ![s] = y] /\ sweep'[s] = y
    BY <1>0, <1>6 DEF NextRef, Reads, SweepStates
  <2>2. y \in SweepStates /\ y.pc = to /\ y.pins = sweep[s].pins /\ y.trees = trees
    BY <1>0 DEF SweepStates, OnDisk
  <2>3. UNCHANGED history /\ sweep[s].pc = "ref" /\ guarded' = guarded
    BY <1>6 DEF NextRef, history
  <2>4. \A t \in trees : t[1] \notin sweep[s].pins
    OBVIOUS
  <2>5. s \in Cleaners
    BY <2>3 DEF IInv, SweepInv, OnlyJobs
  <2> HIDE DEF y, trees
  <2>6. SweepInv(s)'
    BY <2>1, <2>2, <2>3, <2>4, <2>5, WorktreesAssumption
       DEF IInv, SweepInv, OnlyJobs, Pinned, Rechecked, Steady
  <2> QED BY <1>0, <1>6, <2>1, <2>2, <2>3, <2>6, SweepFrameIInv
          DEF NextRef, SweepFrame, tmux, history
<1> QED BY <1>1, <1>2, <1>3, <1>4, <1>5, <1>6

\* What takes from tmux: the kills and the deletions of rows of a cleaner.
LEMMA CleanersIInv ==
  ASSUME IInv, NEW s \in Sweepers, KillSessions(s) \/ DeleteRows(s) \/ DeleteRowsFailed(s)
  PROVE  IInv'
<1>0. /\ sweep \in [Sweepers -> SweepStates] /\ sweep[s] \in SweepStates
      /\ guarded \in [Sweepers -> Guards] /\ steady \in [Sweepers -> SUBSET Trees]
      /\ disk \in [Trees -> Dirs]
  BY DEF IInv, TypeOK, SweepStates, Guards
\* One that goes on keeps all it has read.
<1>1. ASSUME NEW to \in {"delete", "reviews"}, Reads(s, to, sweep[s]), NEW gone,
             guarded' = [z \in Sweepers |-> guarded[z] \ gone], UNCHANGED steady,
             SweepFrame, live' \subseteq live, row' \subseteq row,
             sweep[s].pc \in {"kill", "delete"}, s \in Closers => to # "reviews"
      PROVE  IInv'
  <2> DEFINE y == [sweep[s] EXCEPT !.pc = to]
  <2>1. sweep' = [sweep EXCEPT ![s] = y] /\ sweep'[s] = y
    BY <1>0, <1>1 DEF Reads
  <2>2. y \in SweepStates /\ y.pc = to /\ y.pins = sweep[s].pins
    BY <1>0 DEF SweepStates
  <2>3. guarded' \in [Sweepers -> Guards] /\ \A z \in Sweepers : guarded'[z] \subseteq guarded[z]
    BY <1>0, <1>1 DEF Guards
  <2> HIDE DEF y
  <2>4. SweepInv(s)'
    BY <1>1, <2>1, <2>2, <2>3 DEF IInv, SweepInv, OnlyJobs, Pinned, Rechecked, Steady
  <2> QED BY <1>0, <1>1, <2>1, <2>2, <2>3, <2>4, SweepFrameIInv DEF SweepFrame
<1>2. sweep[s].pc \in {"kill", "delete"} => s \in Cleaners
  BY DEF IInv, SweepInv, OnlyJobs
<1>3. s \in Cleaners => s \notin Closers /\ s \notin Jobs
  BY WorktreesAssumption
<1>4. CASE KillSessions(s)
  <2>1. PICK killed \in SUBSET (sweep[s].refs \cap row \cap live) :
          /\ live' = live \ killed
          /\ guarded' = [z \in Sweepers |-> guarded[z] \ ({"tmux"} \X killed)]
    BY <1>4 DEF KillSessions
  <2> QED BY <1>1, <1>2, <1>3, <1>4, <2>1 DEF KillSessions
<1>5. CASE DeleteRows(s)
  BY <1>1, <1>2, <1>3, <1>5 DEF DeleteRows
<1>6. CASE DeleteRowsFailed(s)
  <2>1. PICK gone \in SUBSET sweep[s].refs :
          /\ row' = row \ gone
          /\ guarded' = [[z \in Sweepers |-> guarded[z] \ ({"tmux"} \X gone)] EXCEPT ![s] = {}]
    BY <1>6 DEF DeleteRowsFailed
  <2>2. /\ guarded' \in [Sweepers -> Guards] /\ guarded'[s] = {}
        /\ \A z \in Sweepers \ {s} : guarded'[z] \subseteq guarded[z]
    BY <1>0, <2>1 DEF Guards
  <2>3. /\ steady' \in [Sweepers -> SUBSET Trees]
        /\ \A z \in Sweepers \ {s} : steady'[z] = steady[z]
    BY <1>0, <1>6 DEF DeleteRowsFailed
  <2>4. sweep' = [sweep EXCEPT ![s] = Idle] /\ sweep'[s] = Idle
    BY <1>0, <1>6 DEF DeleteRowsFailed
  <2>5. Idle \in SweepStates /\ Idle.pc = "idle"
    BY DEF Idle, SweepStates
  <2>6. SweepInv(s)'
    BY <2>2, <2>4, <2>5 DEF SweepInv, OnlyJobs, Pinned, Rechecked, Steady
  <2>7. live' \subseteq live /\ row' \subseteq row /\ SweepFrame
    BY <1>6, <2>1 DEF DeleteRowsFailed
  <2> QED BY <1>0, <2>2, <2>3, <2>4, <2>5, <2>6, <2>7, SweepFrameIInv DEF SweepFrame
<1> QED BY <1>4, <1>5, <1>6

\* removeWorktrees: the check of the reviews puts every one in flight on the list of those
\* that count, and the worktree it lets through is of none of them.
LEMMA RemovesIInv ==
  ASSUME IInv, NEW s \in Sweepers,
         \/ (\E t \in Trees : Recheck(s, t)) \/ Remove(s) \/ SweepEnds(s) \/ SweepFailed(s)
  PROVE  IInv'
<1>0. /\ sweep \in [Sweepers -> SweepStates] /\ sweep[s] \in SweepStates
      /\ guarded \in [Sweepers -> Guards] /\ steady \in [Sweepers -> SUBSET Trees]
      /\ disk \in [Trees -> Dirs]
  BY DEF IInv, TypeOK, SweepStates, Guards
<1>1. ASSUME NEW t \in Trees, Recheck(s, t) PROVE IInv'
  <2> DEFINE flying == {<<"review", p>> : p \in {q \in PRs : Reviewing(q)}}
             g      == guarded[s] \cup flying
             skip   == [sweep[s] EXCEPT !.trees = @ \ {t}, !.pc = "remove"]
             take   == [sweep[s] EXCEPT !.tree = t, !.trees = @ \ {t}, !.pc = "lock"]
             y      == IF Reviewing(t[1]) THEN skip ELSE take
  <2>1. sweep' = [sweep EXCEPT ![s] = y] /\ sweep'[s] = y
    BY <1>0, <1>1 DEF Recheck, Reads, TakeTree, SweepStates
  <2>2. /\ skip \in SweepStates /\ skip.pc = "remove" /\ skip.pins = sweep[s].pins
        /\ skip.trees = sweep[s].trees \ {t}
    BY <1>0 DEF SweepStates
  <2>3. /\ take \in SweepStates /\ take.pc = "lock" /\ take.pins = sweep[s].pins
        /\ take.trees = sweep[s].trees \ {t} /\ take.tree = t
    BY <1>0 DEF SweepStates
  <2>4. /\ guarded' \in [Sweepers -> Guards] /\ guarded'[s] = g
        /\ \A z \in Sweepers \ {s} : guarded'[z] = guarded[z]
    BY <1>0, <1>1 DEF Recheck, Guards
  <2>5. \A p \in PRs : <<"review", p>> \in g => <<"review", p>> \in guarded[s] \/ Reviewing(p)
    OBVIOUS
  <2>6. \A p \in PRs : <<"tmux", p>> \in g => <<"tmux", p>> \in guarded[s]
    OBVIOUS
  <2>7. steady' = steady /\ sweep[s].pc = "remove" /\ t \in sweep[s].trees /\ t[1] \in PRs
    BY <1>1, TreeIsPair DEF Recheck
  <2>8. \A p \in PRs : <<"review", p>> \in g => Reviewing(p)
    BY <2>5 DEF IInv, Present
  <2> HIDE DEF g, skip, take
  <2>9. SweepInv(s)'
    <3>1. CASE Reviewing(t[1])
      BY <3>1, <2>1, <2>2, <2>4, <2>6, <2>7
         DEF IInv, SweepInv, OnlyJobs, Pinned, Rechecked, Steady
    <3>2. CASE ~Reviewing(t[1])
      <4>1. sweep'[s] = take /\ <<"review", t[1]>> \notin g
        BY <3>2, <2>1, <2>7, <2>8
      <4>2. OnlyJobs(s)' /\ Rechecked(s)'
        BY <4>1, <2>3, <2>4 DEF OnlyJobs, Rechecked
      <4>3. Pinned(s)'
        BY <4>1, <2>3, <2>4, <2>6, <2>7 DEF IInv, SweepInv, Pinned, Trees
      <4>4. Steady(s)'
        BY <4>1, <2>3, <2>7 DEF IInv, SweepInv, Steady
      <4> QED BY <4>2, <4>3, <4>4 DEF SweepInv
    <3> QED BY <3>1, <3>2
  <2>10. y \in SweepStates
    BY <2>2, <2>3
  <2> HIDE DEF y
  <2> QED BY <1>0, <1>1, <2>1, <2>4, <2>5, <2>7, <2>9, <2>10, SweepFrameIInv
          DEF Recheck, SweepFrame, tmux
<1>2. CASE Remove(s)
  <2> DEFINE y == [sweep[s] EXCEPT !.tree = <<>>, !.pc = "remove"]
  <2>1. sweep' = [sweep EXCEPT ![s] = y] /\ sweep'[s] = y
    BY <1>0, <1>2 DEF Remove, Reads, SweepStates
  <2>2. /\ y \in SweepStates /\ y.pc = "remove" /\ y.pins = sweep[s].pins
        /\ y.trees = sweep[s].trees
    BY <1>0 DEF SweepStates
  <2>3. UNCHANGED <<github, lock, user, tmux, history>> /\ sweep[s].pc = "lock"
    BY <1>2 DEF Remove
  <2>4. sweep[s].tree \in Trees
    BY <2>3 DEF IInv, SweepInv, Pinned
  <2>5. PICK left \in Dirs : disk' = [disk EXCEPT ![sweep[s].tree] = left]
    BY <1>0, <1>2, <2>4 DEF Remove, IsAt, Dirs
  <2>6. disk' \in [Trees -> Dirs]
    BY <1>0, <2>5
  <2> HIDE DEF y
  <2>7. SweepInv(s)'
    BY <2>1, <2>2, <2>3 DEF history, IInv, SweepInv, OnlyJobs, Pinned, Rechecked, Steady
  <2> QED BY <1>0, <2>1, <2>2, <2>3, <2>6, <2>7, SweepFrameIInv DEF tmux, history
<1>3. CASE SweepEnds(s) \/ SweepFailed(s)
  <2>1. sweep' = [sweep EXCEPT ![s] = Idle] /\ sweep'[s] = Idle
    BY <1>0, <1>3 DEF SweepEnds, SweepFailed
  <2>2. Idle \in SweepStates /\ Idle.pc = "idle"
    BY DEF Idle, SweepStates
  <2>3. /\ guarded' \in [Sweepers -> Guards] /\ guarded'[s] = {}
        /\ steady' \in [Sweepers -> SUBSET Trees]
        /\ \A z \in Sweepers \ {s} : guarded'[z] = guarded[z] /\ steady'[z] = steady[z]
    BY <1>0, <1>3 DEF SweepEnds, SweepFailed, Guards
  <2>4. SweepInv(s)'
    BY <2>1, <2>2, <2>3 DEF SweepInv, OnlyJobs, Pinned, Rechecked, Steady
  <2> QED BY <1>0, <1>3, <2>1, <2>2, <2>3, <2>4, SweepFrameIInv
          DEF SweepEnds, SweepFailed, SweepFrame, tmux
<1> QED BY <1>1, <1>2, <1>3

LEMMA RestartIInv == IInv /\ Restart => IInv'
<1> SUFFICES ASSUME IInv, Restart PROVE IInv'
  OBVIOUS
<1>1. disk' \in [Trees -> Dirs]
  BY TornType DEF IInv, TypeOK, Restart
<1>2. sweep' = [s \in Sweepers |-> Idle] /\ guarded' = [s \in Sweepers |-> {}]
      /\ steady' = [s \in Sweepers |-> {}] /\ user' = [u \in Users |-> Off] /\ lock' = <<>>
  BY DEF Restart
<1>3. TypeOK'
  <2>1. sweep' \in [Sweepers -> SweepStates]
    BY <1>2 DEF Idle, SweepStates
  <2>2. user' \in [Users -> UserStates]
    BY <1>2 DEF Off, UserStates
  <2>3. \A u \in Users : lock' = u <=> user'[u].pc = "checkout"
    BY <1>2, UserIsPair DEF Off
  <2>4. Trees' = Trees /\ Sweepers' = Sweepers
    BY DEF Trees, Sweepers
  <2> QED BY <1>1, <1>2, <2>1, <2>2, <2>3, <2>4
          DEF IInv, TypeOK, Restart, github, tmux, SweepStates, UserStates
<1>4. Handlers' /\ Present'
  BY <1>2 DEF Handlers, Present, Off, Sweepers
<1>5. \A s \in Sweepers : SweepInv(s)'
  BY <1>2 DEF SweepInv, OnlyJobs, Pinned, Rechecked, Steady, Idle
<1> QED BY <1>3, <1>4, <1>5 DEF IInv, Sweepers

-----------------------------------------------------------------------------
LEMMA NextIInv == IInv /\ [Next]_vars => IInv'
<1> SUFFICES ASSUME IInv, [Next]_vars PROVE IInv'
  OBVIOUS
<1>1. ASSUME NEW p \in PRs, Push(p) \/ CloseOrReopen(p) \/ SessionExits(p) \/ GetSession(p)
      PROVE  IInv'
  BY <1>1, OutsideIInv
<1>2. ASSUME NEW u \in Users, UserStep(u) PROVE IInv'
  BY <1>2, UserStepIInv
<1>3. ASSUME NEW s \in Sweepers, SweepStep(s) PROVE IInv'
  BY <1>3, PinsIInv, ListsIInv, CleanersIInv, RemovesIInv DEF SweepStep
<1>4. CASE UNCHANGED vars
  BY <1>4 DEF vars, github, tmux, history, IInv, TypeOK, Handlers, Present, Reviewing, SweepInv,
              OnlyJobs, Pinned, Rechecked, Steady, Trees, Sweepers
<1> QED BY <1>1, <1>2, <1>3, <1>4, RestartIInv DEF Next

\* The invariant is one of every run of the sweeps, reviews and handlers.
THEOREM Invariance == Spec => []IInv
BY InitIInv, NextIInv, PTL DEF Spec

\* The repository's lock is held by exactly the user that checks out, whatever fails and
\* whenever the process dies (checkout.Manager.Worktree), and every variable has its type.
THEOREM TypeCorrect == Spec => []TypeOK
<1>1. IInv => TypeOK
  BY DEF IInv
<1> QED BY <1>1, Invariance, PTL

\* Any number of sweeps, reviews and handlers at once: what a sweep is about to delete is
\* of no consumer it saw that is still there (pinnedPRs, reviewing, removeWorktrees).
THEOREM ConsumersAreSpared == Spec => []SweepSparesConsumers
<1>1. IInv => SweepSparesConsumers
  <2> SUFFICES ASSUME IInv, NEW s \in Sweepers, sweep[s].pc = "lock",
                      NEW kind \in {"review", "tmux"}
               PROVE  <<kind, sweep[s].tree[1]>> \notin guarded[s]
    BY DEF SweepSparesConsumers
  <2>1. sweep[s].tree \in Trees /\ sweep[s].tree[1] \in PRs
    BY TreeIsPair DEF IInv, SweepInv, Pinned
  <2> QED BY <2>1 DEF IInv, SweepInv, Pinned, Rechecked
<1> QED BY <1>1, Invariance, PTL

\* However GitHub cuts the list and whatever is pushed meanwhile: the head of a pull
\* request that stayed open is never what the job or a closer is about to delete
\* (sweepRepo, reapClosed, PRPageSize).
THEOREM OpenHeadsAreKept == Spec => []OpenHeadKept
<1>1. IInv => OpenHeadKept
  BY DEF IInv, SweepInv, Steady, OpenHeadKept, Sweepers
<1> QED BY <1>1, Invariance, PTL
=============================================================================
