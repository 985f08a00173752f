-------------------------------- MODULE Lists --------------------------------
(***************************************************************************)
(* The lists of the web client and the queries under them: the reviews in  *)
(* progress from the event stream and the stored ones from the history,    *)
(* page by page; the recent pull requests behind their filter; the         *)
(* notifications; the tmux sessions; and the comments, whose rendering is  *)
(* Markdown.  The server is its state and what it answers; other clients   *)
(* change it as well.                                                      *)
(*                                                                         *)
(* The lists share the cache, and the end of a review or a repository that *)
(* is added invalidates several of them.  A mutation is one call: the      *)
(* optimistic change, the server's part, and the settling are steps of     *)
(* their own.  The history of one repository (RepoHistory) is the same     *)
(* with its rows alone.                                                    *)
(***************************************************************************)
EXTENDS Integers, SequencesExt, Queries, Markdown, Annotations

CONSTANTS
  PRs,
  TmuxPRs,     \* pull requests that have, or had, a tmux session
  Orgs,        \* organizations the filter may hide
  Ids,         \* notifications
  Pages,       \* pages of the history, from 0
  PageSize,
  MaxActs,     \* bound: what users, runs and other clients do
  MaxFaults    \* bound: connections and requests that fail

VARIABLES
  view,        \* what is in view: "dashboard", "notifications", "tmux", "comments" or "diff"
  \* the server
  run, rows, hidden, unread,
  live, stored,          \* the tmux sessions there are, and the rows of the database
  deleted,               \* rows a call has deleted, and said so, and that were not stored again
  \* the event stream of active reviews, and what ActiveReviewsProvider keeps of it
  stream, pending, byKey,
  \* the pages
  page, behind, history, told,
  recent, filter, saving, tainted,
  notes, notesPicked, reading,
  tmux, selecting, killPicked, killing, killError,
  acts, faults

sessionVars == <<live, stored, deleted>>
serverVars == <<run, rows, hidden, unread, sessionVars>>
streamVars == <<stream, pending, byKey>>
dashVars   == <<page, behind, history, told>>
filterVars == <<recent, filter, saving, tainted>>
noteVars   == <<notes, notesPicked, reading>>
tmuxVars   == <<tmux, selecting, killPicked, killing, killError>>
budget     == <<acts, faults>>
listVars == <<serverVars, streamVars, dashVars, filterVars, noteVars, tmuxVars, budget>>
vars == <<view, listVars, textVars, annVars>>

-----------------------------------------------------------------------------
MaxRows == 1 + MaxActs
Run     == {"none", "running", "error", "ended"}
Outcome == {"done", "error", "cancelled"}
Shown   == {"none", "running", "ended"}
HistoryPage == [of : 0..MaxRows, sessions : Seq(PRs), hasMore : BOOLEAN]
Save    == [hide : SUBSET Orgs, before : (SUBSET Orgs) \cup {NoData}, phase : {"none", "sent", "ok", "failed"}]
NoSave  == [hide |-> {}, before |-> NoData, phase |-> "none"]
\* A call that kills sessions: on its way, killed, answered, and its list fetched again.
Kill    == [refs : SUBSET TmuxPRs, phase : {"none", "sent", "killed", "ok", "failed", "refetch"}]
NoKill  == [refs |-> {}, phase |-> "none"]

ASSUME ListsAssumption ==
  /\ Pages \subseteq Nat /\ 0 \in Pages /\ PageSize \in Nat \ {0}
  /\ MaxActs \in Nat /\ MaxFaults \in Nat
  /\ NoData \notin HistoryPage /\ \A S \in {Orgs, Ids, TmuxPRs} : \A data \in SUBSET S : data # NoData

TypeOK ==
  /\ view \in {"dashboard", "notifications", "tmux", "comments", "diff"} /\ TextTypeOK /\ AnnTypeOK
  /\ run \in [PRs -> Run] /\ rows \in Seq(PRs) /\ Len(rows) <= MaxRows
  /\ hidden \subseteq Orgs /\ unread \subseteq Ids /\ live \subseteq TmuxPRs /\ stored \subseteq TmuxPRs
  /\ deleted \subseteq TmuxPRs
  /\ stream \in {"open", "retrying", "given up"} /\ pending \in [PRs -> Shown] /\ byKey \in [PRs -> Shown]
  /\ page \in Pages /\ behind \in Pages /\ history \in [Pages -> Query(HistoryPage)] /\ told \in 0..MaxRows
  /\ recent \in Query(SUBSET Orgs) /\ filter \in Query(SUBSET Orgs)
  /\ saving \in Save /\ tainted \subseteq {"filter", "list"}
  /\ notes \in Query(SUBSET Ids) /\ notesPicked \subseteq Ids /\ reading \subseteq SUBSET Ids
  /\ tmux \in Query(SUBSET TmuxPRs) /\ selecting \in BOOLEAN /\ killPicked \subseteq TmuxPRs
  /\ killing \in Kill /\ killError \in BOOLEAN
  /\ acts \in 0..MaxActs /\ faults \in 0..MaxFaults

\* The handler asks the store for one row more than the page has.
HasMore(k) == Len(rows) > (k + 1) * PageSize

HistoryAnswer(k) ==
  [of |-> Len(rows), hasMore |-> HasMore(k),
   sessions |-> SubSeq(rows, k * PageSize + 1, IF HasMore(k) THEN (k + 1) * PageSize ELSE Len(rows))]

\* The application has been open for a while, and one of the lists in view is being
\* shown for the first time.  The views share no state, so one of them is opened.
FirstShown ==
  [dashboard |-> {"history", "recent", "filter"}, notifications |-> {"notes"}, tmux |-> {"tmux"},
   comments |-> {}, diff |-> {}]

Init ==
  /\ view \in DOMAIN FirstShown /\ TextInit /\ AnnInit
  /\ view # "diff" => <<at, posted>> = CHOOSE x \in DiffPRs \X [DiffPRs -> Answers] : TRUE
  /\ run = [p \in PRs |-> "none"] /\ rows \in {<<p>> : p \in PRs}
  /\ hidden = {} /\ unread = Ids /\ live = TmuxPRs /\ stored = TmuxPRs /\ deleted = {}
  /\ stream = "open" /\ pending = [p \in PRs |-> "none"] /\ byKey = pending
  /\ page = 0 /\ behind = 0 /\ told = 0
  /\ saving = NoSave /\ tainted = {} /\ notesPicked = {} /\ reading = {}
  /\ selecting \in BOOLEAN /\ killPicked = {} /\ killing = NoKill /\ killError = FALSE
  /\ acts = 0 /\ faults = 0
  /\ \E first \in FirstShown[view] \cup {"none"} :
       LET Ask(what, data) == IF what = first THEN Fetch(Unasked) ELSE SetData(Unasked, data)
       IN  /\ selecting => view = "tmux" /\ first = "none"
           /\ history = [k \in Pages |-> IF k = 0 THEN Ask("history", HistoryAnswer(0)) ELSE Unasked]
           /\ recent = Ask("recent", hidden) /\ filter = Ask("filter", hidden)
           /\ notes = Ask("notes", unread) /\ tmux = Ask("tmux", stored)

Act   == acts < MaxActs /\ acts' = acts + 1 /\ UNCHANGED faults
Fault == faults < MaxFaults /\ faults' = faults + 1 /\ UNCHANGED acts

-----------------------------------------------------------------------------
(* Runs and the stream of active reviews *)

\* Newest of a pull request wins while it waits.
Publish(p, what) == pending' = IF stream = "open" THEN [pending EXCEPT ![p] = what] ELSE pending

StartRun(p) ==
  /\ run[p] = "none"
  /\ run' = [run EXCEPT ![p] = "running"]
  /\ Publish(p, "running")
  /\ UNCHANGED <<rows, hidden, unread, sessionVars, stream, byKey, dashVars, filterVars, noteVars, tmuxVars>>
  /\ Act

\* A review that is done is stored, then published; a failed one is published, then
\* stored; a cancelled one is not stored.
EndRun(p, outcome) ==
  /\ run[p] = "running"
  /\ run' = [run EXCEPT ![p] = IF outcome = "error" THEN "error" ELSE "ended"]
  /\ rows' = IF outcome = "done" THEN <<p>> \o rows ELSE rows
  /\ Publish(p, "ended")
  /\ UNCHANGED <<hidden, unread, sessionVars, stream, byKey, dashVars, filterVars, noteVars, tmuxVars, budget>>

PersistFailure(p) ==
  /\ run[p] = "error"
  /\ run' = [run EXCEPT ![p] = "ended"] /\ rows' = <<p>> \o rows
  /\ UNCHANGED <<hidden, unread, sessionVars, streamVars, dashVars, filterVars, noteVars, tmuxVars, budget>>

Release(p) ==
  /\ run[p] = "ended"
  /\ run' = [run EXCEPT ![p] = "none"]
  /\ UNCHANGED <<rows, hidden, unread, sessionVars, streamVars, dashVars, filterVars, noteVars, tmuxVars, budget>>

\* The snapshot replaces the list: every run of the map, also one that has ended; and as
\* if it were merged into the list.
ConnectMerging ==
  /\ stream = "retrying" /\ stream' = "open"
  /\ byKey' = [p \in PRs |-> IF run[p] = "none" THEN byKey[p] ELSE IF run[p] = "running" THEN "running" ELSE "ended"]
  /\ pending' = [p \in PRs |-> "none"]
  /\ UNCHANGED <<serverVars, dashVars, filterVars, noteVars, tmuxVars, budget>>

Connect ==
  /\ stream = "retrying" /\ stream' = "open"
  /\ byKey' = [p \in PRs |-> IF run[p] = "none" THEN "none" ELSE IF run[p] = "running" THEN "running" ELSE "ended"]
  /\ pending' = [p \in PRs |-> "none"]
  /\ UNCHANGED <<serverVars, dashVars, filterVars, noteVars, tmuxVars, budget>>

\* The last of the delays is over and that connection failed as well.
GiveUp ==
  /\ stream = "retrying" /\ stream' = "given up"
  /\ UNCHANGED <<serverVars, pending, byKey, dashVars, filterVars, noteVars, tmuxVars, budget>>

Drop ==
  /\ stream = "open" /\ stream' = "retrying" /\ pending' = [p \in PRs |-> "none"]
  /\ UNCHANGED <<serverVars, byKey, dashVars, filterVars, noteVars, tmuxVars>>
  /\ Fault

\* invalidateQueries of the history: every page of it; and as if of the page shown only.
ShownPageInvalidated ==
  [k \in Pages |-> IF k = page THEN [history[k] EXCEPT !.invalid = TRUE] ELSE history[k]]
HistoryInvalidated == [k \in Pages |-> Invalidate(history[k], k = page)]

Event(p) ==
  /\ pending[p] # "none"
  /\ pending' = [pending EXCEPT ![p] = "none"]
  /\ byKey' = [byKey EXCEPT ![p] = IF pending[p] = "ended" THEN "none" ELSE "running"]
  /\ IF pending[p] = "ended"
     THEN /\ history' = HistoryInvalidated
          /\ recent' = Invalidate(recent, TRUE)
          /\ told' = IF history[0].loaded THEN Len(rows) ELSE told
     ELSE UNCHANGED <<history, recent, told>>
  /\ UNCHANGED <<serverVars, stream, page, behind, filter, saving, tainted, noteVars, tmuxVars, budget>>

-----------------------------------------------------------------------------
(* The history *)

\* The pager: a page that is not there yet shows what was shown before it, and its
\* hasMore.
Showing == IF history[page].loaded THEN history[page]
           ELSE IF history[page].failed THEN Unasked ELSE history[behind]
Goto(k) ==
  /\ k \in Pages /\ k \in {page - 1, page + 1}
  /\ k > page => Showing.loaded /\ ~Showing.failed /\ Showing.data.hasMore
  /\ page' = k /\ behind' = IF history[page].loaded THEN page ELSE behind
  /\ history' = [history EXCEPT ![k] = Observed(@)]
  /\ UNCHANGED <<serverVars, streamVars, told, filterVars, noteVars, tmuxVars>> /\ Act

HistoryStep ==
  /\ UNCHANGED <<serverVars, streamVars, page, behind, told, filterVars, noteVars, tmuxVars>>
  /\ \E k \in Pages :
       \/ /\ history[k].flight = "sent" /\ UNCHANGED budget
          /\ history' = [history EXCEPT ![k] = Served(@, HistoryAnswer(k))]
       \/ /\ history[k].flight = "read" /\ UNCHANGED budget
          /\ history' = [history EXCEPT ![k] = Arrived(@)]
       \/ /\ history[k].flight = "sent" /\ Fault
          /\ history' = [history EXCEPT ![k] = Failed(@)]

-----------------------------------------------------------------------------
(* The recent pull requests and their filter *)

FilterFrame == UNCHANGED <<run, rows, unread, sessionVars, streamVars, dashVars, noteVars, tmuxVars>>

\* A filter that is not loaded counts as empty.
Toggle(org) ==
  LET current == IF filter.loaded /\ ~filter.failed THEN filter.data ELSE {}
  IN  IF org \in current THEN current \ {org} ELSE current \cup {org}

\* onMutate: what is being fetched is cancelled, and the new filter shown; and as if the
\* request under way were left alone.
OptimisticUncancelled(next) == SetData(filter, next)
Optimistic(next)            == SetData(Cancelled(filter), next)

SaveFilter(org) ==
  /\ saving.phase = "none"
  /\ saving' = [hide |-> Toggle(org), before |-> filter.data, phase |-> "sent"]
  /\ filter' = Optimistic(Toggle(org))
  /\ tainted' = IF filter.loaded THEN tainted ELSE tainted \cup {"filter"}
  /\ UNCHANGED <<hidden, recent>> /\ FilterFrame /\ Act

\* PUT: done, refused, or done with its answer lost.
PutFilter(answer) ==
  /\ saving.phase = "sent" /\ answer \in {"ok", "refused", "lost"}
  /\ hidden' = IF answer = "refused" THEN hidden ELSE saving.hide
  /\ saving' = [saving EXCEPT !.phase = IF answer = "ok" THEN "ok" ELSE "failed"]
  /\ tainted' = IF answer = "lost" THEN tainted \cup {"filter"} ELSE tainted
  /\ UNCHANGED <<filter, recent>> /\ FilterFrame
  /\ IF answer = "ok" THEN UNCHANGED budget ELSE Fault

\* onSuccess or onError, then onSettled.  What was not there is not put back; and as if
\* it were.  The first request of the list is not given up for another: an answer that was
\* read before the save stays.
PutBackAny == SetData(filter, saving.before)
PutBack    == IF saving.before = NoData THEN filter ELSE SetData(filter, saving.before)
FilterSettled ==
  /\ saving.phase \in {"ok", "failed"}
  /\ filter' = IF saving.phase = "ok" THEN SetData(filter, saving.hide) ELSE PutBack
  /\ recent' = Invalidate(recent, TRUE)
  /\ saving' = NoSave
  /\ tainted' = IF ~recent.loaded /\ recent.flight = "read" THEN tainted \cup {"list"} ELSE tainted
  /\ UNCHANGED <<hidden, budget>> /\ FilterFrame

\* A repository is added: recentPRsKey is a prefix of the filter's key.
AddRepo ==
  /\ recent' = Invalidate(recent, TRUE) /\ filter' = Invalidate(filter, TRUE)
  /\ tainted' = IF saving.phase = "none" THEN tainted ELSE tainted \cup {"filter"}
  /\ UNCHANGED <<hidden, saving>> /\ FilterFrame /\ Act

FilterStep ==
  /\ UNCHANGED <<hidden, saving, tainted>> /\ FilterFrame
  /\ \/ filter.flight = "sent" /\ filter' = Served(filter, hidden) /\ UNCHANGED <<recent, budget>>
     \/ filter.flight = "read" /\ filter' = Arrived(filter) /\ UNCHANGED <<recent, budget>>
     \/ filter.flight = "sent" /\ filter' = Failed(filter) /\ UNCHANGED recent /\ Fault
     \/ recent.flight = "sent" /\ recent' = Served(recent, hidden) /\ UNCHANGED <<filter, budget>>
     \/ recent.flight = "read" /\ recent' = Arrived(recent) /\ UNCHANGED <<filter, budget>>
     \/ recent.flight = "sent" /\ recent' = Failed(recent) /\ UNCHANGED filter /\ Fault

-----------------------------------------------------------------------------
(* Notifications *)

NoteFrame == UNCHANGED <<run, rows, hidden, sessionVars, streamVars, dashVars, filterVars, tmuxVars>>
NoteRows  == IF notes.loaded /\ ~notes.failed THEN notes.data ELSE {}

Notified(id) ==
  /\ id \notin unread /\ unread' = unread \cup {id}
  /\ UNCHANGED noteVars /\ NoteFrame /\ Act

PickNote(id) ==
  /\ id \in NoteRows
  /\ notesPicked' = IF id \in notesPicked THEN notesPicked \ {id} ELSE notesPicked \cup {id}
  /\ UNCHANGED <<unread, notes, reading>> /\ NoteFrame /\ Act

\* The head's checkbox: all that is listed, or none if all of it is picked.
PickAllNotes ==
  /\ NoteRows # {}
  /\ notesPicked' = IF NoteRows \subseteq notesPicked THEN {} ELSE NoteRows
  /\ UNCHANGED <<unread, notes, reading>> /\ NoteFrame /\ Act

\* What is marked leaves the list at once; a request under way stays.
Read(ids) ==
  /\ reading' = reading \cup {ids}
  /\ notes' = SetData(notes, (IF notes.loaded THEN notes.data ELSE {}) \ ids)

MarkPicked ==
  /\ NoteRows # {} /\ notesPicked # {}
  /\ Read(notesPicked) /\ notesPicked' = {}
  /\ UNCHANGED unread /\ NoteFrame /\ Act

OpenNote(id) ==
  /\ id \in NoteRows
  /\ Read({id}) /\ notesPicked' = {}
  /\ UNCHANGED unread /\ NoteFrame /\ Act

NotesRead(ids) ==
  /\ ids \in reading /\ reading' = reading \ {ids} /\ unread' = unread \ ids
  /\ UNCHANGED <<notes, notesPicked, budget>> /\ NoteFrame

ReadFailed(ids) ==
  /\ ids \in reading /\ reading' = reading \ {ids}
  /\ UNCHANGED <<unread, notes, notesPicked>> /\ NoteFrame /\ Fault

PollNotes ==
  /\ Idle(notes) /\ notes' = Poll(notes)
  /\ UNCHANGED <<unread, notesPicked, reading, budget>> /\ NoteFrame

NoteStep ==
  /\ UNCHANGED <<unread, notesPicked, reading>> /\ NoteFrame
  /\ \/ notes.flight = "sent" /\ notes' = Served(notes, unread) /\ UNCHANGED budget
     \/ notes.flight = "read" /\ notes' = Arrived(notes) /\ UNCHANGED budget
     \/ notes.flight = "sent" /\ notes' = Failed(notes) /\ Fault

-----------------------------------------------------------------------------
(* Tmux sessions *)

TmuxFrame == UNCHANGED <<run, rows, hidden, unread, streamVars, dashVars, filterVars, noteVars>>
TmuxRows  == IF tmux.loaded /\ ~tmux.failed THEN tmux.data ELSE {}

\* A session ends: its row stays, and is listed as stale.
SessionExits(p) ==
  /\ p \in live /\ live' = live \ {p}
  /\ UNCHANGED <<stored, deleted, tmuxVars>> /\ TmuxFrame /\ Act

\* Another page opens a session for picks.  (That its row cannot be saved is left out.)
SessionOpened(p) ==
  /\ live' = live \cup {p} /\ stored' = stored \cup {p} /\ deleted' = deleted \ {p}
  /\ <<live, stored>>' # <<live, stored>>
  /\ UNCHANGED tmuxVars /\ TmuxFrame /\ Act

\* The page of a pull request asks for its session and finds the row stale.
SessionReaped(p) ==
  /\ p \in stored \ live /\ stored' = stored \ {p}
  /\ UNCHANGED <<live, deleted, tmuxVars>> /\ TmuxFrame /\ Act

\* The list is fetched whenever the pointer is on the link to it; a request under way is joined.
Prefetch ==
  /\ Idle(tmux) /\ tmux' = Poll(tmux)
  /\ UNCHANGED <<sessionVars, selecting, killPicked, killing, killError>> /\ TmuxFrame /\ Act

StartSelecting ==
  /\ ~selecting /\ TmuxRows # {} /\ selecting' = TRUE
  /\ UNCHANGED <<sessionVars, tmux, killPicked, killing, killError>> /\ TmuxFrame /\ Act

\* The buttons are disabled while the call is pending.
StopSelecting ==
  /\ selecting /\ TmuxRows # {} /\ killing.phase = "none"
  /\ selecting' = FALSE /\ killPicked' = {}
  /\ UNCHANGED <<sessionVars, tmux, killing, killError>> /\ TmuxFrame /\ Act

PickSession(p) ==
  /\ selecting /\ p \in TmuxRows
  /\ killPicked' = IF p \in killPicked THEN killPicked \ {p} ELSE killPicked \cup {p}
  /\ UNCHANGED <<sessionVars, tmux, selecting, killing, killError>> /\ TmuxFrame /\ Act

PickAllSessions ==
  /\ selecting /\ TmuxRows # {}
  /\ killPicked' = IF TmuxRows \subseteq killPicked THEN {} ELSE TmuxRows
  /\ UNCHANGED <<sessionVars, tmux, selecting, killing, killError>> /\ TmuxFrame /\ Act

\* What is picked and still listed.
ConfirmKill ==
  /\ selecting /\ killing.phase = "none" /\ killPicked \cap TmuxRows # {}
  /\ killing' = [refs |-> killPicked \cap TmuxRows, phase |-> "sent"] /\ killError' = FALSE
  /\ UNCHANGED <<sessionVars, tmux, selecting, killPicked>> /\ TmuxFrame /\ Act

\* The server kills the sessions that have a row, one by one and whichever it can.
KillSessions ==
  /\ killing.phase = "sent"
  /\ \E killed \in SUBSET (killing.refs \cap stored) : live' = live \ killed
  /\ killing' = [killing EXCEPT !.phase = "killed"]
  /\ UNCHANGED <<stored, deleted, tmux, selecting, killPicked, killError, budget>> /\ TmuxFrame

\* Then it deletes the rows, one by one until that fails; the answer may be lost as well.
DeleteRows(gone, answer) ==
  /\ killing.phase = "killed" /\ answer \in {"ok", "failed"} /\ (answer = "ok" => gone = killing.refs)
  /\ stored' = stored \ gone
  /\ deleted' = IF answer = "ok" THEN deleted \cup gone ELSE deleted
  /\ killing' = [killing EXCEPT !.phase = answer]
  /\ UNCHANGED <<live, tmux, selecting, killPicked, killError>> /\ TmuxFrame
  /\ IF answer = "ok" THEN UNCHANGED budget ELSE Fault

KillRefused ==
  /\ killing.phase = "sent" /\ killing' = [killing EXCEPT !.phase = "failed"]
  /\ UNCHANGED <<sessionVars, tmux, selecting, killPicked, killError>> /\ TmuxFrame /\ Fault

\* onSuccess fetches the list again, and an error leaves it as it is; and as if an answer
\* under way were waited for.
ListedAgainLazily == Poll(tmux)
ListedAgain       == Invalidate(tmux, TRUE)

KillAnswered ==
  /\ killing.phase \in {"ok", "failed"}
  /\ IF killing.phase = "ok"
     THEN /\ killing' = [killing EXCEPT !.phase = "refetch"] /\ tmux' = ListedAgain
          /\ UNCHANGED killError
     ELSE killing' = NoKill /\ killError' = TRUE /\ UNCHANGED tmux
  /\ UNCHANGED <<sessionVars, selecting, killPicked, budget>> /\ TmuxFrame

\* The call is pending until the list is there; then the selection ends.
KillEnds ==
  /\ killing.phase = "refetch" /\ Idle(tmux)
  /\ killing' = NoKill /\ selecting' = FALSE /\ killPicked' = {}
  /\ UNCHANGED <<sessionVars, tmux, killError, budget>> /\ TmuxFrame

KillStep ==
  \/ KillSessions \/ KillRefused \/ KillAnswered \/ KillEnds
  \/ \E gone \in SUBSET killing.refs, answer \in {"ok", "failed"} : DeleteRows(gone, answer)

\* The list is that of the rows; that a row's session is live is a flag that is only shown.
TmuxStep ==
  /\ UNCHANGED <<sessionVars, selecting, killPicked, killing, killError>> /\ TmuxFrame
  /\ \/ tmux.flight = "sent" /\ tmux' = Served(tmux, stored) /\ UNCHANGED budget
     \/ tmux.flight = "read" /\ tmux' = Arrived(tmux) /\ UNCHANGED budget
     \/ tmux.flight = "sent" /\ tmux' = Failed(tmux) /\ Fault

-----------------------------------------------------------------------------
(* The specification *)

RunNext ==
  \E p \in PRs :
    StartRun(p) \/ PersistFailure(p) \/ Release(p) \/ \E o \in Outcome : EndRun(p, o)
StreamNext == Connect \/ GiveUp \/ Drop \/ \E p \in PRs : Event(p)
PagerNext  == \E k \in Pages : Goto(k)
FilterNext ==
  AddRepo \/ FilterSettled \/ (\E o \in Orgs : SaveFilter(o)) \/ \E a \in {"ok", "refused", "lost"} : PutFilter(a)
NoteNext ==
  \/ PickAllNotes \/ MarkPicked \/ PollNotes
  \/ \E id \in Ids : Notified(id) \/ PickNote(id) \/ OpenNote(id)
  \/ \E ids \in reading : NotesRead(ids) \/ ReadFailed(ids)
TmuxNext ==
  \/ Prefetch \/ StartSelecting \/ StopSelecting \/ PickAllSessions \/ ConfirmKill \/ KillStep
  \/ \E p \in TmuxPRs : SessionExits(p) \/ SessionOpened(p) \/ SessionReaped(p) \/ PickSession(p)
Dashboard ==
  RunNext \/ StreamNext \/ PagerNext \/ HistoryStep \/ FilterNext \/ FilterStep
In(v) == view = v /\ UNCHANGED <<view, textVars, annVars>>
Next ==
  \/ In("dashboard") /\ Dashboard
  \/ In("notifications") /\ (NoteNext \/ NoteStep)
  \/ In("tmux") /\ (TmuxNext \/ TmuxStep)
  \/ view = "comments" /\ TextNext /\ UNCHANGED <<view, listVars, annVars>>
  \/ view = "diff" /\ AnnNext /\ UNCHANGED <<view, listVars, textVars>>

Spec == Init /\ [][Next]_vars

\* The requests and the calls of the view, one of which there is in a behaviour.
Answer ==
  \/ In("dashboard") /\ HistoryStep
  \/ In("notifications") /\ NoteStep
  \/ In("tmux") /\ TmuxStep
  \/ view = "comments" /\ TextAnswer /\ UNCHANGED <<view, listVars, annVars>>
Call ==
  \/ In("notifications") /\ \E ids \in reading : NotesRead(ids) \/ ReadFailed(ids)
  \/ In("tmux") /\ KillStep

Arrival ==
  \/ In("dashboard") /\ (Connect \/ GiveUp \/ \E p \in PRs : Event(p))
  \/ In("notifications") /\ PollNotes

\* Requests are answered and the answers arrive, and so do calls; the stream delivers, and
\* reconnects or gives up; the interval fires.
FairSpec == Spec /\ WF_vars(Answer) /\ WF_vars(Call) /\ WF_vars(Arrival)

-----------------------------------------------------------------------------
(* Properties *)

\* When all has settled the filter shown is the server's, and the list is the one under it.
\* tainted leaves out, for the filter, a toggle before it is loaded, an answer of the PUT that
\* is lost, and a repository added during a save; for the list, a save that settles while
\* the answer to its first request is under way.  useSaveRecentPRFilter, queries/index.ts.
FilterSettles ==
  saving.phase = "none" =>
    /\ "filter" \notin tainted /\ Idle(filter) /\ filter.loaded => filter.data = hidden
    /\ "list" \notin tainted /\ Idle(recent) /\ recent.loaded /\ ~recent.failed => recent.data = hidden

\* The rows that were stored when the end of a review was told, that of a done one among
\* them, get into the history shown, also when it was being fetched again at that moment: not
\* if it was being fetched for the first time.  A failed review is stored behind its end, and
\* need not get in.  ActiveReviewsProvider.
HistoryFollows ==
  <>[](page = 0 => history[0].failed \/ (IF history[0].loaded THEN history[0].data.of ELSE 0) >= told)

\* A review is not kept as running after its run for good, also if the connection was lost
\* while it ended, unless the stream has given up.  One that a snapshot brings as ended
\* stays listed, which this does not exclude.  ActiveReviewsProvider.
RunningRowEnds ==
  <>[](stream = "given up" \/ \A p \in PRs : byKey[p] = "running" => run[p] = "running")

\* As if no review stayed in the list after its run.
EndedRowLeaves ==
  <>[](stream = "given up" \/ \A p \in PRs : byKey[p] # "none" => run[p] # "none")

\* What the user marked as read is not forgotten for good when marking fails, and what an
\* answer under way brings back does not stay.  useReadNotifications.
NotesFollow == <>[](view = "notifications" => notes.data = unread)


\* A row that a call has deleted, and has said so, is not listed once the call is over, however
\* its requests overlap, unless it is stored again.  useCleanupTmux, TmuxPanel.
KilledLeave == killing.phase \notin {"ok", "refetch"} => TmuxRows \cap deleted = {}

\* As if that were so of any call that kills.
FailedKillLeaves ==
  \A p \in TmuxPRs :
    killing.phase = "killed" /\ p \in killing.refs ~>
      tmux.failed \/ p \notin TmuxRows \/ (killing.phase = "none" /\ p \in live)

=============================================================================
