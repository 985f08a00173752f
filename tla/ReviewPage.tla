----------------------------- MODULE ReviewPage -----------------------------
(***************************************************************************)
(* The review as the page of a pull request keeps it: createReview and the *)
(* reconnecting event stream under it, the calls its buttons make, and the *)
(* navigation from one pull request to another, for which the page is kept *)
(* and only its effects run again.                                         *)
(*                                                                         *)
(* The server is what the page can see of it: the run in flight, the newest *)
(* row, what was published last.  ReviewRun and Streams are its detail.    *)
(* Other tabs watch, start and stop runs as well.                          *)
(* Which agents are selected, or run, makes no difference here; whether    *)
(* any is does, and a stop of one agent changes nothing of what is shown   *)
(* until the run says so.  The message of a call that failed is left out.  *)
(***************************************************************************)
EXTENDS Naturals, Sequences, FiniteSets

CONSTANTS
  PRs,
  NoPR,
  Reviewed,    \* the pull requests that may have a stored review at first
  Retries,     \* how many delays retryDelays has
  MaxRuns,     \* bound: runs of each pull request
  MaxCalls,    \* bound: calls of the page
  MaxFaults    \* bound: lost connections, lost answers and restarts of the server

ASSUME ReviewPageAssumption ==
  /\ NoPR \notin PRs /\ Reviewed \subseteq PRs
  /\ Retries \in Nat /\ MaxRuns \in [PRs -> Nat] /\ MaxCalls \in Nat /\ MaxFaults \in Nat

VARIABLES
  inFlight, row, last, runs, faults,   \* the server, by pull request
  stream,      \* the closure of reconnectingEventStream each effect run made
  feed,        \* what the server wrote to it and the browser has not dispatched
  pr,          \* owner(), repo() and prNumber()
  review, synced, connected, starting, stopping,
  picked,      \* no agents are known, or one that is known is not deselected
  calls        \* the page's requests that have not settled

serverVars == <<inFlight, row, last, runs, faults>>
streamVars == <<stream, feed>>
pageVars   == <<pr, review, synced, connected, starting, stopping>>
vars == <<serverVars, streamVars, pageVars, picked, calls>>

-----------------------------------------------------------------------------
Statuses == {"running", "done", "error", "cancelled"}
NoReview == [of |-> NoPR, run |-> 0, status |-> "none", session |-> FALSE]
Review   == [of : PRs, run : Nat, status : Statuses, session : BOOLEAN]
Maybe    == Review \cup {NoReview}

\* A source is asked for, its seed is read, its subscription is registered.  What was
\* heard by it: nothing since a snapshot that was right, something published since, or
\* a snapshot that was stale already and nothing since.
Closed == [source |-> "none", timer |-> FALSE, retry |-> 0, heard |-> "nothing"]
Stream == [source : {"none", "asking", "seeded", "open"}, timer : BOOLEAN, retry : 0..Retries,
           heard : {"nothing", "told", "astray"}]

Call == [kind : {"start", "rerun", "cancel"}, of : PRs,
         answer : {"none", "ok", "failed"}, n : 1..MaxCalls]

TypeOK ==
  /\ inFlight \in [PRs -> Maybe] /\ row \in [PRs -> Maybe] /\ last \in [PRs -> Maybe]
  /\ runs \in [PRs -> Nat] /\ faults \in 0..MaxFaults
  /\ stream \in [PRs -> Stream] /\ feed \in [PRs -> Seq(Maybe)]
  /\ pr \in PRs /\ review \in Maybe
  /\ synced \in BOOLEAN /\ connected \in BOOLEAN
  /\ starting \in BOOLEAN /\ stopping \in BOOLEAN
  /\ picked \in BOOLEAN
  /\ calls \subseteq Call

Stored(p) == [of |-> p, run |-> 0, status |-> "done", session |-> TRUE]

Init ==
  /\ inFlight = [p \in PRs |-> NoReview] /\ last = inFlight
  /\ row \in [PRs -> {NoReview} \cup {Stored(p) : p \in PRs}]
  /\ \A p \in PRs : row[p] \in {NoReview} \cup {Stored(q) : q \in Reviewed \cap {p}}
  /\ runs = [p \in PRs |-> 0] /\ faults = 0
  /\ feed = [p \in PRs |-> <<>>]
  /\ pr \in PRs
  /\ stream = [p \in PRs |-> IF p = pr THEN [Closed EXCEPT !.source = "asking"] ELSE Closed]
  /\ review = NoReview /\ synced = FALSE /\ connected = FALSE
  /\ starting = FALSE /\ stopping = FALSE
  /\ picked = TRUE
  /\ calls = {}

-----------------------------------------------------------------------------
(* What the page derives from its state *)

Working(rv)  == rv.status = "running"
Busy(rv, st) == st \/ Working(rv)
busy         == Busy(review, starting)
canRun       == synced /\ connected /\ ~busy /\ picked

\* No source and no timer: the delays are used up, and nothing will connect again.
GaveUp(p) == stream[p].source = "none" /\ ~stream[p].timer
Astray(p) == stream[p].heard = "astray"

\* setReview and setStarting, with the effect that drops stopping once nothing is
\* busy; as it would be without that effect, too.
ShowsWithoutEffect(rv, st, sp) ==
  /\ review' = rv /\ starting' = st /\ stopping' = sp

Shows(rv, st, sp) ==
  /\ review' = rv /\ starting' = st /\ stopping' = (sp /\ Busy(rv, st))

-----------------------------------------------------------------------------
(* The server *)

Fault == faults < MaxFaults /\ faults' = faults + 1

\* The feed of a slow connection: what is pending for a pull request is overwritten
\* by the newest, what is written stays; and as if what is pending stayed as well.
Oldest(f, rv) == IF Len(f) < 2 THEN Append(f, rv) ELSE f
Newest(f, rv) == IF Len(f) < 2 THEN Append(f, rv) ELSE [f EXCEPT ![2] = rv]

\* Only a registered subscription is pushed to.
Publish(p, rv) ==
  /\ last' = [last EXCEPT ![p] = rv]
  /\ feed' = [feed EXCEPT ![p] = IF stream[p].source = "open" THEN Newest(@, rv) ELSE @]
  /\ stream' = [stream EXCEPT ![p].heard = IF stream[p].source = "open" THEN "told" ELSE @]

Update(p, rv) == inFlight' = [inFlight EXCEPT ![p] = rv] /\ Publish(p, rv)

ServerFrame == UNCHANGED <<pageVars, picked>>

Begins(p, base) ==
  /\ Update(p, [of |-> p, run |-> runs[p] + 1, status |-> "running", session |-> base.session])
  /\ runs' = [runs EXCEPT ![p] = @ + 1]

\* Runner.Start: a run in flight is returned as it is, an ended one as well.
Accepts(p, base) ==
  IF inFlight[p] # NoReview
  THEN UNCHANGED <<inFlight, last, streamVars, runs>>
  ELSE Begins(p, base)

StartElsewhere(p) ==
  /\ inFlight[p] = NoReview /\ runs[p] < MaxRuns[p]
  /\ Begins(p, NoReview)
  /\ UNCHANGED <<row, faults, calls>> /\ ServerFrame

\* finish; a review that is done has been stored before.
Finish(p, status) ==
  LET rv == [inFlight[p] EXCEPT !.status = status,
                                !.session = @ \/ status = "done"]
  IN  /\ Working(inFlight[p]) /\ status # "running"
      /\ Update(p, rv)
      /\ row' = [row EXCEPT ![p] = IF status = "done" THEN rv ELSE @]
      /\ UNCHANGED <<runs, faults, calls>> /\ ServerFrame

\* persistFailure, for a run that has no stored review, and restore, for one that has.
PersistFailure(p) ==
  /\ inFlight[p].status = "error" /\ ~inFlight[p].session
  /\ row' = [row EXCEPT ![p] = [inFlight[p] EXCEPT !.session = TRUE]]
  /\ UNCHANGED <<inFlight, last, runs, faults, streamVars, calls>> /\ ServerFrame

Restore(p) ==
  /\ inFlight[p].status = "cancelled" /\ inFlight[p].session
  /\ Update(p, [inFlight[p] EXCEPT !.status = "done"])
  /\ UNCHANGED <<row, runs, faults, calls>> /\ ServerFrame

Release(p) ==
  /\ inFlight[p] # NoReview /\ ~Working(inFlight[p])
  /\ inFlight' = [inFlight EXCEPT ![p] = NoReview]
  /\ UNCHANGED <<row, last, runs, faults, streamVars, calls>> /\ ServerFrame

\* The answer to a call, and the call whose answer is lost.
Answer(c, answer) ==
  /\ calls' = (calls \ {c}) \cup {[c EXCEPT !.answer = answer]}
  /\ IF answer = "failed" THEN Fault ELSE UNCHANGED faults

HandleStart(c, answer) ==
  /\ c.kind = "start" /\ c.answer = "none"
  /\ inFlight[c.of] = NoReview => runs[c.of] < MaxRuns[c.of]
  /\ Accepts(c.of, NoReview)
  /\ Answer(c, answer)
  /\ UNCHANGED row /\ ServerFrame

\* Orchestrator.Rerun: the base is the run in flight, what the hub has, or the row.
Base(p) ==
  IF inFlight[p].session THEN inFlight[p] ELSE IF last[p].session THEN last[p] ELSE row[p]

HandleRerun(c, answer) ==
  /\ c.kind = "rerun" /\ c.answer = "none"
  /\ Base(c.of).session
  /\ inFlight[c.of] = NoReview => runs[c.of] < MaxRuns[c.of]
  /\ Accepts(c.of, Base(c.of))
  /\ Answer(c, answer)
  /\ UNCHANGED row /\ ServerFrame

\* Cancel marks the run; that it ends is Finish.
HandleCancel(c, answer) ==
  /\ c.kind = "cancel" /\ c.answer = "none"
  /\ Answer(c, answer)
  /\ UNCHANGED <<inFlight, row, last, runs, streamVars>> /\ ServerFrame

\* The request did not arrive, or the server refused it (at the bound on runs, too).
Refused(c) ==
  /\ c.answer = "none"
  /\ \/ Fault
     \/ UNCHANGED faults /\ c.kind = "rerun" /\ ~Base(c.of).session
     \/ UNCHANGED faults /\ c.kind \in {"start", "rerun"} /\ runs[c.of] = MaxRuns[c.of]
  /\ calls' = (calls \ {c}) \cup {[c EXCEPT !.answer = "failed"]}
  /\ UNCHANGED <<inFlight, row, last, runs, streamVars>> /\ ServerFrame

-----------------------------------------------------------------------------
(* eventStream.ts *)

StreamFrame == UNCHANGED <<pr, picked, calls>>

\* Orchestrator.Subscribe reads the run in flight, or the row unless somebody watches the
\* pull request already: then what the hub keeps is to be used, and nothing is read.
Seeds(p) == IF inFlight[p] # NoReview THEN {inFlight[p]} ELSE {row[p], NoReview}

Seed(p) ==
  /\ stream[p].source = "asking"
  /\ \E seed \in Seeds(p) : feed' = [feed EXCEPT ![p] = <<seed>>]
  /\ stream' = [stream EXCEPT ![p].source = "seeded"]
  /\ UNCHANGED <<serverVars, review, synced, connected, starting, stopping>>
  /\ StreamFrame

\* What the hub keeps for other tabs: the last that was published while they watched,
\* or the snapshot they were given; and what that snapshot may be when one of them had
\* missed the end of a run, or a start, or the row between reading and registering.
Snapshots(p) ==
  IF inFlight[p] # NoReview THEN {inFlight[p]} ELSE {row[p]} \cup ({last[p]} \ {NoReview})

Stale(p) ==
  {NoReview, row[p]} \cup
    (IF last[p] = NoReview THEN {} ELSE {[last[p] EXCEPT !.status = "running"]})

\* Hub.Subscribe: the first event is what the hub keeps, or else the seed, however old
\* it is by now; what was published since the seed was read is not pushed again.
Register(p) ==
  /\ stream[p].source = "seeded"
  /\ \E snapshot \in {Head(feed[p])} \cup Snapshots(p) \cup Stale(p) :
       /\ stream' = [stream EXCEPT ![p].source = "open",
                      ![p].heard = IF snapshot \in Snapshots(p) THEN "nothing" ELSE "astray"]
       /\ feed' = [feed EXCEPT ![p] = <<snapshot>>]
  /\ UNCHANGED <<serverVars, review, synced, connected, starting, stopping>>
  /\ StreamFrame

StillStarting(next)      == starting /\ next = NoReview

\* An event: the handler of state, then retry = 0 and connected(true).
Message(p) ==
  LET next == Head(feed[p])
  IN  /\ stream[p].source = "open" /\ feed[p] # <<>>
      /\ Shows(next, StillStarting(next), stopping)
      /\ synced' = TRUE /\ connected' = TRUE
      /\ stream' = [stream EXCEPT ![p].retry = 0]
      /\ feed' = [feed EXCEPT ![p] = Tail(@)]
      /\ UNCHANGED serverVars /\ StreamFrame

\* The stream after an error: a delay and a source after it, if a delay is left; and
\* without looking whether one is.
LostAgain(p) ==
  [Closed EXCEPT !.timer = TRUE, !.retry = stream[p].retry + 1]

Lost(p) ==
  IF stream[p].retry < Retries
  THEN [Closed EXCEPT !.timer = TRUE, !.retry = stream[p].retry + 1]
  ELSE [Closed EXCEPT !.retry = stream[p].retry]

\* error: the connection broke, or was never made.
Drop(p) ==
  /\ stream[p].source # "none"
  /\ Fault
  /\ stream' = [stream EXCEPT ![p] = Lost(p)]
  /\ feed' = [feed EXCEPT ![p] = <<>>]
  /\ connected' = FALSE
  /\ UNCHANGED <<inFlight, row, last, runs, review, synced, starting, stopping>>
  /\ StreamFrame

\* The process of the server dies with its runs, and every connection with it.
Restart ==
  /\ Fault
  /\ inFlight' = [p \in PRs |-> NoReview] /\ last' = inFlight'
  /\ stream' = [p \in PRs |-> IF stream[p].source \in {"seeded", "open"}
                          THEN Lost(p) ELSE stream[p]]
  /\ feed' = [p \in PRs |-> <<>>]
  /\ connected' = (connected /\ stream' = stream)
  /\ UNCHANGED <<row, runs, review, synced, starting, stopping>>
  /\ StreamFrame

Reconnect(p) ==
  /\ stream[p].timer
  /\ stream' = [stream EXCEPT ![p].timer = FALSE, ![p].source = "asking"]
  /\ UNCHANGED <<serverVars, feed, review, synced, connected, starting, stopping>>
  /\ StreamFrame

-----------------------------------------------------------------------------
(* createReview *)

\* The effect on the accessors runs again: onCleanup closes the stream, the signals
\* are set back, a new stream is opened; and without the cleanup.
NavigateKeepingStream(p) ==
  /\ p # pr
  /\ pr' = p
  /\ stream' = [stream EXCEPT ![p] = [Closed EXCEPT !.source = "asking"]]
  /\ feed' = [feed EXCEPT ![p] = <<>>]
  /\ Shows(NoReview, FALSE, FALSE)
  /\ synced' = FALSE /\ connected' = FALSE
  /\ UNCHANGED <<serverVars, picked, calls>>

Navigate(p) ==
  /\ p # pr
  /\ pr' = p
  /\ stream' = [stream EXCEPT ![pr] = Closed, ![p] = [Closed EXCEPT !.source = "asking"]]
  /\ feed' = [feed EXCEPT ![pr] = <<>>, ![p] = <<>>]
  /\ Shows(NoReview, FALSE, FALSE)
  /\ synced' = FALSE /\ connected' = FALSE
  /\ UNCHANGED <<serverVars, picked, calls>>

\* AgentPicker: the last agent deselected, or one selected again.
ToggleAgent ==
  /\ review = NoReview /\ ~busy
  /\ picked' = ~picked
  /\ UNCHANGED <<serverVars, streamVars, pageVars, calls>>

Ask(kind) ==
  LET n == Cardinality(calls) + 1
  IN  /\ n <= MaxCalls
      /\ \A c \in calls : c.n # n
      /\ calls' = calls \cup {[kind |-> kind, of |-> pr, answer |-> "none", n |-> n]}
      /\ UNCHANGED <<serverVars, streamVars, pr, synced, connected, picked>>

\* ReviewPanel shows and enables the button.
CanStart  == review = NoReview /\ canRun
CanRerun  == ~busy /\ review.session
CanCancel == busy /\ ~stopping

Start ==
  /\ CanStart
  /\ Shows(review, TRUE, stopping)
  /\ Ask("start")

Rerun ==
  /\ CanRerun
  /\ Shows(review, TRUE, stopping)
  /\ Ask("rerun")

Cancel ==
  /\ CanCancel
  /\ Shows(review, starting, TRUE)
  /\ Ask("cancel")

\* What follows the await, whatever pull request the page shows by then.
Settle(c) ==
  LET ok == c.answer = "ok"
  IN  /\ c.answer # "none"
      /\ calls' = calls \ {c}
      /\ IF c.kind = "cancel"
         THEN Shows(review, starting /\ ~ok, stopping /\ ok)
         ELSE Shows(review, starting /\ ok, stopping)
      /\ UNCHANGED <<serverVars, streamVars, pr, synced, connected, picked>>

-----------------------------------------------------------------------------
ServerStep(p) ==
  \/ \E status \in Statuses : Finish(p, status)
  \/ PersistFailure(p) \/ Restore(p)

Handle(c) ==
  \E answer \in {"ok", "failed"} :
    HandleStart(c, answer) \/ HandleRerun(c, answer) \/ HandleCancel(c, answer)

User ==
  \/ \E p \in PRs : Navigate(p)
  \/ ToggleAgent \/ Start \/ Rerun \/ Cancel

StreamStep(p) == Reconnect(p) \/ Seed(p) \/ Register(p) \/ Message(p)

Next ==
  \/ \E p \in PRs : ServerStep(p) \/ Release(p) \/ StartElsewhere(p) \/ StreamStep(p) \/ Drop(p)
  \/ \E c \in calls : Handle(c) \/ Refused(c) \/ Settle(c)
  \/ Restart \/ User

Spec == Init /\ [][Next]_vars

\* The browser fires timers and dispatches what arrives, the server accepts what asks
\* and ends its runs; no user has to do anything.
FairSpec ==
  /\ Spec
  /\ WF_vars(\E p \in PRs : StreamStep(p))
  /\ WF_vars(\E p \in PRs : Release(p) \/ \E status \in Statuses : Finish(p, status))
  /\ WF_vars(\E c \in calls : Handle(c) \/ Refused(c))
  /\ WF_vars(\E c \in calls : Settle(c))

-----------------------------------------------------------------------------
\* The review a page displays is one of its pull request, although streams outlive
\* effects and results are applied after navigations.
ShownIsOfPage == review # NoReview => review.of = pr


\* A page ends up connected and showing what was published last, if something was since
\* its subscription was registered, else what Subscribe answered and still holds, what-
\* ever was lost before.  Not so a page whose stream gave up, and not one whose run ended
\* between the two halves of Subscribe (orchestrator.go:89-94), until the next event.
CatchesUp ==
  \A p \in PRs : <>[](pr = p /\ ~GaveUp(p) /\ ~Astray(p)) =>
    <>[](/\ synced /\ connected
         /\ IF stream[p].heard = "told" THEN review = last[p] ELSE review \in Snapshots(p))

\* docs/architecture.md: Start "creates the review in running, broadcasts, and returns".
AcceptedIsRunning ==
  [][\A c \in calls : HandleStart(c, "ok") => Working(last'[c.of])]_vars

\* ReviewPanel: "connection lost - reconnecting", shown while synced and not connected.
LostIsReconnecting == synced /\ ~connected => ~GaveUp(pr)
=============================================================================
