------------------------------ MODULE PRDetail ------------------------------
(***************************************************************************)
(* The page of a pull request around its diff: the tab and the full screen, *)
(* the cached diffs, the lines picked for tmux, the line or file the side  *)
(* panel asks the diff to show, and the link to GitHub with its anchor.    *)
(*                                                                         *)
(* The component is kept when the page moves to another pull request; what *)
(* is not set back there is carried over.  A navigation is one step.  Left *)
(* out are the review (ReviewPage), comments and description, and the page *)
(* without a secure context, where there are no digests and no anchor.     *)
(***************************************************************************)
EXTENDS DiffView

CONSTANTS
  Targets,     \* of each pull request: the lines its concerns and notes name
  MaxActs,     \* bound: what the user does
  MaxFaults    \* bound: diffs and sessions that fail

ASSUME PRDetailAssumption ==
  /\ NoPR \notin PRs /\ NoFile \notin AllFiles /\ NoLine \notin AllLines
  /\ Targets \in [PRs -> SUBSET AllLines]
  /\ MaxActs \in Nat /\ MaxFaults \in Nat

VARIABLES
  pr, tab, cache,
  view,                  \* DiffView, once it is mounted
  mounted, fullscreen,
  picks, modal, opening, tmuxBusy,
  focus, fileFocus,
  anchor, awaiting,      \* createDiffAnchor: the line it links to, the one its digest is for
  hashing, digests,      \* the lines of digests nobody awaits any more; the map of digests
  acts, faults           \* counters, for the bounds only

pageVars   == <<pr, tab, mounted, fullscreen>>
tmuxVars   == <<modal, opening, tmuxBusy>>
anchorVars == <<anchor, awaiting, hashing, digests>>
vars == <<pageVars, cache, view, picks, tmuxVars, focus, fileFocus, anchorVars, acts, faults>>

Pick == [file : AllFiles, line : {l.line : l \in AllLines} \cup {NoLine}]

\* The state of the page, its view, its picks and its calls has its type; "A click in the diff
\* records one pick per file" (docs/architecture.md).
TypeOK ==
  /\ pr \in PRs /\ tab \in {"description", "files"}
  /\ cache \in [PRs -> {"none", "loading", "ready", "failed"}]
  /\ view \in View /\ view.collapsed \subseteq FileNames(view.of)
  /\ mounted \in BOOLEAN /\ fullscreen \in BOOLEAN
  /\ picks \in Seq(Pick)
  /\ \A i, j \in DOMAIN picks : picks[i].file = picks[j].file => i = j
  /\ modal \in BOOLEAN /\ opening \in Nat /\ tmuxBusy \in BOOLEAN
  /\ focus \in Selected /\ fileFocus \in AllFiles \cup {NoFile}
  /\ anchor \in Selected /\ awaiting \in Selected
  /\ hashing \subseteq AllLines /\ digests \subseteq AllFiles
  /\ acts \in 0..MaxActs /\ faults \in 0..MaxFaults

\* patchData: an empty diff is no patch.
Patch(c, p) == c[p] = "ready" /\ DiffOf[p] # <<>>

Fetched(c, p) == IF c[p] \in {"none", "failed"} THEN [c EXCEPT ![p] = "loading"] ELSE c

Init ==
  /\ pr \in PRs /\ tab = "description"
  /\ cache = [p \in PRs |-> "none"]
  /\ view = NoView /\ mounted = FALSE /\ fullscreen = FALSE
  /\ picks = <<>> /\ modal = FALSE /\ opening = 0 /\ tmuxBusy = FALSE
  /\ focus = NoLine /\ fileFocus = NoFile
  /\ anchor = NoLine /\ awaiting = NoLine /\ hashing = {} /\ digests = {}
  /\ acts = 0 /\ faults = 0

Act   == acts < MaxActs /\ acts' = acts + 1 /\ UNCHANGED faults
Fault == faults < MaxFaults /\ faults' = faults + 1 /\ UNCHANGED acts

-----------------------------------------------------------------------------
(* The link to GitHub *)

\* The focused line, or else the last pick that has one.
Target(tb, fc, pk) ==
  LET lined == {i \in DOMAIN pk : pk[i].line # NoLine}
  IN  IF tb # "files" THEN NoLine
      ELSE IF fc # NoLine THEN fc
      ELSE IF lined = {} THEN NoLine
      ELSE [file |-> pk[Max(lined)].file, line |-> pk[Max(lined)].line, side |-> "additions"]

target == Target(tab, focus, picks)

\* The effect of createDiffAnchor, part of every step that changes its target: the
\* digest under way is stale, and until the next is there the link stays as it was.
AnchorFollows ==
  LET t == target'
  IN  IF t = target THEN UNCHANGED anchorVars
      ELSE /\ hashing' = hashing \cup ({awaiting} \ {NoLine})
           /\ awaiting' = IF t = NoLine \/ t.file \in digests THEN NoLine ELSE t
           /\ anchor' = IF awaiting' = NoLine THEN t ELSE anchor
           /\ UNCHANGED digests

DigestFrame == UNCHANGED <<pageVars, cache, view, picks, tmuxVars, focus, fileFocus, acts, faults>>

DigestDone ==
  /\ awaiting # NoLine
  /\ anchor' = awaiting /\ awaiting' = NoLine
  /\ digests' = digests \cup {awaiting.file}
  /\ UNCHANGED hashing /\ DigestFrame

\* A digest that is stale only fills the map; and as if it set the anchor as well.
StaleDigestSets(t) ==
  /\ t \in hashing
  /\ hashing' = hashing \ {t} /\ digests' = digests \cup {t.file} /\ anchor' = t
  /\ UNCHANGED awaiting /\ DigestFrame

StaleDigest(t) ==
  /\ t \in hashing
  /\ hashing' = hashing \ {t} /\ digests' = digests \cup {t.file}
  /\ UNCHANGED <<anchor, awaiting>> /\ DigestFrame

-----------------------------------------------------------------------------
(* Picks and the tmux modal *)

PickIndex(file) == {i \in DOMAIN picks : picks[i].file = file}

\* One pick of a file, and none of a line that is gone.
PickLine(line) ==
  LET pinned == IF line.side = "deletions" THEN NoLine ELSE line.line
  IN  IF PickIndex(line.file) = {} THEN Append(picks, [file |-> line.file, line |-> pinned])
      ELSE [picks EXCEPT ![Min(PickIndex(line.file))].line = pinned]

RemovePick(file) ==
  IF PickIndex(file) = {} THEN picks ELSE RemoveAt(picks, Min(PickIndex(file)))

\* A line number is clicked: in the view that is there, whichever pull request it is of.
Click(line) ==
  /\ tab = "files" /\ ~modal /\ line \in Clickable(view)
  /\ view' = Clicked(view, line)
  /\ picks' = IF Deselects(view, line) THEN RemovePick(view.selectedFile) ELSE PickLine(line)
  /\ UNCHANGED <<pageVars, cache, tmuxVars, focus, fileFocus>>
  /\ AnchorFollows /\ Act

OpenTmuxModal ==
  /\ ~modal /\ modal' = TRUE
  /\ UNCHANGED <<pageVars, cache, view, picks, opening, tmuxBusy, focus, fileFocus, anchorVars>>
  /\ Act

CloseTmuxModal ==
  /\ modal /\ modal' = FALSE
  /\ UNCHANGED <<pageVars, cache, view, picks, opening, tmuxBusy, focus, fileFocus, anchorVars>>
  /\ Act

RemoveInModal(file) ==
  /\ modal /\ PickIndex(file) # {}
  /\ picks' = RemovePick(file)
  /\ UNCHANGED <<pageVars, cache, view, tmuxVars, focus, fileFocus>>
  /\ AnchorFollows /\ Act

\* The button is disabled while busy.
CanConfirm == modal /\ picks # <<>> /\ ~tmuxBusy

ConfirmTmux ==
  /\ CanConfirm
  /\ tmuxBusy' = TRUE /\ opening' = opening + 1
  /\ UNCHANGED <<pageVars, cache, view, picks, modal, focus, fileFocus, anchorVars>>
  /\ Act

\* The session is open: what is picked by now is dropped.  (The refetch of the session
\* that busy waits for is part of the step.)
TmuxOpened ==
  /\ opening > 0
  /\ opening' = opening - 1 /\ tmuxBusy' = FALSE /\ picks' = <<>>
  /\ UNCHANGED <<pageVars, cache, view, modal, focus, fileFocus, acts, faults>>
  /\ AnchorFollows

TmuxFailed ==
  /\ opening > 0
  /\ opening' = opening - 1 /\ tmuxBusy' = FALSE
  /\ UNCHANGED <<pageVars, cache, view, picks, modal, focus, fileFocus, anchorVars>>
  /\ Fault

-----------------------------------------------------------------------------
(* Tabs, focus and navigation *)

\* What DiffView's effects make of a page that shows p, with the tab and the focus given.
\* Mounted for the first time, it runs all of them.
Shown(tb, p, fc, ff) ==
  LET v == IF p # pr THEN Departed(view) ELSE IF tb # "files" /\ view.open THEN CloseSearch(view) ELSE view
      builds == IF mounted THEN p # pr ELSE tb = "files"
  IN  IF builds /\ Patch(cache, p) THEN Arrived(v, p, fc, ff) ELSE v

TabSet(tb) ==
  /\ tab' = tb /\ mounted' = (mounted \/ tb = "files")
  /\ fullscreen' = (fullscreen /\ tb = "files")

SetTab(tb) ==
  /\ ~modal /\ tb # tab
  /\ TabSet(tb)
  /\ view' = Shown(tb, pr, focus, fileFocus)
  /\ cache' = IF tb = "files" THEN Fetched(cache, pr) ELSE cache
  /\ UNCHANGED <<pr, picks, tmuxVars, focus, fileFocus>>
  /\ AnchorFollows /\ Act

\* focusLine, for a concern or a note with a line.
FocusLine(t) ==
  /\ ~modal /\ t \in Targets[pr]
  /\ focus' = t /\ TabSet("files")
  /\ cache' = Fetched(cache, pr)
  /\ view' = IF mounted /\ Patch(cache, pr) THEN FocusEffect(view, t) ELSE Shown("files", pr, t, fileFocus)
  /\ UNCHANGED <<pr, picks, tmuxVars, fileFocus>>
  /\ AnchorFollows /\ Act

FocusFile(file) ==
  /\ ~modal /\ file \in FileNames(pr)
  /\ fileFocus' = file /\ TabSet("files")
  /\ cache' = Fetched(cache, pr)
  /\ view' = IF mounted /\ Patch(cache, pr) THEN FileFocusEffect(view, file) ELSE Shown("files", pr, focus, file)
  /\ UNCHANGED <<pr, picks, tmuxVars, focus>>
  /\ AnchorFollows /\ Act

\* "f", and Escape when no search is open.
ToggleFullscreen ==
  /\ tab = "files" /\ ~modal
  /\ fullscreen' = ~fullscreen
  /\ UNCHANGED <<pr, tab, mounted, cache, view, picks, tmuxVars, focus, fileFocus, anchorVars>>
  /\ Act

Navigate(p, tb) ==
  /\ p # pr /\ pr' = p
  /\ TabSet(tb)
  /\ view' = Shown(tb, p, focus, fileFocus)
  /\ cache' = IF mounted' THEN Fetched(cache, p) ELSE cache
  /\ modal' = FALSE
  /\ UNCHANGED <<picks, opening, tmuxBusy, focus, fileFocus>>
  /\ AnchorFollows /\ Act

Prefetch ==
  /\ cache' = Fetched(cache, pr) /\ cache' # cache
  /\ UNCHANGED <<pageVars, view, picks, tmuxVars, focus, fileFocus, anchorVars>>
  /\ Act

\* The diff of p is there; as if the effects on focus did not depend on patchData, too.
LoadedFrame == UNCHANGED <<pageVars, picks, tmuxVars, focus, fileFocus, anchorVars>>

LoadedUnlocated(p) ==
  /\ cache[p] = "loading" /\ cache' = [cache EXCEPT ![p] = "ready"]
  /\ view' = IF mounted /\ p = pr /\ Patch(cache', p) THEN SearchEffect(Rebuilt(view, p)) ELSE view
  /\ LoadedFrame /\ UNCHANGED <<acts, faults>>

Loaded(p) ==
  /\ cache[p] = "loading" /\ cache' = [cache EXCEPT ![p] = "ready"]
  /\ view' = IF mounted /\ p = pr /\ Patch(cache', p) THEN Arrived(view, p, focus, fileFocus) ELSE view
  /\ LoadedFrame /\ UNCHANGED <<acts, faults>>

LoadFailed(p) ==
  /\ cache[p] = "loading" /\ cache' = [cache EXCEPT ![p] = "failed"]
  /\ UNCHANGED view /\ LoadedFrame /\ Fault

-----------------------------------------------------------------------------
(* What the user does with the diff *)

ViewStep(v) ==
  /\ view' = v /\ v # view
  /\ UNCHANGED <<pageVars, cache, picks, tmuxVars, focus, fileFocus, anchorVars>>
  /\ Act

Collapse(file) == tab = "files" /\ ~modal /\ ViewStep(ToggleCollapsed(view, file))
Slash          == mounted /\ tab = "files" /\ ~modal /\ ViewStep(OpenSearch(view))
Type(query)    == view.open /\ query # view.query /\ ViewStep(Input(view, query))
Move(step)     == view.open /\ ViewStep(MoveMatch(view, step))
Close          == view.open /\ ViewStep(CloseSearch(view))
SetTheme       == view.of # NoPR /\ Patch(cache, pr) /\ ViewStep(Themed(view))

Search ==
  \/ Slash \/ Close \/ Move(1) \/ Move(-1)
  \/ \E query \in Queries \cup {<<>>} : Type(query)

Tmux ==
  \/ OpenTmuxModal \/ CloseTmuxModal \/ ConfirmTmux \/ TmuxOpened \/ TmuxFailed
  \/ \E file \in AllFiles : RemoveInModal(file)

Page ==
  \/ \E tb \in {"description", "files"} : SetTab(tb) \/ \E p \in PRs : Navigate(p, tb)
  \/ \E t \in AllLines : FocusLine(t)
  \/ \E file \in AllFiles : FocusFile(file) \/ Collapse(file)
  \/ \E line \in AllLines : Click(line)
  \/ ToggleFullscreen \/ Prefetch \/ SetTheme

Next ==
  \/ Page \/ Search \/ Tmux
  \/ \E p \in PRs : Loaded(p) \/ LoadFailed(p)
  \/ DigestDone \/ \E t \in hashing : StaleDigest(t)

Spec == Init /\ [][Next]_vars

\* Requests are answered and digests end; no user has to do anything.
FairSpec ==
  /\ Spec
  /\ \A p \in PRs : WF_vars(Loaded(p) \/ LoadFailed(p))
  /\ WF_vars(DigestDone)

-----------------------------------------------------------------------------
\* What the view says is rendered is the diff of the page, and it is there.  A diff that is
\* left standing while the page has none of its own, under the skeleton or under the error
\* message, has lost the selection of the search, and no search selects in it.
RenderedIsOfPage ==
  /\ view.rendered => view.of = pr /\ Patch(cache, pr)
  /\ ~view.rendered => view.searchSel = NoLine

\* The skeleton covers the view until it is rendered or the request failed: then the error
\* stands above the view, whatever is in it.
Covered(p) == ~view.rendered /\ cache[p] # "failed"

\* As if a diff that the user can see and click were always that of the page.
UncoveredIsOfPage == view.of # NoPR /\ ~Covered(pr) => view.of = pr

\* The counter of the search and the line it selected speak of the same match, whatever
\* was typed, loaded, themed or clicked in between.
SearchShowsItsMatch ==
  view.open /\ view.rendered /\ view.searchSel # NoLine =>
    /\ Matches(view) # <<>>
    /\ view.searchSel = Position(Matches(view)[CurrentIndex(view) + 1])

\* A match lies at the line number of its side of the file, and every occurrence in the
\* lines of the diff is a match or overlaps one.
MatchesAreInFiles ==
  view.query # <<>> =>
    LET found == Range(Matches(view))
        lines == IF view.of = NoPR THEN {} ELSE Contents[view.of]
    IN  /\ \A m \in found : \E c \in lines :
             Position(c) = Position(m) /\ IsAt(c.text, view.query, m.column)
        /\ \A c \in lines : \A i \in 1..Len(c.text) :
             IsAt(c.text, view.query, i) =>
               \E m \in found : Position(c) = Position(m)
                                /\ m.column <= i /\ i < m.column + Len(view.query)

\* Once no digest is awaited, the link to GitHub is of the line that is focused or picked.
AnchorIsTarget == awaiting = NoLine => anchor = target

\* A line that was asked for before the diff was there is selected when it is.
LocateEnds ==
  \A p \in PRs : \A t \in Targets[p] :
    (pr = p /\ mounted /\ focus = t /\ t.file \in FileNames(p) /\ ~Patch(cache, p)) ~>
      (pr # p \/ focus # t \/ cache[p] = "failed" \/ view.sel = t \/ view.searchSel # NoLine)

\* docs/architecture.md: the un-pick "carries no file id, so DiffView tracks the last
\* selected file": it is the one whose line is deselected.
UnpickHitsSelection ==
  [][\A line \in AllLines :
       Click(line) /\ Deselects(view, line) => \A i \in DOMAIN picks :
         picks[i].file # line.file => \E j \in DOMAIN picks' : picks'[j] = picks[i]]_vars
=============================================================================
