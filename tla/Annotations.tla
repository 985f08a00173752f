---------------------------- MODULE Annotations ----------------------------
(***************************************************************************)
(* The notes of reviewers in the diff: comments that are fetched for each  *)
(* pull request, put to the files and lines they name, and given to the    *)
(* view when it is built, or file by file by the effect that follows the   *)
(* comments.                                                               *)
(*                                                                         *)
(* An annotation is its key; its entries, who wrote them and when are left *)
(* out, as sameAnnotations does not look at them.  A note without a file,  *)
(* a line or a side is one that is outdated.  The view is DiffView's: only *)
(* what it was built for and its annotations are kept here.                *)
(***************************************************************************)
EXTENDS Integers, SequencesExt, Queries

CONSTANTS
  DiffPRs,
  NoView,
  FilesOf,     \* the files of the patch of each pull request
  UpToColon,   \* of each name of a file, what stands before its first colon
  Answers,     \* what the comments of a pull request may be: sequences of threads
  MaxNoteActs, \* bound: navigations, new comments, themes, languages
  MaxNoteFaults

Names == UNION {FilesOf[p] : p \in DiffPRs}

Note   == [file : DOMAIN UpToColon, side : {"additions", "deletions"}, line : Nat, outdated : BOOLEAN]
Thread == [bot : BOOLEAN, notes : Seq(Note)]

ASSUME AnnotationsAssumption ==
  /\ NoView \notin DiffPRs /\ Names \subseteq DOMAIN UpToColon
  /\ Answers \subseteq Seq(Thread) /\ NoData \notin Answers
  /\ MaxNoteActs \in Nat /\ MaxNoteFaults \in Nat

VARIABLES
  at,          \* the pull request of the page
  posted,      \* the server: the comments of each
  comments,    \* the queries for them
  patches,     \* and for the patches
  built,       \* the CodeView: of which pull request, its annotations, when they were built
  rendered,
  highlights, highlightSeen,   \* highlightVersion, and the one the effect has seen
  noteActs, noteFaults

diffVars == <<built, rendered, highlightSeen>>
annVars  == <<at, posted, comments, patches, diffVars, highlights, noteActs, noteFaults>>

-----------------------------------------------------------------------------
(* annotationsByFile *)

\* What is shown in the diff are the notes of people, by threads, that are anchored.
Anchored(note) == ~note.outdated
Notes(threads) ==
  FlattenSeq([i \in DOMAIN threads |-> IF threads[i].bot THEN <<>> ELSE threads[i].notes])

Key(note) == [file |-> note.file, side |-> note.side, line |-> note.line]

\* One annotation a key, in the order in which the notes first have them.  The file of a key
\* is what stands before its first colon.
KeysUnder(f, notes) ==
  FoldLeft(LAMBDA keys, note :
             IF Anchored(note) /\ UpToColon[note.file] = f /\ Key(note) \notin Range(keys)
             THEN Append(keys, Key(note)) ELSE keys,
           <<>>, notes)
ByFile == [threads \in Answers \cup {<<>>} |-> [f \in Names |-> KeysUnder(f, Notes(threads))]]

\* As long as the keys are the same a file is left as it is; and as if their number were
\* compared.
SameNumber(a, b)      == Len(a) = Len(b)
SameAnnotations(a, b) == Len(a) = Len(b) /\ \A i \in DOMAIN a : a[i] = b[i]

-----------------------------------------------------------------------------
AllKeys == {Key(note) : note \in UNION {Range(Notes(threads)) : threads \in Answers}}

AnnTypeOK ==
  /\ at \in DiffPRs /\ posted \in [DiffPRs -> Answers]
  /\ comments \in [DiffPRs -> Query(Answers)]
  /\ patches \in [DiffPRs -> {"none", "loading", "ready", "failed"}]
  /\ built \in [of : DiffPRs \cup {NoView}, shown : [Names -> Seq(AllKeys)], under : 0..MaxNoteActs]
  /\ rendered \in BOOLEAN /\ highlights \in 0..MaxNoteActs /\ highlightSeen \in 0..MaxNoteActs
  /\ noteActs \in 0..MaxNoteActs /\ noteFaults \in 0..MaxNoteFaults

\* The page has just been opened.
AnnInit ==
  /\ at \in DiffPRs /\ posted \in [DiffPRs -> Answers]
  /\ comments = [p \in DiffPRs |-> Unasked] /\ patches = [p \in DiffPRs |-> "none"]
  /\ built = [of |-> NoView, shown |-> [f \in Names |-> <<>>], under |-> 0]
  /\ rendered = FALSE /\ highlights = 0 /\ highlightSeen = 0
  /\ noteActs = 0 /\ noteFaults = 0

NoteAct   == noteActs < MaxNoteActs /\ noteActs' = noteActs + 1 /\ UNCHANGED noteFaults
NoteFault == noteFaults < MaxNoteFaults /\ noteFaults' = noteFaults + 1 /\ UNCHANGED noteActs
NoteFree  == UNCHANGED <<noteActs, noteFaults>>

\* resolved(comments), and the props of the view: no threads while there are none.
Threads(cs, p) == IF cs[p].loaded /\ ~cs[p].failed THEN cs[p].data ELSE <<>>

-----------------------------------------------------------------------------
(* The two effects.  Both are part of every step that changes what they read. *)

Build(v, p, threads, version) ==
  [of |-> p, under |-> version,
   shown |-> [f \in Names |-> IF f \in FilesOf[p] THEN ByFile[threads][f] ELSE <<>>]]

\* Each file whose annotations differ is updated, all of them after a language has loaded.
Update(v, threads, version, forced) ==
  [v EXCEPT !.under = IF forced THEN version ELSE @,
            !.shown = [f \in Names |->
              IF f \notin FilesOf[v.of] \/ (~forced /\ SameAnnotations(@[f], ByFile[threads][f]))
              THEN @[f] ELSE ByFile[threads][f]]]

\* What is rendered follows the comments and the highlighter.
Follows(v, isRendered) ==
  IF v.of = NoView \/ ~isRendered THEN built' = v /\ UNCHANGED highlightSeen
  ELSE /\ built' = Update(v, Threads(comments', at'), highlights', highlights' # highlightSeen)
       /\ highlightSeen' = highlights'

\* The page is at p: its view is built if its patch is there, and if not nothing is
\* rendered.
Shows(p) ==
  /\ rendered' = (patches'[p] = "ready")
  /\ Follows(IF patches'[p] = "ready" THEN Build(built, p, Threads(comments', p), highlights') ELSE built,
             patches'[p] = "ready")

-----------------------------------------------------------------------------
(* The page *)

\* useDiff and usePRComments of the pull request the page is at; a minute later comments
\* are fetched again.
Asks(p, stale) ==
  /\ patches'  = [patches EXCEPT ![p] = IF @ \in {"none", "failed"} THEN "loading" ELSE @]
  /\ comments' = [comments EXCEPT ![p] = IF stale THEN Fetch(@) ELSE Observed(@)]

Mount ==
  /\ patches[at] = "none" /\ Asks(at, FALSE)
  /\ UNCHANGED <<at, posted, highlights>>
  /\ Shows(at) /\ NoteFree

GoTo(p) ==
  /\ p # at /\ at' = p /\ \E stale \in BOOLEAN : Asks(p, stale)
  /\ UNCHANGED <<posted, highlights>>
  /\ Shows(p) /\ NoteAct

\* Somebody comments; the connection returns and what is stale is fetched again.
Post(p, threads) ==
  /\ threads # posted[p] /\ posted' = [posted EXCEPT ![p] = threads]
  /\ UNCHANGED <<at, comments, patches, diffVars, highlights>> /\ NoteAct

Refetch ==
  /\ comments[at].loaded /\ comments' = [comments EXCEPT ![at] = Poll(@)]
  /\ UNCHANGED <<at, posted, patches, rendered, highlights>>
  /\ Follows(built, rendered) /\ NoteAct

PatchDone(p, how) ==
  /\ patches[p] = "loading" /\ patches' = [patches EXCEPT ![p] = how]
  /\ UNCHANGED <<at, posted, comments, highlights>>
  /\ IF p = at /\ how = "ready" THEN Shows(p) ELSE UNCHANGED diffVars
  /\ IF how = "ready" THEN NoteFree ELSE NoteFault

CommentStep(p) ==
  /\ UNCHANGED <<at, posted, patches, rendered, highlights>>
  /\ \/ comments[p].flight = "sent" /\ comments' = [comments EXCEPT ![p] = Served(@, posted[p])] /\ NoteFree
     \/ comments[p].flight = "read" /\ comments' = [comments EXCEPT ![p] = Arrived(@)] /\ NoteFree
     \/ comments[p].flight = "sent" /\ comments' = [comments EXCEPT ![p] = Failed(@)] /\ NoteFault
  /\ Follows(built, rendered)

\* A language or a theme has loaded: every note is rendered again.
Highlighted ==
  /\ highlights' = highlights + 1
  /\ UNCHANGED <<at, posted, comments, patches, rendered>>
  /\ Follows(built, rendered) /\ NoteAct

\* Another theme: the view is built again.
Retheme ==
  /\ patches[at] = "ready"
  /\ UNCHANGED <<at, posted, comments, patches, highlights>>
  /\ Shows(at) /\ NoteAct

AnnNext ==
  \/ Mount \/ Refetch \/ Highlighted \/ Retheme
  \/ \E p \in DiffPRs :
       \/ GoTo(p) \/ CommentStep(p)
       \/ \E how \in {"ready", "failed"} : PatchDone(p, how)
       \/ \E threads \in Answers : Post(p, threads)

-----------------------------------------------------------------------------
\* A diff that is rendered has, on each file, one annotation for each place that the
\* notes of people name in it, and no other; and its notes were rendered with the
\* languages that are loaded.  The effects of DiffView.  Left out are files with a colon
\* in their names.
AnnotationsPlaced ==
  rendered =>
    /\ built.of = at /\ built.under = highlights
    /\ \A f \in FilesOf[at] :
         UpToColon[f] = f =>
           LET threads == Threads(comments, at)
           IN  /\ Range(built.shown[f]) =
                    {Key(n) : n \in {m \in UNION {Range(t.notes) : t \in {u \in Range(threads) : ~u.bot}} :
                                       m.file = f /\ ~m.outdated}}
               /\ IsInjective(built.shown[f])
=============================================================================
