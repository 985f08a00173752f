-------------------------- MODULE ReviewPageProofs --------------------------
(***************************************************************************)
(* For any pull requests, delays and bounds: a page displays the review of *)
(* its own pull request.  What a page can be shown goes from the run in    *)
(* flight, the row and what was published last through a stream to its     *)
(* signals; the invariant says that all of it is of the stream's pull      *)
(* request (Served, Fed), and that only the page's own stream can say      *)
(* anything (OwnStream).                                                   *)
(***************************************************************************)
EXTENDS ReviewPage, SequenceTheorems, FiniteSetTheorems, TLAPS

Of(p, rv) == rv # NoReview => rv.of = p

Served == \A p \in PRs : Of(p, inFlight[p]) /\ Of(p, row[p]) /\ Of(p, last[p])

Fed == \A p \in PRs : \A i \in 1..Len(feed[p]) : Of(p, feed[p][i])

SeedIsRead == \A p \in PRs : stream[p].source = "seeded" => feed[p] # <<>>

\* The cleanup of an effect closes what it opened.
OwnStream ==
  \A p \in PRs : p # pr => /\ stream[p].source = "none" /\ ~stream[p].timer
                           /\ feed[p] = <<>>

ServerOK ==
  /\ inFlight \in [PRs -> Maybe] /\ row \in [PRs -> Maybe] /\ last \in [PRs -> Maybe]
  /\ runs \in [PRs -> Nat] /\ faults \in 0..MaxFaults

StreamOK == stream \in [PRs -> Stream] /\ feed \in [PRs -> Seq(Maybe)]

PageOK ==
  /\ pr \in PRs /\ review \in Maybe
  /\ synced \in BOOLEAN /\ connected \in BOOLEAN
  /\ starting \in BOOLEAN /\ stopping \in BOOLEAN
  /\ picked \in BOOLEAN

CallsOK == calls \subseteq Call /\ IsFiniteSet(calls)

IInv ==
  /\ ServerOK /\ StreamOK /\ PageOK /\ CallsOK
  /\ Served /\ Fed /\ SeedIsRead /\ OwnStream
  /\ ShownIsOfPage

LEMMA IInvType == IInv => TypeOK
  BY DEF IInv, TypeOK, ServerOK, StreamOK, PageOK, CallsOK

-----------------------------------------------------------------------------
(* Facts about records and feeds *)

LEMMA NoReviewFacts ==
  /\ NoReview \in Maybe /\ NoReview \notin Review
  /\ NoReview.status = "none" /\ NoReview.session = FALSE /\ ~Working(NoReview)
  BY DEF NoReview, Maybe, Review, Statuses, Working

LEMMA MaybeFacts ==
  ASSUME NEW rv \in Maybe
  PROVE  /\ rv.session \in BOOLEAN
         /\ rv.status # "none" => rv \in Review
         /\ rv.session => rv \in Review
  <1>1. CASE rv = NoReview
    BY <1>1, NoReviewFacts
  <1>2. CASE rv \in Review
    BY <1>2 DEF Review
  <1>3. QED
    BY <1>1, <1>2 DEF Maybe

\* Whatever is pushed, a feed holds records, and those of its pull request.
LEMMA NewestFacts ==
  ASSUME NEW p, NEW f \in Seq(Maybe), NEW rv \in Maybe, Of(p, rv),
         \A i \in 1..Len(f) : Of(p, f[i])
  PROVE  /\ Newest(f, rv) \in Seq(Maybe)
         /\ \A i \in 1..Len(Newest(f, rv)) : Of(p, Newest(f, rv)[i])
  <1>1. Len(f) \in Nat
    BY LenProperties
  <1>2. CASE Len(f) < 2
    <2>1. /\ Append(f, rv) \in Seq(Maybe) /\ Len(Append(f, rv)) = Len(f) + 1
          /\ \A i \in 1..Len(f) : Append(f, rv)[i] = f[i]
          /\ Append(f, rv)[Len(f) + 1] = rv
      BY AppendProperties
    <2>2. \A i \in 1..Len(f) + 1 : Of(p, Append(f, rv)[i])
      <3>1. ASSUME NEW i \in 1..Len(f) + 1 PROVE Of(p, Append(f, rv)[i])
        <4>1. i \in 1..Len(f) \/ i = Len(f) + 1
          BY <1>1
        <4>2. QED
          BY <2>1, <4>1
      <3>2. QED
        BY <3>1
    <2>3. QED
      BY <1>2, <2>1, <2>2 DEF Newest
  <1>3. CASE ~(Len(f) < 2)
    <2>1. 2 \in 1..Len(f)
      BY <1>1, <1>3
    <2>2. /\ [f EXCEPT ![2] = rv] \in Seq(Maybe)
          /\ Len([f EXCEPT ![2] = rv]) = Len(f)
          /\ \A i \in 1..Len(f) : [f EXCEPT ![2] = rv][i] = IF i = 2 THEN rv ELSE f[i]
      BY <2>1, ExceptSeq
    <2>3. QED
      BY <1>3, <2>2 DEF Newest
  <1>4. QED
    BY <1>2, <1>3

-----------------------------------------------------------------------------
(* Steps that leave a part alone *)

LEMMA PageKept ==
  ASSUME IInv, UNCHANGED <<pageVars, picked>>
  PROVE  PageOK' /\ ShownIsOfPage'
  BY DEF IInv, PageOK, ShownIsOfPage, pageVars

LEMMA ServerKept ==
  ASSUME IInv, UNCHANGED serverVars
  PROVE  ServerOK' /\ Served'
  BY DEF IInv, ServerOK, Served, serverVars

LEMMA StreamKept ==
  ASSUME IInv, UNCHANGED <<streamVars, pr>>
  PROVE  StreamOK' /\ Fed' /\ SeedIsRead' /\ OwnStream'
  BY DEF IInv, StreamOK, Fed, SeedIsRead, OwnStream, streamVars

LEMMA CallsKept ==
  ASSUME IInv, UNCHANGED calls
  PROVE  CallsOK'
  BY DEF IInv, CallsOK

\* A publication reaches the page only through its stream.
LEMMA PublishKeeps ==
  ASSUME IInv, NEW p \in PRs, NEW rv \in Maybe, Of(p, rv), Publish(p, rv),
         UNCHANGED pr
  PROVE  /\ StreamOK' /\ Fed' /\ SeedIsRead' /\ OwnStream'
         /\ last' \in [PRs -> Maybe] /\ \A q \in PRs : Of(q, last'[q])
  <1>1. /\ feed \in [PRs -> Seq(Maybe)] /\ stream \in [PRs -> Stream]
        /\ \A q \in PRs : \A i \in 1..Len(feed[q]) : Of(q, feed[q][i])
        /\ last \in [PRs -> Maybe] /\ \A q \in PRs : Of(q, last[q])
    BY DEF IInv, StreamOK, Fed, ServerOK, Served
  <1>2. /\ feed' = [feed EXCEPT ![p] = IF stream[p].source = "open" THEN Newest(@, rv) ELSE @]
        /\ stream' = [stream EXCEPT ![p].heard = IF stream[p].source = "open"
                                                THEN "told" ELSE @]
    BY DEF Publish
  <1>3. /\ Newest(feed[p], rv) \in Seq(Maybe)
        /\ \A i \in 1..Len(Newest(feed[p], rv)) : Of(p, Newest(feed[p], rv)[i])
    BY <1>1, NewestFacts
  <1>4. \A q \in PRs : feed'[q] = feed[q] \/ (q = p /\ stream[p].source = "open"
                                               /\ feed'[q] = Newest(feed[p], rv))
    BY <1>1, <1>2
  <1>5. StreamOK'
    <2>1. feed' \in [PRs -> Seq(Maybe)]
      BY <1>1, <1>2, <1>3
    <2>2. stream' \in [PRs -> Stream]
      <3>1. [stream[p] EXCEPT !.heard = "told"] \in Stream
        BY <1>1 DEF Stream
      <3>2. \/ stream' = [stream EXCEPT ![p] = [stream[p] EXCEPT !.heard = "told"]]
            \/ stream' = stream
        BY <1>1, <1>2 DEF Stream
      <3>3. QED
        BY <1>1, <3>1, <3>2
    <2>3. QED
      BY <2>1, <2>2 DEF StreamOK
  <1>6. Fed'
    BY <1>1, <1>3, <1>4 DEF Fed
  <1>7. \A q \in PRs : stream'[q].source = stream[q].source /\ stream'[q].timer = stream[q].timer
    BY <1>1, <1>2 DEF Stream
  <1>8. SeedIsRead' /\ OwnStream'
    BY <1>4, <1>7 DEF IInv, SeedIsRead, OwnStream
  <1>9. QED
    BY <1>1, <1>5, <1>6, <1>8 DEF Publish

LEMMA UpdateKeeps ==
  ASSUME IInv, NEW p \in PRs, NEW rv \in Review, rv.of = p, Update(p, rv),
         UNCHANGED <<pageVars, picked, calls>>,
         runs' \in [PRs -> Nat], faults' \in 0..MaxFaults,
         row' \in [PRs -> Maybe], \A q \in PRs : Of(q, row'[q])
  PROVE  IInv'
  <1>1. rv \in Maybe /\ Of(p, rv)
    BY DEF Maybe, Of
  <1>2. UNCHANGED pr /\ Publish(p, rv)
    BY DEF pageVars, Update
  <1>3. /\ StreamOK' /\ Fed' /\ SeedIsRead' /\ OwnStream'
        /\ last' \in [PRs -> Maybe] /\ \A q \in PRs : Of(q, last'[q])
    BY <1>1, <1>2, PublishKeeps
  <1>4. ServerOK'
    BY <1>1, <1>3 DEF IInv, ServerOK, Update
  <1>5. Served'
    BY <1>1, <1>3 DEF IInv, ServerOK, Served, Update
  <1>6. QED
    BY <1>3, <1>4, <1>5, PageKept, CallsKept DEF IInv

-----------------------------------------------------------------------------
(* The server *)

LEMMA BeginsKeeps ==
  ASSUME IInv, NEW p \in PRs, NEW base \in Maybe, Begins(p, base),
         UNCHANGED <<pageVars, picked, row>>
  PROVE  /\ ServerOK' \/ faults' \notin 0..MaxFaults
         /\ Served' /\ StreamOK' /\ Fed' /\ SeedIsRead' /\ OwnStream'
  <1> DEFINE rv == [of |-> p, run |-> runs[p] + 1, status |-> "running", session |-> base.session]
  <1>1. rv \in Review /\ rv.of = p /\ runs \in [PRs -> Nat]
    BY MaybeFacts DEF Review, Statuses, IInv, ServerOK
  <1>2. Update(p, rv) /\ runs' = [runs EXCEPT ![p] = @ + 1]
    BY DEF Begins
  <1> HIDE DEF rv
  <1>3. rv \in Maybe /\ Of(p, rv) /\ Publish(p, rv) /\ UNCHANGED pr
    BY <1>1, <1>2 DEF Maybe, Of, Update, pageVars
  <1>4. /\ StreamOK' /\ Fed' /\ SeedIsRead' /\ OwnStream'
        /\ last' \in [PRs -> Maybe] /\ \A q \in PRs : Of(q, last'[q])
    BY <1>3, PublishKeeps
  <1>5. inFlight' = [inFlight EXCEPT ![p] = rv] /\ runs' \in [PRs -> Nat]
    BY <1>1, <1>2 DEF Update
  <1>6. ServerOK' \/ faults' \notin 0..MaxFaults
    BY <1>3, <1>4, <1>5 DEF IInv, ServerOK
  <1>7. Served'
    BY <1>3, <1>4, <1>5 DEF IInv, ServerOK, Served
  <1>8. QED
    BY <1>4, <1>6, <1>7

LEMMA FaultType ==
  ASSUME IInv, Fault \/ UNCHANGED faults
  PROVE  faults' \in 0..MaxFaults
  BY ReviewPageAssumption DEF IInv, ServerOK, Fault

LEMMA RunKeeps ==
  ASSUME IInv, NEW p \in PRs,
         ServerStep(p) \/ Release(p) \/ StartElsewhere(p)
  PROVE  IInv'
  <1>1. /\ inFlight \in [PRs -> Maybe] /\ row \in [PRs -> Maybe] /\ runs \in [PRs -> Nat]
        /\ faults \in 0..MaxFaults /\ \A q \in PRs : Of(q, row[q]) /\ Of(q, inFlight[q])
    BY DEF IInv, ServerOK, Served
  <1>2. ASSUME NEW status \in Statuses, Finish(p, status) PROVE IInv'
    <2> DEFINE rv == [inFlight[p] EXCEPT !.status = status, !.session = @ \/ status = "done"]
    <2>1. inFlight[p] \in Review /\ inFlight[p].of = p
      BY <1>1, <1>2, MaybeFacts, NoReviewFacts DEF Finish, Working, Of
    <2>2. rv \in Review /\ rv.of = p
      BY <2>1 DEF Review
    <2>3. /\ Update(p, rv) /\ UNCHANGED <<runs, faults, calls, pageVars, picked>>
          /\ row' = [row EXCEPT ![p] = IF status = "done" THEN rv ELSE @]
      BY <1>2 DEF Finish, ServerFrame
    <2> HIDE DEF rv
    <2>4. rv \in Maybe /\ Of(p, rv)
      BY <2>2 DEF Maybe, Of
    <2>5. row' \in [PRs -> Maybe] /\ \A q \in PRs : Of(q, row'[q])
      BY <1>1, <2>3, <2>4
    <2>6. QED
      BY <1>1, <2>2, <2>3, <2>5, UpdateKeeps
  <1>3. CASE PersistFailure(p)
    <2> DEFINE rv == [inFlight[p] EXCEPT !.session = TRUE]
    <2>1. inFlight[p] \in Review /\ inFlight[p].of = p
      BY <1>1, <1>3, MaybeFacts, NoReviewFacts DEF PersistFailure, Of
    <2>2. rv \in Maybe /\ Of(p, rv)
      BY <2>1 DEF Review, Maybe, Of
    <2>3. /\ row' = [row EXCEPT ![p] = rv]
          /\ UNCHANGED <<inFlight, last, runs, faults, streamVars, calls, pageVars, picked, pr>>
      BY <1>3 DEF PersistFailure, ServerFrame, pageVars
    <2> HIDE DEF rv
    <2>4. ServerOK' /\ Served'
      BY <1>1, <2>2, <2>3 DEF IInv, ServerOK, Served
    <2>5. QED
      BY <2>3, <2>4, PageKept, StreamKept, CallsKept DEF IInv, streamVars
  <1>4. CASE Restore(p)
    <2> DEFINE rv == [inFlight[p] EXCEPT !.status = "done"]
    <2>1. inFlight[p] \in Review /\ inFlight[p].of = p
      BY <1>1, <1>4, MaybeFacts, NoReviewFacts DEF Restore, Of
    <2>2. rv \in Review /\ rv.of = p
      BY <2>1 DEF Review, Statuses
    <2>3. Update(p, rv) /\ UNCHANGED <<row, runs, faults, calls, pageVars, picked>>
      BY <1>4 DEF Restore, ServerFrame
    <2> HIDE DEF rv
    <2>4. QED
      BY <1>1, <2>2, <2>3, UpdateKeeps
  <1>5. CASE Release(p)
    <2>1. /\ inFlight' = [inFlight EXCEPT ![p] = NoReview]
          /\ UNCHANGED <<row, last, runs, faults, streamVars, calls, pageVars, picked, pr>>
      BY <1>5 DEF Release, ServerFrame, pageVars
    <2>2. ServerOK' /\ Served'
      BY <1>1, <2>1, NoReviewFacts DEF IInv, ServerOK, Served, Of
    <2>3. QED
      BY <2>1, <2>2, PageKept, StreamKept, CallsKept DEF IInv, streamVars
  <1>6. CASE StartElsewhere(p)
    <2>1. Begins(p, NoReview) /\ UNCHANGED <<row, faults, calls, pageVars, picked>>
      BY <1>6 DEF StartElsewhere, ServerFrame
    <2>2. QED
      BY <1>1, <2>1, NoReviewFacts, BeginsKeeps, PageKept, CallsKept DEF IInv
  <1>7. QED
    BY <1>2, <1>3, <1>4, <1>5, <1>6 DEF ServerStep

LEMMA AnswerType ==
  ASSUME IInv, NEW c \in calls, NEW answer \in {"ok", "failed"},
         calls' = (calls \ {c}) \cup {[c EXCEPT !.answer = answer]}
  PROVE  CallsOK'
  <1>1. c \in Call /\ calls \subseteq Call /\ IsFiniteSet(calls)
    BY DEF IInv, CallsOK
  <1>2. [c EXCEPT !.answer = answer] \in Call
    BY <1>1 DEF Call
  <1>3. IsFiniteSet(calls \ {c})
    BY <1>1, FS_RemoveElement
  <1>4. IsFiniteSet(calls')
    BY <1>3, FS_AddElement
  <1>5. QED
    BY <1>1, <1>2, <1>4 DEF CallsOK

LEMMA BaseType ==
  ASSUME IInv, NEW p \in PRs
  PROVE  Base(p) \in Maybe
  BY DEF IInv, ServerOK, Base

LEMMA HandleKeeps ==
  ASSUME IInv, NEW c \in calls, Handle(c) \/ Refused(c)
  PROVE  IInv'
  <1>1. c.of \in PRs
    BY DEF IInv, CallsOK, Call
  <1>2. UNCHANGED <<pageVars, picked, row, pr>>
    BY DEF Handle, HandleStart, HandleRerun, HandleCancel, Refused, ServerFrame, pageVars
  <1>3. ASSUME NEW base \in Maybe, NEW answer \in {"ok", "failed"},
               Accepts(c.of, base), Answer(c, answer)
        PROVE  IInv'
    <2>1. faults' \in 0..MaxFaults /\ CallsOK'
      BY <1>3, FaultType, AnswerType DEF Answer
    <2>2. CASE inFlight[c.of] # NoReview
      <3>1. UNCHANGED <<inFlight, last, streamVars, runs>>
        BY <1>3, <2>2 DEF Accepts
      <3>2. ServerOK' /\ Served'
        BY <1>2, <2>1, <3>1 DEF IInv, ServerOK, Served
      <3>3. QED
        BY <1>2, <2>1, <3>1, <3>2, PageKept, StreamKept DEF IInv, streamVars
    <2>3. CASE inFlight[c.of] = NoReview
      <3>1. Begins(c.of, base)
        BY <1>3, <2>3 DEF Accepts
      <3>2. QED
        BY <1>1, <1>2, <2>1, <3>1, BeginsKeeps, PageKept DEF IInv
    <2>4. QED
      BY <2>2, <2>3
  <1>4. ASSUME UNCHANGED <<inFlight, last, streamVars, runs>>, Fault \/ UNCHANGED faults,
               NEW answer \in {"ok", "failed"},
               calls' = (calls \ {c}) \cup {[c EXCEPT !.answer = answer]}
        PROVE  IInv'
    <2>1. faults' \in 0..MaxFaults /\ CallsOK'
      BY <1>4, FaultType, AnswerType
    <2>2. ServerOK' /\ Served'
      BY <1>2, <1>4, <2>1 DEF IInv, ServerOK, Served
    <2>3. QED
      BY <1>2, <1>4, <2>1, <2>2, PageKept, StreamKept DEF IInv, streamVars
  <1>5. ASSUME NEW answer \in {"ok", "failed"}, HandleStart(c, answer) PROVE IInv'
    BY <1>3, <1>5, NoReviewFacts DEF HandleStart
  <1>6. ASSUME NEW answer \in {"ok", "failed"}, HandleRerun(c, answer) PROVE IInv'
    BY <1>1, <1>3, <1>6, BaseType DEF HandleRerun
  <1>7. ASSUME NEW answer \in {"ok", "failed"}, HandleCancel(c, answer) PROVE IInv'
    BY <1>4, <1>7 DEF HandleCancel, Answer
  <1>8. CASE Refused(c)
    BY <1>4, <1>8 DEF Refused
  <1>9. QED
    BY <1>5, <1>6, <1>7, <1>8 DEF Handle

-----------------------------------------------------------------------------
(* The stream *)

LEMMA ClosedType ==
  /\ Closed \in Stream /\ [Closed EXCEPT !.source = "asking"] \in Stream
  /\ Closed.source = "none" /\ ~Closed.timer
  <1>1. 0 \in 0..Retries
    BY ReviewPageAssumption
  <1>2. QED
    BY <1>1 DEF Closed, Stream

LEMMA EmptyFeed ==
  /\ <<>> \in Seq(Maybe)
  /\ \A p : \A i \in 1..Len(<<>>) : Of(p, <<>>[i])
  OBVIOUS

LEMMA LostType ==
  ASSUME NEW p \in PRs, stream[p] \in Stream
  PROVE  Lost(p) \in Stream /\ Lost(p).source = "none"
  <1>1. CASE stream[p].retry < Retries
    <2>1. Lost(p) = [source |-> "none", timer |-> TRUE, retry |-> stream[p].retry + 1,
                     heard |-> "nothing"]
      BY <1>1 DEF Lost, Closed
    <2>2. stream[p].retry + 1 \in 0..Retries
      BY <1>1, ReviewPageAssumption DEF Stream
    <2>3. QED
      BY <2>1, <2>2 DEF Stream
  <1>2. CASE ~(stream[p].retry < Retries)
    <2>1. Lost(p) = [source |-> "none", timer |-> FALSE, retry |-> stream[p].retry,
                     heard |-> "nothing"]
      BY <1>2 DEF Lost, Closed
    <2>2. QED
      BY <2>1 DEF Stream
  <1>3. QED
    BY <1>1, <1>2

\* A step of the page's own stream, with what it makes of the page.
LEMMA StreamKeeps ==
  ASSUME IInv, NEW s \in Stream, NEW f \in Seq(Maybe), UNCHANGED <<pr, calls>>,
         \A i \in 1..Len(f) : Of(pr, f[i]), s.source = "seeded" => f # <<>>,
         stream' = [stream EXCEPT ![pr] = s], feed' = [feed EXCEPT ![pr] = f]
  PROVE  StreamOK' /\ Fed' /\ SeedIsRead' /\ OwnStream' /\ CallsOK'
  <1>1. /\ stream \in [PRs -> Stream] /\ feed \in [PRs -> Seq(Maybe)] /\ pr \in PRs
        /\ \A q \in PRs : \A i \in 1..Len(feed[q]) : Of(q, feed[q][i])
    BY DEF IInv, StreamOK, PageOK, Fed
  <1>2. StreamOK'
    BY <1>1 DEF StreamOK
  <1>3. \A q \in PRs : feed'[q] = IF q = pr THEN f ELSE feed[q]
    BY <1>1
  <1>4. Fed'
    BY <1>1, <1>3 DEF Fed
  <1>5. SeedIsRead' /\ OwnStream'
    BY <1>1, <1>3 DEF IInv, SeedIsRead, OwnStream
  <1>6. QED
    BY <1>2, <1>4, <1>5, CallsKept

LEMMA SeedKeeps ==
  ASSUME IInv, NEW p \in PRs, Seed(p)
  PROVE  IInv'
  <1>1. p = pr /\ stream[p] \in Stream
    BY DEF Seed, IInv, OwnStream, StreamOK
  <1>2. PICK rv \in Seeds(p) : feed' = [feed EXCEPT ![p] = <<rv>>]
    BY DEF Seed
  <1>3. rv \in Maybe /\ Of(p, rv)
    BY NoReviewFacts DEF Seeds, IInv, ServerOK, Served, Of
  <1>4. [stream[p] EXCEPT !.source = "seeded"] \in Stream
    BY <1>1 DEF Stream
  <1>5. /\ <<rv>> \in Seq(Maybe) /\ <<rv>> # <<>>
        /\ \A i \in 1..Len(<<rv>>) : Of(pr, <<rv>>[i])
    <2>1. \A i \in 1..Len(<<rv>>) : <<rv>>[i] = rv
      OBVIOUS
    <2>2. QED
      BY <1>1, <1>3, <2>1
  <1>6. /\ stream' = [stream EXCEPT ![pr] = [stream[p] EXCEPT !.source = "seeded"]]
        /\ feed' = [feed EXCEPT ![pr] = <<rv>>]
        /\ UNCHANGED <<serverVars, pageVars, picked, calls, pr>>
    BY <1>1, <1>2 DEF Seed, StreamFrame, pageVars
  <1>7. StreamOK' /\ Fed' /\ SeedIsRead' /\ OwnStream' /\ CallsOK'
    BY <1>4, <1>5, <1>6, StreamKeeps
  <1>8. QED
    BY <1>6, <1>7, PageKept, ServerKept DEF IInv

\* Whatever Subscribe answers, the seed included, is of the pull request it is asked for.
LEMMA AnswerIsOf ==
  ASSUME IInv, NEW p \in PRs, stream[p].source = "seeded",
         NEW rv \in {Head(feed[p])} \cup Snapshots(p) \cup Stale(p)
  PROVE  rv \in Maybe /\ Of(p, rv)
  <1>1. /\ inFlight[p] \in Maybe /\ row[p] \in Maybe /\ last[p] \in Maybe
        /\ Of(p, inFlight[p]) /\ Of(p, row[p]) /\ Of(p, last[p])
    BY DEF IInv, ServerOK, Served
  <1>2. CASE rv = Head(feed[p])
    <2>1. /\ feed[p] \in Seq(Maybe) /\ feed[p] # <<>>
          /\ \A i \in 1..Len(feed[p]) : Of(p, feed[p][i])
      BY DEF IInv, StreamOK, SeedIsRead, Fed
    <2>2. rv = feed[p][1] /\ 1 \in 1..Len(feed[p]) /\ rv \in Maybe
      BY <1>2, <2>1
    <2>3. QED
      BY <2>1, <2>2
  <1>3. CASE rv \in Snapshots(p)
    BY <1>1, <1>3 DEF Snapshots
  <1>4. CASE rv \in {NoReview, row[p]}
    BY <1>1, <1>4, NoReviewFacts DEF Of
  <1>5. CASE last[p] # NoReview /\ rv = [last[p] EXCEPT !.status = "running"]
    <2>1. last[p] \in Review /\ last[p].of = p
      BY <1>1, <1>5 DEF Maybe, Of
    <2>2. rv \in Review /\ rv.of = p
      BY <1>5, <2>1 DEF Review, Statuses
    <2>3. QED
      BY <2>2 DEF Maybe, Of
  <1>6. QED
    BY <1>2, <1>3, <1>4, <1>5 DEF Stale

LEMMA RegisterKeeps ==
  ASSUME IInv, NEW p \in PRs, Register(p)
  PROVE  IInv'
  <1>1. p = pr /\ stream[p] \in Stream /\ stream[p].source = "seeded"
    BY DEF Register, IInv, OwnStream, StreamOK
  <1>2. PICK rv \in {Head(feed[p])} \cup Snapshots(p) \cup Stale(p) :
          /\ stream' = [stream EXCEPT ![p].source = "open",
                         ![p].heard = IF rv \in Snapshots(p) THEN "nothing" ELSE "astray"]
          /\ feed' = [feed EXCEPT ![p] = <<rv>>]
    BY DEF Register
  <1>3. rv \in Maybe /\ Of(p, rv)
    BY <1>1, AnswerIsOf
  <1> DEFINE s == [stream[p] EXCEPT !.source = "open",
                     !.heard = IF rv \in Snapshots(p) THEN "nothing" ELSE "astray"]
  <1>4. s \in Stream /\ s.source # "seeded"
    BY <1>1 DEF Stream
  <1>5. <<rv>> \in Seq(Maybe) /\ \A i \in 1..Len(<<rv>>) : Of(pr, <<rv>>[i])
    <2>1. \A i \in 1..Len(<<rv>>) : <<rv>>[i] = rv
      OBVIOUS
    <2>2. QED
      BY <1>1, <1>3, <2>1
  <1>6. /\ stream' = [stream EXCEPT ![pr] = s] /\ feed' = [feed EXCEPT ![pr] = <<rv>>]
        /\ UNCHANGED <<serverVars, pageVars, picked, calls, pr>>
    <2>1. stream \in [PRs -> Stream]
      BY DEF IInv, StreamOK
    <2>2. QED
      BY <1>1, <1>2, <2>1 DEF Register, StreamFrame, pageVars, Stream
  <1> HIDE DEF s
  <1>7. StreamOK' /\ Fed' /\ SeedIsRead' /\ OwnStream' /\ CallsOK'
    BY <1>4, <1>5, <1>6, StreamKeeps
  <1>8. QED
    BY <1>6, <1>7, PageKept, ServerKept DEF IInv

LEMMA MessageKeeps ==
  ASSUME IInv, NEW p \in PRs, Message(p)
  PROVE  IInv'
  <1> DEFINE next == Head(feed[p])
  <1>1. /\ p = pr /\ stream[p] \in Stream /\ feed[p] \in Seq(Maybe) /\ feed[p] # <<>>
        /\ \A i \in 1..Len(feed[p]) : Of(p, feed[p][i])
    BY DEF Message, IInv, OwnStream, StreamOK, Fed
  <1>2. /\ next = feed[p][1] /\ 1 \in 1..Len(feed[p]) /\ next \in Maybe
        /\ Tail(feed[p]) \in Seq(Maybe) /\ Len(Tail(feed[p])) = Len(feed[p]) - 1
        /\ \A i \in 1..Len(Tail(feed[p])) : Tail(feed[p])[i] = feed[p][i + 1]
        /\ Len(feed[p]) \in Nat
    BY <1>1
  <1>3. \A i \in 1..Len(Tail(feed[p])) : Of(pr, Tail(feed[p])[i])
    BY <1>1, <1>2
  <1>4. Of(pr, next)
    BY <1>1, <1>2
  <1>5. /\ stream' = [stream EXCEPT ![pr] = [stream[p] EXCEPT !.retry = 0]]
        /\ feed' = [feed EXCEPT ![pr] = Tail(feed[p])]
        /\ [stream[p] EXCEPT !.retry = 0] \in Stream
        /\ [stream[p] EXCEPT !.retry = 0].source # "seeded"
        /\ UNCHANGED <<serverVars, pr, picked, calls>>
        /\ Shows(next, StillStarting(next), stopping) /\ synced' = TRUE /\ connected' = TRUE
    BY <1>1, ReviewPageAssumption DEF Message, StreamFrame, Stream
  <1> HIDE DEF next
  <1>6. StreamOK' /\ Fed' /\ SeedIsRead' /\ OwnStream' /\ CallsOK'
    BY <1>2, <1>3, <1>5, StreamKeeps
  <1>7. PageOK'
    BY <1>2, <1>5 DEF IInv, PageOK, Shows, StillStarting, Busy, Working
  <1>8. ShownIsOfPage'
    BY <1>4, <1>5 DEF Shows, ShownIsOfPage, Of
  <1>9. QED
    BY <1>5, <1>6, <1>7, <1>8, ServerKept DEF IInv

LEMMA ReconnectKeeps ==
  ASSUME IInv, NEW p \in PRs, Reconnect(p)
  PROVE  IInv'
  <1>1. /\ p = pr /\ stream[p] \in Stream /\ feed \in [PRs -> Seq(Maybe)]
        /\ \A i \in 1..Len(feed[p]) : Of(p, feed[p][i])
    BY DEF Reconnect, IInv, OwnStream, StreamOK, Fed
  <1>2. /\ stream' = [stream EXCEPT ![pr] = [stream[p] EXCEPT !.timer = FALSE, !.source = "asking"]]
        /\ [stream[p] EXCEPT !.timer = FALSE, !.source = "asking"] \in Stream
        /\ [stream[p] EXCEPT !.timer = FALSE, !.source = "asking"].source # "seeded"
        /\ feed' = [feed EXCEPT ![pr] = feed[p]] /\ feed[p] \in Seq(Maybe)
        /\ UNCHANGED <<serverVars, pageVars, picked, calls, pr>>
    BY <1>1 DEF Reconnect, StreamFrame, Stream, IInv, StreamOK, pageVars
  <1>3. StreamOK' /\ Fed' /\ SeedIsRead' /\ OwnStream' /\ CallsOK'
    BY <1>1, <1>2, StreamKeeps
  <1>4. QED
    BY <1>2, <1>3, PageKept, ServerKept DEF IInv

LEMMA DropKeeps ==
  ASSUME IInv, NEW p \in PRs, Drop(p)
  PROVE  IInv'
  <1>1. p = pr /\ stream[p] \in Stream
    BY DEF Drop, IInv, OwnStream, StreamOK
  <1>2. /\ stream' = [stream EXCEPT ![pr] = Lost(p)] /\ Lost(p) \in Stream
        /\ Lost(p).source = "none"
        /\ feed' = [feed EXCEPT ![pr] = <<>>]
        /\ UNCHANGED <<inFlight, row, last, runs, review, synced, starting, stopping,
                       pr, picked, calls>>
        /\ connected' = FALSE /\ Fault
    BY <1>1, LostType DEF Drop, StreamFrame
  <1>3. StreamOK' /\ Fed' /\ SeedIsRead' /\ OwnStream' /\ CallsOK'
    BY <1>2, EmptyFeed, StreamKeeps
  <1>4. ServerOK' /\ Served'
    BY <1>2, FaultType DEF IInv, ServerOK, Served
  <1>5. PageOK' /\ ShownIsOfPage'
    BY <1>2 DEF IInv, PageOK, ShownIsOfPage
  <1>6. QED
    BY <1>3, <1>4, <1>5 DEF IInv

LEMMA RestartKeeps ==
  ASSUME IInv, Restart
  PROVE  IInv'
  <1>1. /\ stream \in [PRs -> Stream]
        /\ \A p \in PRs : Lost(p) \in Stream /\ Lost(p).source = "none"
        /\ faults' \in 0..MaxFaults
    BY LostType, FaultType DEF IInv, StreamOK, Restart
  <1>2. ServerOK' /\ Served'
    BY <1>1, NoReviewFacts DEF Restart, IInv, ServerOK, Served, Of
  <1>3. <<>> \in Seq(Maybe) /\ Len(<<>>) = 0
    OBVIOUS
  <1>4. StreamOK' /\ Fed'
    BY <1>1, <1>3 DEF Restart, StreamOK, Fed
  <1>5. SeedIsRead' /\ OwnStream'
    BY <1>1 DEF Restart, StreamFrame, IInv, SeedIsRead, OwnStream
  <1>6. PageOK' /\ ShownIsOfPage' /\ CallsOK'
    BY DEF Restart, StreamFrame, IInv, PageOK, ShownIsOfPage, CallsOK
  <1>7. QED
    BY <1>2, <1>4, <1>5, <1>6 DEF IInv

-----------------------------------------------------------------------------
(* The page *)

LEMMA NavigateKeeps ==
  ASSUME IInv, NEW p \in PRs, Navigate(p)
  PROVE  IInv'
  <1>1. /\ stream \in [PRs -> Stream] /\ feed \in [PRs -> Seq(Maybe)] /\ pr \in PRs
        /\ Closed \in Stream /\ [Closed EXCEPT !.source = "asking"] \in Stream
        /\ Closed.source = "none" /\ ~Closed.timer
        /\ <<>> \in Seq(Maybe) /\ Len(<<>>) = 0
    BY ClosedType DEF IInv, StreamOK, PageOK
  <1>2. /\ stream' = [stream EXCEPT ![pr] = Closed, ![p] = [Closed EXCEPT !.source = "asking"]]
        /\ feed' = [feed EXCEPT ![pr] = <<>>, ![p] = <<>>] /\ pr' = p /\ p # pr
        /\ UNCHANGED <<serverVars, picked, calls>>
    BY DEF Navigate
  <1>3. StreamOK'
    BY <1>1, <1>2 DEF StreamOK
  <1>4. Fed'
    <2>1. \A q \in PRs : feed'[q] \in {<<>>, feed[q]}
      BY <1>1, <1>2
    <2>2. QED
      BY <1>1, <2>1 DEF Fed, IInv
  <1>5. SeedIsRead' /\ OwnStream'
    <2>1. \A q \in PRs : q \notin {pr, p} => stream'[q] = stream[q] /\ feed'[q] = feed[q]
      BY <1>1, <1>2
    <2>2. stream'[pr] = Closed /\ feed'[pr] = <<>>
      BY <1>1, <1>2
    <2>3. stream'[p].source = "asking"
      BY <1>1, <1>2
    <2>4. QED
      BY <1>1, <1>2, <2>1, <2>2, <2>3 DEF IInv, SeedIsRead, OwnStream
  <1>6. PageOK' /\ ShownIsOfPage'
    BY NoReviewFacts DEF Navigate, Shows, IInv, PageOK, ShownIsOfPage, Busy, Working
  <1>7. QED
    BY <1>2, <1>3, <1>4, <1>5, <1>6, ServerKept, CallsKept DEF IInv

LEMMA AskType ==
  ASSUME IInv, NEW kind \in {"start", "rerun", "cancel"}, Ask(kind)
  PROVE  CallsOK'
  <1> DEFINE c == [kind |-> kind, of |-> pr, answer |-> "none", n |-> Cardinality(calls) + 1]
  <1>1. calls \subseteq Call /\ IsFiniteSet(calls) /\ pr \in PRs /\ Cardinality(calls) \in Nat
    BY FS_CardinalityType DEF IInv, CallsOK, PageOK
  <1>2. calls' = calls \cup {c} /\ Cardinality(calls) + 1 \in 1..MaxCalls
    BY <1>1, ReviewPageAssumption DEF Ask
  <1>3. c \in Call
    BY <1>1, <1>2 DEF Call
  <1> HIDE DEF c
  <1>4. IsFiniteSet(calls')
    BY <1>1, <1>2, FS_AddElement
  <1>5. QED
    BY <1>1, <1>2, <1>3, <1>4 DEF CallsOK

\* A step of the user, or of a promise, that only shows what it changes.
LEMMA PageKeeps ==
  ASSUME IInv, UNCHANGED <<serverVars, streamVars, pr, synced, connected>>,
         picked' \in BOOLEAN, CallsOK',
         NEW st \in BOOLEAN, NEW sp \in BOOLEAN,
         Shows(review, st, sp) \/ UNCHANGED <<review, starting, stopping>>
  PROVE  IInv'
  <1>1. ServerOK' /\ Served' /\ StreamOK' /\ Fed' /\ SeedIsRead' /\ OwnStream'
    BY ServerKept, StreamKept
  <1>2. PageOK' /\ ShownIsOfPage'
    BY DEF IInv, PageOK, ShownIsOfPage, Shows
  <1>3. QED
    BY <1>1, <1>2 DEF IInv

LEMMA UserKeeps ==
  ASSUME IInv, ToggleAgent \/ Start \/ Rerun \/ Cancel
  PROVE  IInv'
  <1>1. starting \in BOOLEAN /\ stopping \in BOOLEAN /\ picked \in BOOLEAN
    BY DEF IInv, PageOK
  <1>2. CASE ToggleAgent
    BY <1>1, <1>2, CallsKept, PageKeeps DEF ToggleAgent, pageVars
  <1>3. CASE Start
    BY <1>1, <1>3, AskType, PageKeeps DEF Start, Ask
  <1>4. CASE Rerun
    BY <1>1, <1>4, AskType, PageKeeps DEF Rerun, Ask
  <1>5. CASE Cancel
    BY <1>1, <1>5, AskType, PageKeeps DEF Cancel, Ask
  <1>6. QED
    BY <1>2, <1>3, <1>4, <1>5

LEMMA SettleKeeps ==
  ASSUME IInv, NEW c \in calls, Settle(c)
  PROVE  IInv'
  <1>1. c \in Call /\ IsFiniteSet(calls) /\ calls' = calls \ {c}
    BY DEF IInv, CallsOK, Settle
  <1>2. CallsOK'
    BY <1>1, FS_RemoveElement DEF IInv, CallsOK
  <1>3. picked' \in BOOLEAN
    BY DEF IInv, PageOK, Settle
  <1>4. PICK st \in BOOLEAN, sp \in BOOLEAN : Shows(review, st, sp)
    <2>1. starting \in BOOLEAN /\ stopping \in BOOLEAN
      BY DEF IInv, PageOK
    <2>2. CASE c.kind = "cancel"
      BY <2>1, <2>2 DEF Settle
    <2>3. CASE c.kind # "cancel"
      BY <2>1, <2>3 DEF Settle
    <2>4. QED
      BY <2>2, <2>3
  <1>5. UNCHANGED <<serverVars, streamVars, pr, synced, connected>>
    BY DEF Settle
  <1>6. QED
    BY <1>2, <1>3, <1>4, <1>5, PageKeeps

-----------------------------------------------------------------------------
(* The theorems *)

LEMMA InitIInv == Init => IInv
  <1> SUFFICES ASSUME Init PROVE IInv
    OBVIOUS
  <1>1. \A p \in PRs : Stored(p) \in Maybe /\ Of(p, Stored(p))
    BY DEF Stored, Maybe, Review, Statuses, Of
  <1>2. /\ row \in [PRs -> Maybe]
        /\ \A p \in PRs : Of(p, row[p])
    BY <1>1, NoReviewFacts DEF Init, Of
  <1>3. ServerOK /\ Served
    BY <1>2, NoReviewFacts, ReviewPageAssumption DEF Init, ServerOK, Served, Of
  <1>4. <<>> \in Seq(Maybe) /\ Len(<<>>) = 0
    OBVIOUS
  <1>5. StreamOK /\ Fed /\ SeedIsRead /\ OwnStream
    BY <1>4, ClosedType DEF Init, StreamOK, Fed, SeedIsRead, OwnStream
  <1>6. PageOK /\ CallsOK
    BY NoReviewFacts, FS_EmptySet DEF Init, PageOK, CallsOK
  <1>7. ShownIsOfPage
    BY DEF Init, ShownIsOfPage
  <1>8. QED
    BY <1>3, <1>5, <1>6, <1>7 DEF IInv

(* IInv is inductive. *)
LEMMA NextIInv == IInv /\ [Next]_vars => IInv'
  <1> SUFFICES ASSUME IInv, [Next]_vars PROVE IInv'
    OBVIOUS
  <1>1. CASE UNCHANGED vars
    BY <1>1, PageKept, ServerKept, StreamKept, CallsKept DEF vars, IInv, pageVars
  <1>2. ASSUME NEW p \in PRs,
               ServerStep(p) \/ Release(p) \/ StartElsewhere(p) \/ StreamStep(p) \/ Drop(p)
        PROVE  IInv'
    BY <1>2, RunKeeps, SeedKeeps, RegisterKeeps, MessageKeeps, ReconnectKeeps, DropKeeps DEF StreamStep
  <1>3. ASSUME NEW c \in calls, Handle(c) \/ Refused(c) \/ Settle(c) PROVE IInv'
    BY <1>3, HandleKeeps, SettleKeeps
  <1>4. CASE User
    BY <1>4, NavigateKeeps, UserKeeps DEF User
  <1>5. QED
    BY <1>1, <1>2, <1>3, <1>4, RestartKeeps DEF Next

THEOREM Invariance == Spec => []IInv
  BY InitIInv, NextIInv, PTL DEF Spec

(* Every variable keeps its type, the retry count of a stream within its delays. *)
THEOREM TypeCorrect == Spec => []TypeOK
  BY Invariance, IInvType, PTL

(* Whatever settles or arrives after a navigation, a page displays a review of    *)
(* its own pull request only (review.ts: the effect's cleanup, the call's await). *)
THEOREM PageShowsItsOwn == Spec => []ShownIsOfPage
  <1>1. IInv => ShownIsOfPage
    BY DEF IInv
  <1>2. QED
    BY <1>1, Invariance, PTL

=============================================================================
