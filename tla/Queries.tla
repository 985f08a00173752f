------------------------------ MODULE Queries ------------------------------
(***************************************************************************)
(* A cached query as the pages use it: the data that was last fetched, and *)
(* the request under way, which the server answers from its state at one   *)
(* moment and the page takes over at a later one.                          *)
(*                                                                         *)
(* The cache is the library's; what it does is modelled from the options   *)
(* the code gives and from the calls it makes.  A query is stale when it   *)
(* is invalidated; that it also gets stale with time only adds requests,   *)
(* and Remounted allows them.                                              *)
(***************************************************************************)
CONSTANT NoData

Query(Data) ==
  {q \in [data : Data \cup {NoData}, loaded : BOOLEAN, invalid : BOOLEAN, failed : BOOLEAN,
          flight : {"none", "sent", "read"}, read : Data \cup {NoData}] :
     q.loaded <=> q.data # NoData}

Unasked == [data |-> NoData, loaded |-> FALSE, invalid |-> FALSE, failed |-> FALSE,
            flight |-> "none", read |-> NoData]

Idle(q) == q.flight = "none"

\* A request: the one under way is given up if there is data, and joined if not.  An error is
\* shown until an answer arrives, if there is data behind it.
Fetch(q) ==
  IF ~Idle(q) /\ ~q.loaded THEN q
  ELSE [q EXCEPT !.flight = "sent", !.read = NoData, !.failed = @ /\ q.loaded]

\* A request of an interval joins the one under way in any case.
Poll(q) == IF Idle(q) THEN Fetch(q) ELSE q

\* A query that is observed is fetched, another when it is observed again.
Invalidate(q, observed) ==
  IF observed THEN [Fetch(q) EXCEPT !.invalid = TRUE] ELSE [q EXCEPT !.invalid = TRUE]

Observed(q) == IF ~q.loaded \/ q.invalid \/ q.failed THEN Fetch(q) ELSE q

Cancelled(q) == [q EXCEPT !.flight = "none", !.read = NoData]

SetData(q, d) == [q EXCEPT !.data = d, !.loaded = TRUE, !.invalid = FALSE, !.failed = FALSE]

\* The server answers; the answer arrives, or an error does.
Served(q, d) == [q EXCEPT !.flight = "read", !.read = d]
Arrived(q)   == Cancelled(SetData(q, q.read))
Failed(q)    == [Cancelled(q) EXCEPT !.failed = TRUE]
=============================================================================
