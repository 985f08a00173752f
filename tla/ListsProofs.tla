----------------------------- MODULE ListsProofs -----------------------------
(***************************************************************************)
(* For any pull requests, organizations, notifications, pages, texts and   *)
(* comments: the filter that is shown settles on the server's, and a diff  *)
(* that is rendered has the notes of its pull request at their lines.      *)
(***************************************************************************)
EXTENDS Lists, SequenceTheorems, FiniteSetTheorems, WellFoundedInduction, TLAPS

-----------------------------------------------------------------------------
(* Induction over the numbers up to a bound, and what the community's folds are *)

\* A set of numbers has a least one.
LEMMA Least ==
  ASSUME NEW T \in SUBSET Nat, T # {}
  PROVE  \E x \in T : \A y \in T : x <= y
  <1>1. \E x \in T : \A y \in T : ~(<<y, x>> \in OpToRel(<, Nat))
    BY WFMin, NatLessThanWellFounded
  <1>2. \A x, y \in Nat : y < x => <<y, x>> \in OpToRel(<, Nat)
    BY DEF OpToRel
  <1>3. PICK x \in T : \A y \in T : ~(<<y, x>> \in OpToRel(<, Nat))  BY <1>1
  <1>4. ASSUME NEW y \in T  PROVE x <= y
    <2>1. x \in Nat /\ y \in Nat /\ ~(y < x)  BY <1>2, <1>3
    <2> QED  BY <2>1
  <1> QED  BY <1>3, <1>4

\* Induction up to a bound, over a set in place of a predicate.
LEMMA UpTo ==
  ASSUME NEW n \in Nat, NEW T, 0 \in T, \A k \in 0..(n-1) : k \in T => k + 1 \in T
  PROVE  0..n \subseteq T
  <1> DEFINE Bad == {k \in 0..n : k \notin T}
  <1> SUFFICES ASSUME Bad # {} PROVE FALSE
    OBVIOUS
  <1>1. PICK x \in Bad : \A y \in Bad : x <= y
    <2>1. Bad \in SUBSET Nat  OBVIOUS
    <2> HIDE DEF Bad
    <2> QED  BY <2>1, Least
  <1>2. x \in 0..n /\ x # 0 /\ x - 1 \in 0..(n-1) /\ x - 1 \notin Bad
    BY <1>1
  <1>3. x - 1 \in T
    BY <1>2
  <1>4. (x - 1) + 1 \in T
    BY <1>2, <1>3
  <1> QED  BY <1>1, <1>2, <1>4

LEMMA FlattenIs ==
  ASSUME NEW S, NEW ss \in Seq(Seq(S))
  PROVE  /\ FlattenSeq(ss) \in Seq(S)
         /\ Range(FlattenSeq(ss)) = UNION {Range(ss[i]) : i \in DOMAIN ss}
  <1> DEFINE n == Len(ss)
             Good(f, k) == f = [i \in 1..k |-> IF i = 1 THEN ss[i] ELSE f[i-1] \o ss[i]]
             flatten == CHOOSE f : Good(f, n)
  <1>0. n \in Nat /\ DOMAIN ss = 1..n /\ \A i \in 1..n : ss[i] \in Seq(S)
    OBVIOUS
  <1>1. CASE n = 0
    <2>1. ss = <<>> /\ DOMAIN ss = {}  BY <1>1, <1>0
    <2>2. FlattenSeq(ss) = <<>>  BY <2>1 DEF FlattenSeq
    <2>3. Range(<<>>) = {} /\ <<>> \in Seq(S)  BY DEF Range
    <2>4. UNION {Range(ss[i]) : i \in DOMAIN ss} = {}  BY <2>1
    <2> QED  BY <2>2, <2>3, <2>4
  <1>2. CASE n # 0
    <2>1. FlattenSeq(ss) = flatten[n]
      BY <1>2 DEF FlattenSeq
    <2>2. \E f : Good(f, n)
      <3> DEFINE T == {k \in Nat : k <= n => \E f : Good(f, k)}
      <3>1. 0 \in T
        <4>1. Good(<<>>, 0)  OBVIOUS
        <4> QED  BY <4>1
      <3>2. ASSUME NEW k \in 0..(n-1), k \in T  PROVE k + 1 \in T
        <4>1. k \in Nat /\ k <= n  BY <1>0
        <4>2. PICK f : Good(f, k)  BY <3>2, <4>1
        <4> DEFINE g == [i \in 1..(k + 1) |-> IF i <= k THEN f[i] ELSE IF i = 1 THEN ss[i] ELSE f[k] \o ss[i]]
        <4>3. \A i \in 1..(k + 1) : g[i] = IF i = 1 THEN ss[i] ELSE g[i-1] \o ss[i]
          <5> TAKE i \in 1..(k + 1)
          <5>1. CASE i <= k
            <6>0. i \in 1..k  BY <4>1, <5>1
            <6>1. f[i] = IF i = 1 THEN ss[i] ELSE f[i-1] \o ss[i]
              <7> DEFINE G(j) == IF j = 1 THEN ss[j] ELSE f[j-1] \o ss[j]
              <7>1. f = [j \in 1..k |-> G(j)]  BY <4>2
              <7> HIDE DEF G
              <7>2. f[i] = G(i)  BY <6>0, <7>1
              <7> QED  BY <7>2 DEF G
            <6>2. i # 1 => g[i-1] = f[i-1]  BY <4>1, <5>1
            <6>3. g[i] = f[i]  BY <5>1
            <6> QED  BY <6>1, <6>2, <6>3
          <5>2. CASE i = k + 1
            <6>1. g[i] = IF i = 1 THEN ss[i] ELSE f[k] \o ss[i]  BY <4>1, <5>2
            <6>2. i # 1 => g[i-1] = f[k]  BY <4>1, <5>2
            <6> QED  BY <6>1, <6>2
          <5> QED  BY <4>1, <5>1, <5>2
        <4>4. g = [i \in 1..(k+1) |-> IF i = 1 THEN ss[i] ELSE g[i-1] \o ss[i]]
          <5> DEFINE h == [i \in 1..(k+1) |-> IF i = 1 THEN ss[i] ELSE g[i-1] \o ss[i]]
          <5>1. DOMAIN g = 1..(k+1) /\ DOMAIN h = 1..(k+1) /\ \A i \in 1..(k+1) : g[i] = h[i]
            BY <4>3
          <5>2. g = [i \in 1..(k+1) |-> g[i]] /\ h = [i \in 1..(k+1) |-> h[i]]
            OBVIOUS
          <5> HIDE DEF g, h
          <5> QED  BY <5>1, <5>2 DEF h
        <4>5. Good(g, k + 1)  BY <4>4
        <4> HIDE DEF g, Good
        <4> QED  BY <4>1, <4>5
      <3> HIDE DEF T
      <3>3. 0..n \subseteq T  BY <1>0, <3>1, <3>2, UpTo
      <3>4. n \in T  BY <1>0, <3>3
      <3> HIDE DEF Good
      <3> QED  BY <1>0, <3>4 DEF T
    <2>3. Good(flatten, n)  BY <2>2
    <2> HIDE DEF flatten
    <2> DEFINE U == {k \in Nat : k \in 1..n => /\ flatten[k] \in Seq(S)
                                             /\ Range(flatten[k]) = UNION {Range(ss[i]) : i \in 1..k}}
    <2>4. 0 \in U  OBVIOUS
    <2>5. ASSUME NEW k \in 0..(n-1), k \in U  PROVE k + 1 \in U
      <3>1. k \in Nat /\ k + 1 \in 1..n /\ k + 1 \in Nat  BY <1>0
      <3>2. CASE k = 0
        <4>1. flatten[k + 1] = ss[1]  BY <2>3, <3>1, <3>2
        <4>2. UNION {Range(ss[i]) : i \in 1..1} = Range(ss[1])  OBVIOUS
        <4> QED  BY <1>0, <3>1, <3>2, <4>1, <4>2
      <3>3. CASE k # 0
        <4>1. k \in 1..n /\ (k + 1) - 1 = k /\ k + 1 # 1  BY <1>0, <3>1, <3>3
        <4>2. flatten[k] \in Seq(S) /\ Range(flatten[k]) = UNION {Range(ss[i]) : i \in 1..k}  BY <2>5, <4>1
        <4>3. flatten[k + 1] = flatten[k] \o ss[k + 1]  BY <2>3, <3>1, <4>1
        <4>4. ss[k + 1] \in Seq(S)  BY <1>0, <3>1
        <4>5. Range(flatten[k] \o ss[k + 1]) = Range(flatten[k]) \cup Range(ss[k + 1])  BY <4>2, <4>4, RangeConcatenation
        <4>6. 1..(k + 1) = (1..k) \cup {k + 1}  BY <3>1
        <4>7. Range(flatten[k + 1]) = UNION {Range(ss[i]) : i \in 1..(k + 1)}  BY <4>2, <4>3, <4>5, <4>6
        <4>8. flatten[k + 1] \in Seq(S)  BY <4>2, <4>3, <4>4, ConcatProperties
        <4> QED  BY <3>1, <4>7, <4>8
      <3> QED  BY <3>2, <3>3
    <2> HIDE DEF U
    <2>6. 0..n \subseteq U  BY <1>0, <2>4, <2>5, UpTo
    <2>7. n \in U /\ n \in 1..n  BY <1>0, <1>2, <2>6
    <2> QED  BY <1>0, <2>1, <2>7 DEF U
  <1> QED BY <1>1, <1>2

LEMMA MaxIs ==
  ASSUME NEW n \in Nat, NEW s \in SUBSET (1..n), s # {}
  PROVE  Max(s) \in s /\ \A y \in s : Max(s) >= y
  <1> DEFINE Above == {u \in Nat : \A y \in s : u >= y}
  <1>1. n \in Above  OBVIOUS
  <1>2. PICK b \in Above : \A u \in Above : b <= u
    <2>1. Above \in SUBSET Nat /\ Above # {}  BY <1>1
    <2> HIDE DEF Above
    <2> QED  BY <2>1, Least
  <1>3. b \in s
    <2> SUFFICES ASSUME b \notin s PROVE FALSE  OBVIOUS
    <2>1. b \in Nat /\ \A y \in s : y \in Nat /\ y <= b /\ y # b  BY <1>2
    <2>2. PICK y \in s : TRUE  OBVIOUS
    <2>3. b - 1 \in Nat /\ b - 1 < b
      <3>1. y \in Nat /\ y <= b /\ y # b  BY <2>1
      <3> QED  BY <2>1, <3>1
    <2>4. b - 1 \in Above  BY <2>1, <2>3
    <2> QED  BY <1>2, <2>1, <2>3, <2>4
  <1>4. \E x \in s : \A y \in s : x >= y  BY <1>2, <1>3
  <1> QED  BY <1>4 DEF Max

\* What a fold over n elements needs: the function on sets of indices by which it is defined.
FoldsBy(f, X, n, base, Op) ==
  /\ f \in [SUBSET (1..n) -> X]
  /\ \A s \in SUBSET (1..n) : f[s] = IF s = {} THEN base ELSE Op[<<f[s \ {Max(s)}], Max(s)>>]

LEMMA FoldExists ==
  ASSUME NEW X, NEW n \in Nat, NEW base \in X, NEW Op \in [X \X (1..n) -> X]
  PROVE  \E f : FoldsBy(f, X, n, base, Op)
  <1> DEFINE Good(f, k) == /\ f \in [SUBSET (1..k) -> X]
                           /\ \A s \in SUBSET (1..k) :
                                f[s] = IF s = {} THEN base ELSE Op[<<f[s \ {Max(s)}], Max(s)>>]
             T == {k \in Nat : k <= n => \E f : Good(f, k)}
  <1>1. 0 \in T
    <2> DEFINE f == [s \in SUBSET (1..0) |-> base]
    <2>1. \A s \in SUBSET (1..0) : s = {}  OBVIOUS
    <2>2. Good(f, 0)  BY <2>1
    <2> HIDE DEF Good, f
    <2> QED  BY <2>2
  <1>2. ASSUME NEW k \in 0..(n-1), k \in T  PROVE k + 1 \in T
    <2>1. k \in Nat /\ k <= n /\ k + 1 \in 1..n /\ 1..(k+1) = (1..k) \cup {k+1} /\ k + 1 \notin 1..k  OBVIOUS
    <2> DEFINE m == k + 1
    <2>2. PICK f : Good(f, k)
      <3> HIDE DEF Good
      <3> QED  BY <1>2, <2>1
    <2> DEFINE g == [s \in SUBSET (1..m) |-> IF m \in s THEN Op[<<f[s \ {m}], m>>] ELSE f[s]]
    <2>3. \A s \in SUBSET (1..m) : (m \in s => s \ {m} \in SUBSET (1..k)) /\ (m \notin s => s \in SUBSET (1..k))
      BY <2>1
    <2>4. f \in [SUBSET (1..k) -> X]  BY <2>2
    <2>5. g \in [SUBSET (1..m) -> X]
      <3>1. ASSUME NEW s \in SUBSET (1..m)  PROVE g[s] \in X
        <4> HIDE DEF Good
        <4>1. CASE m \in s
          <5>1. f[s \ {m}] \in X  BY <2>3, <2>4, <4>1
          <5>2. m \in 1..n  BY <2>1
          <5> HIDE DEF m
          <5> QED  BY <4>1, <5>1, <5>2
        <4>2. CASE m \notin s  BY <2>3, <2>4, <4>2
        <4> QED  BY <4>1, <4>2
      <3> HIDE DEF m, Good
      <3> QED  BY <3>1
    <2>6. ASSUME NEW s \in SUBSET (1..m)
          PROVE  g[s] = IF s = {} THEN base ELSE Op[<<g[s \ {Max(s)}], Max(s)>>]
      <3>0. m \in Nat /\ (1..k) \subseteq (1..m)  BY <2>1
      <3>1. CASE s = {}
        <4>1. s \in SUBSET (1..k) /\ m \notin s  BY <3>1
        <4>2. g[s] = f[s]  BY <4>1
        <4>3. f[s] = base  BY <2>2, <3>1, <4>1
        <4> QED  BY <3>1, <4>2, <4>3
      <3>2. CASE s # {} /\ m \in s
        <4>1. Max(s) \in s /\ Max(s) >= m
          <5> HIDE DEF m
          <5> QED  BY <3>0, <3>2, MaxIs
        <4>2. Max(s) = m
          <5> DEFINE x == Max(s)
          <5>1. x \in 1..m /\ x >= m  BY <4>1
          <5> HIDE DEF x
          <5>2. x = m  BY <3>0, <5>1
          <5> QED  BY <5>2 DEF x
        <4>3. g[s] = Op[<<f[s \ {m}], m>>]  BY <3>2
        <4>4. g[s \ {m}] = f[s \ {m}]  OBVIOUS
        <4> HIDE DEF g, m, Good
        <4> QED  BY <3>2, <4>2, <4>3, <4>4
      <3>3. CASE s # {} /\ m \notin s
        <4>1. s \in SUBSET (1..k)  BY <2>3, <3>3
        <4>2. Max(s) \in s  BY <3>3, <4>1, <2>1, MaxIs
        <4>3. g[s] = f[s] /\ g[s \ {Max(s)}] = f[s \ {Max(s)}]  BY <3>3
        <4>4. f[s] = Op[<<f[s \ {Max(s)}], Max(s)>>]  BY <2>2, <3>3, <4>1
        <4> HIDE DEF g, m, Good
        <4> QED  BY <3>3, <4>3, <4>4
      <3> QED  BY <3>1, <3>2, <3>3
    <2>7. Good(g, m)
      <3> HIDE DEF g
      <3> QED  BY <2>5, <2>6
    <2> HIDE DEF Good, g
    <2> QED  BY <2>1, <2>7
  <1> HIDE DEF T
  <1>3. 0..n \subseteq T  BY <1>1, <1>2, UpTo
  <1>4. n \in T  BY <1>3
  <1>5. \E f : Good(f, n)
    <2> HIDE DEF Good
    <2> QED  BY <1>4 DEF T
  <1>6. PICK f : Good(f, n)
    <2> HIDE DEF Good
    <2> QED  BY <1>5
  <1>7. FoldsBy(f, X, n, base, Op)  BY <1>6 DEF FoldsBy
  <1> QED  BY <1>7

\* Whatever satisfies the definition of the fold goes through the prefixes step by step.
Steps(F, X, n, base, Op) ==
  /\ F \in [0..n -> X] /\ F[0] = base
  /\ \A k \in 1..n : F[k] = Op[<<F[k - 1], k>>]

Unfolds(iter, X, n, base, Op) ==
  /\ iter[{}] = base
  /\ \A s \in SUBSET (1..n) :
       s # {} /\ iter[s \ {Max(s)}] \in X => iter[s] = Op[<<iter[s \ {Max(s)}], Max(s)>>]
FoldPrefixes(iter, n) == [k \in 0..n |-> iter[1..k]]

LEMMA FoldSteps ==
  ASSUME NEW X, NEW n \in Nat, NEW base \in X, NEW Op \in [X \X (1..n) -> X], NEW iter,
         Unfolds(iter, X, n, base, Op)
  PROVE  Steps(FoldPrefixes(iter, n), X, n, base, Op)
  <1> DEFINE T == {k \in Nat : k <= n => iter[1..k] \in X /\ (k # 0 => iter[1..k] = Op[<<iter[1..(k - 1)], k>>])}
             F == [k \in 0..n |-> iter[1..k]]
  <1>0. /\ iter[{}] = base
        /\ \A s \in SUBSET (1..n) :
             s # {} /\ iter[s \ {Max(s)}] \in X => iter[s] = Op[<<iter[s \ {Max(s)}], Max(s)>>]
    BY DEF Unfolds
  <1>1. 1..0 = {}  OBVIOUS
  <1>2. 0 \in T  BY <1>0, <1>1
  <1>3. ASSUME NEW k \in 0..(n - 1), k \in T  PROVE k + 1 \in T
    <2> DEFINE m == k + 1
    <2>1. /\ k \in Nat /\ k <= n /\ m \in 1..n /\ m \in Nat /\ m - 1 = k /\ 1..m \in SUBSET (1..n)
          /\ m \in 1..m /\ (1..m) \ {m} = 1..k
      OBVIOUS
    <2>2. iter[1..k] \in X  BY <1>3, <2>1
    <2> HIDE DEF m
    <2>3. Max(1..m) = m
      <3>1. Max(1..m) \in 1..m /\ Max(1..m) >= m  BY <2>1, MaxIs
      <3> DEFINE x == Max(1..m)
      <3>2. x \in 1..m /\ x >= m  BY <3>1
      <3> HIDE DEF x
      <3>3. x = m  BY <2>1, <3>2
      <3> QED  BY <3>3 DEF x
    <2>4. iter[1..m] = Op[<<iter[1..k], m>>]
      <3>1. 1..m # {} /\ (1..m) \ {Max(1..m)} = 1..k  BY <2>1, <2>3
      <3>2. iter[(1..m) \ {Max(1..m)}] \in X  BY <2>2, <3>1
      <3> QED  BY <1>0, <2>1, <2>3, <3>1, <3>2
    <2>5. Op[<<iter[1..k], m>>] \in X  BY <2>1, <2>2
    <2>6. m \in T  BY <2>1, <2>4, <2>5
    <2> QED  BY <2>6 DEF m
  <1>4. \A k \in 0..n : k \in T
    <2> HIDE DEF T
    <2>1. 0..n \subseteq T  BY <1>2, <1>3, UpTo
    <2> QED  BY <2>1
  <1>5. ASSUME NEW k \in 0..n  PROVE iter[1..k] \in X
    <2>1. k \in Nat /\ k <= n  OBVIOUS
    <2> QED  BY <1>4, <2>1
  <1>6. F \in [0..n -> X]  BY <1>5
  <1>7. F[0] = base  BY <1>0, <1>1
  <1>8. ASSUME NEW k \in 1..n  PROVE F[k] = Op[<<F[k - 1], k>>]
    <2>1. k \in 0..n /\ k - 1 \in 0..n /\ k # 0 /\ k \in Nat /\ k <= n  OBVIOUS
    <2>2. iter[1..k] = Op[<<iter[1..(k - 1)], k>>]  BY <1>4, <2>1
    <2> QED  BY <2>1, <2>2
  <1> HIDE DEF F
  <1>9. Steps(F, X, n, base, Op)  BY <1>6, <1>7, <1>8 DEF Steps
  <1> QED  BY <1>9 DEF F, FoldPrefixes

-----------------------------------------------------------------------------
(* Queries *)

\* A query with its type, whose answer, once the server has read it, is data.
Asked(q, D) == q \in Query(D) /\ (q.flight = "read" => q.read # NoData)

\* What the cache does to a query keeps its type.
LEMMA QueryOps ==
  ASSUME NEW D, NoData \notin D, NEW q, Asked(q, D)
  PROVE  /\ Asked(Fetch(q), D) /\ Asked(Poll(q), D) /\ Asked(Observed(q), D)
         /\ Asked(Invalidate(q, TRUE), D) /\ Asked(Invalidate(q, FALSE), D)
         /\ Asked(Cancelled(q), D) /\ Asked(Failed(q), D)
         /\ \A d \in D : Asked(SetData(q, d), D) /\ Asked(Served(q, d), D)
         /\ q.flight = "read" => Asked(Arrived(q), D)
  <1>1. Asked(Fetch(q), D)  BY DEF Asked, Query, Fetch, Idle
  <1>2. Asked(Poll(q), D)  BY <1>1 DEF Poll
  <1>3. Asked(Observed(q), D)  BY <1>1 DEF Observed
  <1>4. Asked(Invalidate(q, TRUE), D)
    <2> DEFINE f == Fetch(q)
    <2> HIDE DEF f
    <2>1. Asked(f, D)  BY <1>1 DEF f
    <2>2. Asked([f EXCEPT !.invalid = TRUE], D)  BY <2>1 DEF Asked, Query
    <2> QED  BY <2>2 DEF Invalidate, f
  <1>5. Asked(Invalidate(q, FALSE), D)  BY DEF Asked, Query, Invalidate
  <1>6. Asked(Cancelled(q), D)  BY DEF Asked, Query, Cancelled
  <1>7. Asked(Failed(q), D)  BY DEF Asked, Query, Cancelled, Failed
  <1>8. ASSUME NEW d \in D  PROVE Asked(SetData(q, d), D) /\ Asked(Served(q, d), D)
    BY DEF Asked, Query, SetData, Served
  <1>9. ASSUME q.flight = "read"  PROVE Asked(Arrived(q), D)
    <2>1. q.read \in D /\ q.read # NoData  BY <1>9 DEF Asked, Query
    <2> QED  BY <2>1 DEF Asked, Query, SetData, Cancelled, Arrived
  <1> QED  BY <1>1, <1>2, <1>3, <1>4, <1>5, <1>6, <1>7, <1>8, <1>9

LEMMA UnaskedIs ==
  ASSUME NEW D, NoData \notin D
  PROVE  Asked(Unasked, D)
  BY DEF Asked, Query, Unasked

\* What there is of data.
LEMMA DataIs ==
  ASSUME NEW D, NEW q, Asked(q, D)
  PROVE  /\ q.data \in D \cup {NoData} /\ (q.loaded <=> q.data # NoData) /\ q.loaded \in BOOLEAN
         /\ q.flight \in {"none", "sent", "read"} /\ q.failed \in BOOLEAN /\ q.read \in D \cup {NoData}
  BY DEF Asked, Query

LEMMA NoDataIs ==
  /\ NoData \notin HistoryPage /\ NoData \notin SUBSET Orgs
  /\ NoData \notin SUBSET Ids /\ NoData \notin SUBSET TmuxPRs /\ NoData \notin Answers
  BY ListsAssumption, AnnotationsAssumption

-----------------------------------------------------------------------------
(* The invariant of the lists *)

\* Every row of the history was written by a run, and every run started is an act: this bounds
\* the rows.
Busy == {p \in PRs : run[p] \in {"running", "error"}}
RunInv ==
  /\ run \in [PRs -> Run] /\ rows \in Seq(PRs)
  /\ IsFiniteSet(Busy) /\ Len(rows) + Cardinality(Busy) <= 1 + acts

DashInv ==
  /\ stream \in {"open", "retrying", "given up"} /\ pending \in [PRs -> Shown] /\ byKey \in [PRs -> Shown]
  /\ page \in Pages /\ behind \in Pages /\ told \in 0..MaxRows
  /\ DOMAIN history = Pages /\ history = [k \in Pages |-> history[k]]
  /\ \A k \in Pages : Asked(history[k], HistoryPage)

RecentInv ==
  /\ hidden \subseteq Orgs /\ saving \in Save /\ tainted \subseteq {"filter", "list"}
  /\ Asked(recent, SUBSET Orgs) /\ Asked(filter, SUBSET Orgs)

NoteInv ==
  /\ unread \subseteq Ids /\ notesPicked \subseteq Ids /\ reading \subseteq SUBSET Ids
  /\ Asked(notes, SUBSET Ids)

SessionTyped ==
  /\ live \subseteq TmuxPRs /\ stored \subseteq TmuxPRs /\ deleted \subseteq TmuxPRs
  /\ selecting \in BOOLEAN /\ killPicked \subseteq TmuxPRs
  /\ killing \in Kill /\ killError \in BOOLEAN
  /\ Asked(tmux, SUBSET TmuxPRs)

\* What a call has deleted is neither stored nor read by a request behind it; and not listed but
\* between the answer of the call and that of the request it makes.
DeletedInv ==
  /\ deleted \cap stored = {}
  /\ killing.phase # "none" => tmux.loaded
  /\ killing.phase # "ok" /\ tmux.flight = "read" => tmux.read \cap deleted = {}
  /\ killing.phase # "ok" /\ (killing.phase = "refetch" => Idle(tmux)) => TmuxRows \cap deleted = {}

SessionInv == SessionTyped /\ DeletedInv

Bounded == acts \in 0..MaxActs /\ faults \in 0..MaxFaults

\* What a query of the hidden organizations has read, and what it shows while nothing is under
\* way, is what the server hides.
Current(q) ==
  /\ q.flight = "read" => q.read = hidden
  /\ Idle(q) /\ q.loaded /\ ~q.failed => q.data = hidden

\* Between saves the filter is the server's.  During one nothing fetches it, and there is what
\* it takes to settle: what was there before, or what the server has taken.
FilterKept ==
  "filter" \notin tainted =>
    /\ saving.phase = "none" =>
         /\ filter.loaded => filter.data = hidden
         /\ filter.flight = "read" => filter.read = hidden
    /\ saving.phase # "none" =>
         /\ Idle(filter) /\ filter.loaded
         /\ IF saving.phase = "ok" THEN saving.hide = hidden ELSE saving.before = hidden

\* The list is current but between the PUT and the settling, which fetches it again.
ListFollows == "list" \notin tainted /\ saving.phase \in {"none", "sent"} => Current(recent)

FilterInv == FilterKept /\ ListFollows

\* An act or a fault is counted, and no more than the bounds allow.
LEMMA BudgetIs ==
  ASSUME Bounded, Act \/ Fault \/ UNCHANGED budget
  PROVE  Bounded' /\ acts \in Nat /\ acts' \in Nat /\ acts <= acts'
  <1>1. acts \in Nat /\ acts <= MaxActs /\ faults \in Nat /\ faults <= MaxFaults /\ MaxActs \in Nat /\ MaxFaults \in Nat
    BY ListsAssumption DEF Bounded
  <1> QED  BY <1>1 DEF Bounded, Act, Fault, budget

LEMMA RunKept ==
  ASSUME RunInv, run' = run, rows' = rows, acts \in Nat, acts' \in Nat, acts <= acts'
  PROVE  RunInv'
  <1>1. Busy' = Busy  BY DEF Busy
  <1>2. Cardinality(Busy) \in Nat /\ Len(rows) \in Nat  BY FS_CardinalityType DEF RunInv
  <1> QED  BY <1>1, <1>2 DEF RunInv

\* Rows stay within their bound.
LEMMA RowsBounded ==
  ASSUME RunInv, Bounded
  PROVE  rows \in Seq(PRs) /\ Len(rows) \in 0..MaxRows /\ MaxRows \in Nat
  <1>1. Cardinality(Busy) \in Nat /\ Len(rows) \in Nat /\ MaxActs \in Nat /\ acts \in Nat /\ acts <= MaxActs
    BY FS_CardinalityType, ListsAssumption DEF RunInv, Bounded
  <1>2. Len(rows) + Cardinality(Busy) <= 1 + acts  BY DEF RunInv
  <1> QED  BY <1>1, <1>2 DEF RunInv, MaxRows

LEMMA PublishIs ==
  ASSUME pending \in [PRs -> Shown], NEW p, NEW what \in Shown, Publish(p, what)
  PROVE  pending' \in [PRs -> Shown]
  BY DEF Publish

\* A run starts with an act, and leaves a row when it ends or no row.
LEMMA RunStep ==
  ASSUME RunInv, DashInv, Bounded, RunNext
  PROVE  RunInv' /\ pending' \in [PRs -> Shown]
  <1>1. /\ run \in [PRs -> Run] /\ rows \in Seq(PRs) /\ Len(rows) \in Nat /\ IsFiniteSet(Busy)
        /\ Cardinality(Busy) \in Nat /\ Len(rows) + Cardinality(Busy) <= 1 + acts /\ acts \in Nat
        /\ pending \in [PRs -> Shown]
    <2>1. Cardinality(Busy) \in Nat /\ Len(rows) \in Nat  BY FS_CardinalityType DEF RunInv
    <2>2. acts \in Nat  BY ListsAssumption DEF Bounded
    <2> QED  BY <2>1, <2>2 DEF RunInv, DashInv
  <1>2. ASSUME NEW p \in PRs, StartRun(p)  PROVE RunInv' /\ pending' \in [PRs -> Shown]
    <2>1. run[p] = "none" /\ run' = [run EXCEPT ![p] = "running"] /\ rows' = rows /\ acts' = acts + 1
      BY <1>2 DEF StartRun, Act
    <2>2. Busy' = Busy \cup {p} /\ p \notin Busy  BY <1>1, <2>1 DEF Busy
    <2>3. IsFiniteSet(Busy') /\ Cardinality(Busy') = Cardinality(Busy) + 1  BY <1>1, <2>2, FS_AddElement
    <2>4. run' \in [PRs -> Run]  BY <1>1, <2>1 DEF Run
    <2>5. Len(rows) + (Cardinality(Busy) + 1) <= 1 + (acts + 1)  BY <1>1
    <2>6. pending' \in [PRs -> Shown]  BY <1>1, <1>2, PublishIs DEF StartRun, Shown
    <2> QED  BY <1>1, <2>1, <2>3, <2>4, <2>5, <2>6 DEF RunInv
  <1>3. ASSUME NEW p \in PRs, p \in Busy, NEW to \in Run \ {"running", "error"},
               run' = [run EXCEPT ![p] = to], rows' = rows \/ rows' = <<p>> \o rows, acts' = acts
        PROVE  RunInv'
    <2>1. Busy' = Busy \ {p}  BY <1>1, <1>3 DEF Busy
    <2>2. IsFiniteSet(Busy') /\ Cardinality(Busy') = Cardinality(Busy) - 1
      BY <1>1, <1>3, <2>1, FS_RemoveElement
    <2>3. rows' \in Seq(PRs) /\ Len(rows') \in Nat /\ Len(rows') <= Len(rows) + 1
      <3>1. <<p>> \in Seq(PRs) /\ Len(<<p>>) = 1  OBVIOUS
      <3>2. <<p>> \o rows \in Seq(PRs) /\ Len(<<p>> \o rows) = Len(<<p>>) + Len(rows)
        BY <1>1, <3>1, ConcatProperties
      <3>3. CASE rows' = rows  BY <1>1, <3>3
      <3>4. CASE rows' = <<p>> \o rows  BY <1>1, <3>1, <3>2, <3>4
      <3> QED  BY <1>3, <3>3, <3>4
    <2>4. Len(rows') + Cardinality(Busy') <= 1 + acts  BY <1>1, <2>2, <2>3
    <2>5. run' \in [PRs -> Run]  BY <1>1, <1>3
    <2> QED  BY <1>3, <2>2, <2>3, <2>4, <2>5 DEF RunInv
  <1>4. ASSUME NEW p \in PRs, NEW o \in Outcome, EndRun(p, o)  PROVE RunInv' /\ pending' \in [PRs -> Shown]
    <2>1. /\ run[p] = "running" /\ run' = [run EXCEPT ![p] = IF o = "error" THEN "error" ELSE "ended"]
          /\ acts' = acts /\ rows' = IF o = "done" THEN <<p>> \o rows ELSE rows
      BY <1>4 DEF EndRun, budget
    <2>2. pending' \in [PRs -> Shown]  BY <1>1, <1>4, PublishIs DEF EndRun, Shown
    <2>3. CASE o = "error"
      <3>1. Busy' = Busy  BY <1>1, <2>1, <2>3 DEF Busy
      <3>2. rows' = rows /\ run' \in [PRs -> Run]  BY <1>1, <2>1, <2>3 DEF Run
      <3> QED  BY <1>1, <2>1, <2>2, <3>1, <3>2 DEF RunInv
    <2>4. CASE o # "error"
      <3>1. p \in Busy /\ "ended" \in Run \ {"running", "error"}  BY <2>1, <2>4 DEF Busy, Run
      <3>2. run' = [run EXCEPT ![p] = "ended"] /\ acts' = acts  BY <2>1, <2>4
      <3>3. rows' = rows \/ rows' = <<p>> \o rows  BY <2>1
      <3>4. RunInv'  BY <1>3, <3>1, <3>2, <3>3
      <3> QED  BY <2>2, <3>4
    <2> QED  BY <2>3, <2>4
  <1>5. ASSUME NEW p \in PRs, PersistFailure(p)  PROVE RunInv' /\ pending' \in [PRs -> Shown]
    <2>1. /\ run[p] = "error" /\ run' = [run EXCEPT ![p] = "ended"] /\ rows' = <<p>> \o rows /\ acts' = acts
          /\ pending' = pending
      BY <1>5 DEF PersistFailure, budget, streamVars
    <2>2. p \in Busy /\ "ended" \in Run \ {"running", "error"}  BY <2>1 DEF Busy, Run
    <2> QED  BY <1>1, <1>3, <2>1, <2>2
  <1>6. ASSUME NEW p \in PRs, Release(p)  PROVE RunInv' /\ pending' \in [PRs -> Shown]
    <2>1. /\ run[p] = "ended" /\ run' = [run EXCEPT ![p] = "none"] /\ rows' = rows
          /\ acts' = acts /\ pending' = pending
      BY <1>6 DEF Release, budget, streamVars
    <2>2. Busy' = Busy  BY <1>1, <2>1 DEF Busy
    <2>3. run' \in [PRs -> Run]  BY <1>1, <2>1 DEF Run
    <2> QED  BY <1>1, <2>1, <2>2, <2>3 DEF RunInv
  <1> QED  BY <1>2, <1>4, <1>5, <1>6 DEF RunNext

-----------------------------------------------------------------------------
(* The dashboard *)

LEMMA DashKept ==
  ASSUME DashInv, stream' = stream, pending' \in [PRs -> Shown], byKey' = byKey, UNCHANGED dashVars
  PROVE  DashInv'
  BY DEF DashInv, dashVars

\* A page of the history as the server answers it.
LEMMA HistoryAnswerIs ==
  ASSUME RunInv, Bounded, NEW k \in Pages
  PROVE  HistoryAnswer(k) \in HistoryPage
  <1> DEFINE n == Len(rows)
             from == k * PageSize + 1
             to == IF HasMore(k) THEN (k + 1) * PageSize ELSE n
             more == HasMore(k)
  <1>1. rows \in Seq(PRs) /\ n \in 0..MaxRows /\ n \in Nat /\ k \in Nat /\ PageSize \in Nat
    BY RowsBounded, ListsAssumption
  <1>2. more \in BOOLEAN  BY DEF HasMore
  <1>3. k * PageSize \in Nat /\ (k + 1) * PageSize \in Nat  BY <1>1
  <1>4. from \in Nat /\ to \in Nat /\ 1 <= from /\ to <= n  BY <1>1, <1>3 DEF HasMore
  <1>5. HistoryAnswer(k) = [of |-> n, hasMore |-> more, sessions |-> SubSeq(rows, from, to)]
    BY DEF HistoryAnswer
  <1> HIDE DEF from, to, n, more
  <1>6. SubSeq(rows, from, to) \in Seq(PRs)
    <2>1. \A i \in from..to : rows[i] \in PRs
      <3> SUFFICES ASSUME NEW i \in from..to PROVE rows[i] \in PRs
        OBVIOUS
      <3>1. i \in 1..Len(rows)  BY <1>1, <1>4 DEF n
      <3> QED  BY <1>1, <3>1
    <2> QED  BY <1>1, <1>4, <2>1, SubSeqProperties DEF n
  <1> DEFINE s == SubSeq(rows, from, to)
  <1> HIDE DEF s
  <1>7. s \in Seq(PRs)  BY <1>6 DEF s
  <1>8. [of |-> n, hasMore |-> more, sessions |-> s] \in HistoryPage  BY <1>1, <1>2, <1>7 DEF HistoryPage
  <1> QED  BY <1>5, <1>8 DEF s

\* A page of the history is replaced.
LEMMA HistoryExcept ==
  ASSUME DashInv, NEW k \in Pages, NEW q, Asked(q, HistoryPage), history' = [history EXCEPT ![k] = q]
  PROVE  /\ DOMAIN history' = Pages /\ history' = [j \in Pages |-> history'[j]]
         /\ \A j \in Pages : Asked(history'[j], HistoryPage)
  <1>1. history = [j \in Pages |-> history[j]] /\ \A j \in Pages : Asked(history[j], HistoryPage)  BY DEF DashInv
  <1>2. DOMAIN history' = Pages /\ history' = [j \in Pages |-> history'[j]]  BY <1>1
  <1>3. \A j \in Pages : history'[j] = IF j = k THEN q ELSE history[j]  BY <1>1
  <1> QED  BY <1>1, <1>2, <1>3

LEMMA InvalidatedIs ==
  ASSUME DashInv
  PROVE  /\ DOMAIN HistoryInvalidated = Pages
         /\ HistoryInvalidated = [j \in Pages |-> HistoryInvalidated[j]]
         /\ \A j \in Pages : Asked(HistoryInvalidated[j], HistoryPage)
  <1>1. ASSUME NEW j \in Pages  PROVE Asked(Invalidate(history[j], j = page), HistoryPage)
    <2>1. Asked(history[j], HistoryPage)  BY DEF DashInv
    <2>2. /\ Asked(Invalidate(history[j], TRUE), HistoryPage)
          /\ Asked(Invalidate(history[j], FALSE), HistoryPage)
      BY <2>1, NoDataIs, QueryOps
    <2>3. CASE j = page
      <3>1. (j = page) = TRUE  BY <2>3
      <3> QED  BY <2>2, <3>1
    <2>4. CASE j # page
      <3>1. (j = page) = FALSE  BY <2>4
      <3> QED  BY <2>2, <3>1
    <2> QED  BY <2>3, <2>4
  <1> DEFINE G(j) == Invalidate(history[j], j = page)
  <1>2. HistoryInvalidated = [j \in Pages |-> G(j)]  BY DEF HistoryInvalidated
  <1>3. \A j \in Pages : Asked(G(j), HistoryPage)  BY <1>1
  <1> HIDE DEF G
  <1> QED  BY <1>2, <1>3

LEMMA StreamStep ==
  ASSUME RunInv, DashInv, Bounded, StreamNext
  PROVE  DashInv'
  <1>1. /\ pending \in [PRs -> Shown] /\ byKey \in [PRs -> Shown]
        /\ stream \in {"open", "retrying", "given up"}
    BY DEF DashInv
  <1>2. CASE Connect
    <2>1. /\ stream' = "open" /\ UNCHANGED dashVars
          /\ byKey' = [p \in PRs |-> IF run[p] = "none" THEN "none" ELSE IF run[p] = "running" THEN "running" ELSE "ended"]
          /\ pending' = [p \in PRs |-> "none"]
      BY <1>2 DEF Connect
    <2>2. byKey' \in [PRs -> Shown] /\ pending' \in [PRs -> Shown]  BY <2>1 DEF Shown
    <2> QED  BY <2>1, <2>2 DEF DashInv, dashVars
  <1>3. CASE Drop
    <2>1. stream' = "retrying" /\ UNCHANGED dashVars /\ byKey' = byKey /\ pending' = [p \in PRs |-> "none"]
      BY <1>3 DEF Drop
    <2>2. pending' \in [PRs -> Shown]  BY <2>1 DEF Shown
    <2> QED  BY <2>1, <2>2 DEF DashInv, dashVars
  <1>4. ASSUME NEW p \in PRs, Event(p)  PROVE DashInv'
    <2>1. /\ pending' = [pending EXCEPT ![p] = "none"]
          /\ byKey' = [byKey EXCEPT ![p] = IF pending[p] = "ended" THEN "none" ELSE "running"]
          /\ stream' = stream /\ page' = page /\ behind' = behind
      BY <1>4 DEF Event
    <2>2. pending' \in [PRs -> Shown] /\ byKey' \in [PRs -> Shown]  BY <1>1, <2>1 DEF Shown
    <2>3. CASE pending[p] = "ended"
      <3>1. history' = HistoryInvalidated /\ told' = IF history[0].loaded THEN Len(rows) ELSE told
        BY <1>4, <2>3 DEF Event
      <3>2. told' \in 0..MaxRows  BY <3>1, RowsBounded DEF DashInv
      <3> QED  BY <2>1, <2>2, <3>1, <3>2, InvalidatedIs DEF DashInv
    <2>4. CASE pending[p] # "ended"
      <3>1. history' = history /\ told' = told  BY <1>4, <2>4 DEF Event
      <3> QED  BY <2>1, <2>2, <3>1 DEF DashInv
    <2> QED  BY <2>3, <2>4
  <1>5. CASE GiveUp  BY <1>1, <1>5 DEF GiveUp, DashInv, dashVars
  <1> QED  BY <1>2, <1>3, <1>4, <1>5 DEF StreamNext

LEMMA PagerStep ==
  ASSUME RunInv, DashInv, Bounded, PagerNext \/ HistoryStep
  PROVE  DashInv'
  <1>1. \A j \in Pages : Asked(history[j], HistoryPage)  BY DEF DashInv
  <1>2. ASSUME NEW k \in Pages, Goto(k)  PROVE DashInv'
    <2>1. /\ page' = k /\ behind' = (IF history[page].loaded THEN page ELSE behind) /\ told' = told
          /\ history' = [history EXCEPT ![k] = Observed(@)] /\ UNCHANGED streamVars
      BY <1>2 DEF Goto
    <2>2. Asked(Observed(history[k]), HistoryPage)  BY <1>1, NoDataIs, QueryOps
    <2>3. /\ DOMAIN history' = Pages /\ history' = [j \in Pages |-> history'[j]]
          /\ \A j \in Pages : Asked(history'[j], HistoryPage)
      BY <2>1, <2>2, HistoryExcept
    <2> QED  BY <2>1, <2>3 DEF DashInv, streamVars
  <1>3. CASE HistoryStep
    <2>1. /\ UNCHANGED <<streamVars, page, behind, told>>
          /\ \E k \in Pages :
               \/ history[k].flight = "sent" /\ history' = [history EXCEPT ![k] = Served(@, HistoryAnswer(k))]
               \/ history[k].flight = "read" /\ history' = [history EXCEPT ![k] = Arrived(@)]
               \/ history' = [history EXCEPT ![k] = Failed(@)]
      BY <1>3 DEF HistoryStep
    <2>2. PICK k \in Pages :
               \/ history[k].flight = "sent" /\ history' = [history EXCEPT ![k] = Served(@, HistoryAnswer(k))]
               \/ history[k].flight = "read" /\ history' = [history EXCEPT ![k] = Arrived(@)]
               \/ history' = [history EXCEPT ![k] = Failed(@)]
      BY <2>1
    <2>3. /\ Asked(Served(history[k], HistoryAnswer(k)), HistoryPage)
          /\ Asked(Failed(history[k]), HistoryPage)
          /\ history[k].flight = "read" => Asked(Arrived(history[k]), HistoryPage)
      BY <1>1, NoDataIs, QueryOps, HistoryAnswerIs
    <2>4. \E q : Asked(q, HistoryPage) /\ history' = [history EXCEPT ![k] = q]  BY <2>2, <2>3
    <2>5. /\ DOMAIN history' = Pages /\ history' = [j \in Pages |-> history'[j]]
          /\ \A j \in Pages : Asked(history'[j], HistoryPage)
      BY <2>4, HistoryExcept
    <2> QED  BY <2>1, <2>5 DEF DashInv, streamVars
  <1> QED  BY <1>2, <1>3 DEF PagerNext

-----------------------------------------------------------------------------
(* The recent pull requests and their filter *)

LEMMA RecentKept ==
  ASSUME RecentInv, FilterInv, hidden' = hidden, UNCHANGED filterVars
  PROVE  RecentInv' /\ FilterInv'
  BY DEF RecentInv, FilterInv, FilterKept, ListFollows, Current, Idle, filterVars

\* What a step of the queries does to what is current.
LEMMA CurrentKept ==
  ASSUME NEW q, Asked(q, SUBSET Orgs), Current(q)
  PROVE  /\ Current(Fetch(q)) /\ Current(Invalidate(q, TRUE)) /\ Current(Failed(q))
         /\ Current(Served(q, hidden))
         /\ q.flight = "read" => Current(Arrived(q))
  <1>1. Current(Fetch(q))  BY DEF Asked, Query, Current, Fetch, Idle
  <1>2. Current(Invalidate(q, TRUE))
    <2> DEFINE f == Fetch(q)
    <2>1. Asked(f, SUBSET Orgs) /\ Current(f)  BY <1>1, NoDataIs, QueryOps
    <2> HIDE DEF f
    <2>2. Current([f EXCEPT !.invalid = TRUE])  BY <2>1 DEF Asked, Query, Current, Idle
    <2> QED  BY <2>2 DEF Invalidate, f
  <1>3. Current(Failed(q))  BY DEF Asked, Query, Current, Failed, Cancelled, Idle
  <1>4. Current(Served(q, hidden))  BY DEF Asked, Query, Current, Served, Idle
  <1>5. q.flight = "read" => Current(Arrived(q))  BY DEF Asked, Query, Current, Arrived, Cancelled, SetData, Idle
  <1> QED  BY <1>1, <1>2, <1>3, <1>4, <1>5

\* Whatever is fetched anew is current: it is under way, unless it was read when there was nothing.
LEMMA InvalidatedCurrent ==
  ASSUME NEW q, Asked(q, SUBSET Orgs), q.loaded \/ q.flight # "read"
  PROVE  Current(Invalidate(q, TRUE))
  BY DEF Asked, Query, Current, Invalidate, Fetch, Idle

LEMMA ToggleIs ==
  ASSUME RecentInv, NEW o \in Orgs
  PROVE  Toggle(o) \in SUBSET Orgs
  <1>1. filter.loaded => filter.data \in SUBSET Orgs
    BY DataIs, NoDataIs DEF RecentInv
  <1> DEFINE current == IF filter.loaded /\ ~filter.failed THEN filter.data ELSE {}
  <1>2. current \in SUBSET Orgs  BY <1>1
  <1>3. Toggle(o) = IF o \in current THEN current \ {o} ELSE current \cup {o}  BY DEF Toggle
  <1> HIDE DEF current
  <1> QED  BY <1>2, <1>3

LEMMA FilterSaveStep ==
  ASSUME RecentInv, FilterInv, NEW o \in Orgs, SaveFilter(o)
  PROVE  RecentInv' /\ FilterInv'
  <1> DEFINE next == Toggle(o)
  <1>1. /\ saving.phase = "none" /\ saving' = [hide |-> next, before |-> filter.data, phase |-> "sent"]
        /\ filter' = SetData(Cancelled(filter), next) /\ hidden' = hidden /\ recent' = recent
        /\ tainted' = IF filter.loaded THEN tainted ELSE tainted \cup {"filter"}
    BY DEF SaveFilter, Optimistic
  <1>2. next \in SUBSET Orgs  BY ToggleIs
  <1> HIDE DEF next
  <1>3. /\ hidden \subseteq Orgs /\ saving \in Save /\ tainted \subseteq {"filter", "list"}
        /\ Asked(recent, SUBSET Orgs) /\ Asked(filter, SUBSET Orgs)
    BY DEF RecentInv
  <1>4. filter.data \in (SUBSET Orgs) \cup {NoData} /\ filter.loaded \in BOOLEAN  BY <1>3, DataIs
  <1>5. saving' \in Save  BY <1>1, <1>2, <1>4 DEF Save
  <1>6. Asked(filter', SUBSET Orgs)
    <2>1. Asked(Cancelled(filter), SUBSET Orgs)  BY <1>3, NoDataIs, QueryOps
    <2> QED  BY <1>1, <1>2, <2>1, NoDataIs, QueryOps
  <1>7. RecentInv'  BY <1>1, <1>3, <1>5, <1>6 DEF RecentInv
  <1>8. filter'.flight = "none" /\ filter'.loaded
    BY <1>1, <1>3 DEF Asked, Query, SetData, Cancelled
  <1>9. saving'.phase = "sent" /\ saving'.before = filter.data  BY <1>1
  <1>10. ListFollows'
    <2>1. "list" \notin tainted' => Current(recent)  BY <1>1 DEF FilterInv, ListFollows
    <2> QED  BY <1>1, <2>1 DEF ListFollows, Current, Idle
  <1>11. FilterKept'
    <2>1. "filter" \notin tainted' => "filter" \notin tainted /\ filter.loaded  BY <1>1
    <2>2. "filter" \notin tainted' => filter.data = hidden  BY <1>1, <2>1 DEF FilterInv, FilterKept
    <2> QED  BY <1>1, <1>8, <1>9, <2>2 DEF FilterKept, Idle
  <1> QED  BY <1>7, <1>10, <1>11 DEF FilterInv

LEMMA FilterPutStep ==
  ASSUME RecentInv, FilterInv, NEW answer, PutFilter(answer)
  PROVE  RecentInv' /\ FilterInv'
  <1>1. /\ saving.phase = "sent" /\ answer \in {"ok", "refused", "lost"}
        /\ hidden' = (IF answer = "refused" THEN hidden ELSE saving.hide)
        /\ saving' = [saving EXCEPT !.phase = IF answer = "ok" THEN "ok" ELSE "failed"]
        /\ tainted' = (IF answer = "lost" THEN tainted \cup {"filter"} ELSE tainted)
        /\ filter' = filter /\ recent' = recent
    BY DEF PutFilter
  <1>2. saving \in Save /\ hidden \subseteq Orgs /\ tainted \subseteq {"filter", "list"}  BY DEF RecentInv
  <1>3. /\ saving' \in Save /\ saving'.hide = saving.hide /\ saving'.before = saving.before
        /\ saving'.phase = (IF answer = "ok" THEN "ok" ELSE "failed") /\ saving.hide \in SUBSET Orgs
    BY <1>1, <1>2 DEF Save
  <1>4. hidden' \subseteq Orgs /\ tainted' \subseteq {"filter", "list"}  BY <1>1, <1>2, <1>3
  <1>5. RecentInv'  BY <1>1, <1>3, <1>4 DEF RecentInv
  <1>6. ListFollows'  BY <1>3 DEF ListFollows
  <1>7. FilterKept'
    <2> SUFFICES ASSUME "filter" \notin tainted' PROVE FilterKept'  BY DEF FilterKept
    <2>1. "filter" \notin tainted /\ answer # "lost"  BY <1>1
    <2>2. Idle(filter) /\ filter.loaded /\ saving.before = hidden
      BY <1>1, <2>1 DEF FilterInv, FilterKept
    <2>3. CASE answer = "ok"
      <3>1. hidden' = saving.hide /\ saving'.phase = "ok" /\ saving'.hide = hidden'  BY <1>1, <1>3, <2>3
      <3> QED  BY <1>1, <2>2, <3>1 DEF FilterKept, Idle
    <2>4. CASE answer = "refused"
      <3>1. hidden' = hidden /\ saving'.phase = "failed" /\ saving'.before = hidden  BY <1>1, <1>3, <2>2, <2>4
      <3> QED  BY <1>1, <2>2, <3>1 DEF FilterKept, Idle
    <2> QED  BY <1>1, <2>1, <2>3, <2>4
  <1> QED  BY <1>5, <1>6, <1>7 DEF FilterInv

LEMMA FilterSettledStep ==
  ASSUME RecentInv, FilterInv, FilterSettled
  PROVE  RecentInv' /\ FilterInv'
  <1>1. /\ saving.phase \in {"ok", "failed"}
        /\ filter' = (IF saving.phase = "ok" THEN SetData(filter, saving.hide) ELSE PutBack)
        /\ recent' = Invalidate(recent, TRUE) /\ saving' = NoSave /\ hidden' = hidden
        /\ tainted' = IF ~recent.loaded /\ recent.flight = "read" THEN tainted \cup {"list"} ELSE tainted
    BY DEF FilterSettled
  <1>2. /\ saving \in Save /\ hidden \subseteq Orgs /\ tainted \subseteq {"filter", "list"}
        /\ Asked(recent, SUBSET Orgs) /\ Asked(filter, SUBSET Orgs)
    BY DEF RecentInv
  <1>3. saving.hide \in SUBSET Orgs /\ saving.before \in (SUBSET Orgs) \cup {NoData}  BY <1>2 DEF Save
  <1>4. filter' = filter \/ \E d \in SUBSET Orgs : filter' = SetData(filter, d)  BY <1>1, <1>3 DEF PutBack
  <1>5. Asked(filter', SUBSET Orgs)
    <2>1. \A d \in SUBSET Orgs : Asked(SetData(filter, d), SUBSET Orgs)  BY <1>2, NoDataIs, QueryOps
    <2> QED  BY <1>2, <1>4, <2>1
  <1>6. Asked(recent', SUBSET Orgs)  BY <1>1, <1>2, NoDataIs, QueryOps
  <1>7. saving' \in Save /\ saving'.phase = "none"  BY <1>1 DEF NoSave, Save
  <1>8. RecentInv'  BY <1>1, <1>2, <1>5, <1>6, <1>7 DEF RecentInv
  <1>9. ListFollows'
    <2>1. "list" \notin tainted' => recent.loaded \/ recent.flight # "read"  BY <1>1
    <2>2. "list" \notin tainted' => Current(Invalidate(recent, TRUE))  BY <1>2, <2>1, InvalidatedCurrent
    <2> QED  BY <1>1, <2>2 DEF ListFollows, Current, Idle
  <1>10. FilterKept'
    <2> SUFFICES ASSUME "filter" \notin tainted' PROVE FilterKept'  BY DEF FilterKept
    <2>1. "filter" \notin tainted  BY <1>1
    <2>2. /\ Idle(filter) /\ filter.loaded
          /\ IF saving.phase = "ok" THEN saving.hide = hidden ELSE saving.before = hidden
      BY <1>1, <2>1 DEF FilterInv, FilterKept
    <2>3. hidden # NoData  BY <1>2, NoDataIs
    <2>4. filter' = SetData(filter, hidden)  BY <1>1, <2>2, <2>3 DEF PutBack
    <2>5. filter'.data = hidden /\ filter'.flight = "none"
      BY <1>2, <2>2, <2>4 DEF Asked, Query, SetData, Idle
    <2> QED  BY <1>1, <1>7, <2>5 DEF FilterKept
  <1> QED  BY <1>8, <1>9, <1>10 DEF FilterInv

\* A fetch of the recent pull requests again: an end of a review that is told, or a repository
\* that is added.
LEMMA RecentInvalidated ==
  ASSUME RecentInv, FilterInv, recent' = Invalidate(recent, TRUE), UNCHANGED <<hidden, filter, saving, tainted>>
  PROVE  RecentInv' /\ FilterInv'
  <1>1. Asked(recent, SUBSET Orgs)  BY DEF RecentInv
  <1>2. Asked(recent', SUBSET Orgs)  BY <1>1, NoDataIs, QueryOps
  <1>3. Current(recent) => Current(recent)'
    <2>1. Current(recent) => Current(Invalidate(recent, TRUE))  BY <1>1, CurrentKept
    <2> QED  BY <2>1 DEF Current, Idle
  <1> QED  BY <1>2, <1>3 DEF RecentInv, FilterInv, FilterKept, ListFollows, Idle

LEMMA AddRepoStep ==
  ASSUME RecentInv, FilterInv, AddRepo
  PROVE  RecentInv' /\ FilterInv'
  <1>1. /\ recent' = Invalidate(recent, TRUE) /\ filter' = Invalidate(filter, TRUE)
        /\ tainted' = (IF saving.phase = "none" THEN tainted ELSE tainted \cup {"filter"})
        /\ hidden' = hidden /\ saving' = saving
    BY DEF AddRepo
  <1>2. Asked(recent, SUBSET Orgs) /\ Asked(filter, SUBSET Orgs) /\ tainted \subseteq {"filter", "list"}
    BY DEF RecentInv
  <1>3. Asked(recent', SUBSET Orgs) /\ Asked(filter', SUBSET Orgs)  BY <1>1, <1>2, NoDataIs, QueryOps
  <1>4. RecentInv'  BY <1>1, <1>2, <1>3 DEF RecentInv
  <1>5. ListFollows'
    <2>1. "list" \notin tainted' /\ saving'.phase \in {"none", "sent"} => Current(recent)
      BY <1>1 DEF FilterInv, ListFollows
    <2>2. Current(recent) => Current(Invalidate(recent, TRUE))  BY <1>2, CurrentKept
    <2> QED  BY <1>1, <2>1, <2>2 DEF ListFollows, Current, Idle
  <1>6. FilterKept'
    <2> SUFFICES ASSUME "filter" \notin tainted' PROVE FilterKept'  BY DEF FilterKept
    <2>1. "filter" \notin tainted /\ saving.phase = "none"  BY <1>1
    <2>2. (filter.loaded => filter.data = hidden) /\ (filter.flight = "read" => filter.read = hidden)
      BY <2>1 DEF FilterInv, FilterKept
    <2>3. /\ Invalidate(filter, TRUE).data = filter.data /\ Invalidate(filter, TRUE).loaded = filter.loaded
          /\ Invalidate(filter, TRUE).flight = "read" =>
               filter.flight = "read" /\ Invalidate(filter, TRUE).read = filter.read
      BY <1>2 DEF Asked, Query, Invalidate, Fetch, Idle
    <2> QED  BY <1>1, <2>1, <2>2, <2>3 DEF FilterKept
  <1> QED  BY <1>4, <1>5, <1>6 DEF FilterInv

\* The steps of the two queries.
LEMMA FilterAnswerStep ==
  ASSUME RecentInv, FilterInv, UNCHANGED <<hidden, saving, tainted, recent>>,
         \/ filter.flight = "sent" /\ filter' = Served(filter, hidden)
         \/ filter.flight = "read" /\ filter' = Arrived(filter)
         \/ filter.flight = "sent" /\ filter' = Failed(filter)
  PROVE  RecentInv' /\ FilterInv'
  <1>1. Asked(filter, SUBSET Orgs) /\ hidden \in SUBSET Orgs  BY DEF RecentInv
  <1>2. Asked(filter', SUBSET Orgs)  BY <1>1, NoDataIs, QueryOps
  <1>3. RecentInv'  BY <1>2 DEF RecentInv
  <1>4. FilterKept'
    <2> SUFFICES ASSUME "filter" \notin tainted PROVE FilterKept'  BY DEF FilterKept
    <2>1. saving.phase = "none"  BY DEF FilterInv, FilterKept, Idle
    <2>2. (filter.loaded => filter.data = hidden) /\ (filter.flight = "read" => filter.read = hidden)
      BY <2>1 DEF FilterInv, FilterKept
    <2>3. (filter'.loaded => filter'.data = hidden) /\ (filter'.flight = "read" => filter'.read = hidden)
      <3>1. CASE filter' = Served(filter, hidden)  BY <1>1, <2>2, <3>1 DEF Asked, Query, Served
      <3>2. CASE filter.flight = "read" /\ filter' = Arrived(filter)
        BY <1>1, <2>2, <3>2 DEF Asked, Query, Arrived, Cancelled, SetData
      <3>3. CASE filter' = Failed(filter)  BY <1>1, <2>2, <3>3 DEF Asked, Query, Failed, Cancelled
      <3> QED  BY <3>1, <3>2, <3>3
    <2> QED  BY <2>1, <2>3 DEF FilterKept
  <1>5. ListFollows'  BY DEF FilterInv, ListFollows, Current, Idle
  <1> QED  BY <1>3, <1>4, <1>5 DEF FilterInv

LEMMA RecentAnswerStep ==
  ASSUME RecentInv, FilterInv, UNCHANGED <<hidden, saving, tainted, filter>>,
         \/ recent.flight = "sent" /\ recent' = Served(recent, hidden)
         \/ recent.flight = "read" /\ recent' = Arrived(recent)
         \/ recent.flight = "sent" /\ recent' = Failed(recent)
  PROVE  RecentInv' /\ FilterInv'
  <1>1. Asked(recent, SUBSET Orgs) /\ hidden \in SUBSET Orgs  BY DEF RecentInv
  <1>2. Asked(recent', SUBSET Orgs)  BY <1>1, NoDataIs, QueryOps
  <1>3. Current(recent) => Current(recent)'
    <2>1. ASSUME Current(recent)
          PROVE  /\ Current(Served(recent, hidden)) /\ Current(Failed(recent))
                 /\ recent.flight = "read" => Current(Arrived(recent))
      BY <1>1, <2>1, CurrentKept
    <2> QED  BY <2>1 DEF Current, Idle
  <1> QED  BY <1>2, <1>3 DEF RecentInv, FilterInv, FilterKept, ListFollows, Idle

LEMMA RecentStep ==
  ASSUME RecentInv, FilterInv, FilterNext \/ FilterStep
  PROVE  RecentInv' /\ FilterInv'
  <1>1. CASE FilterNext
    BY <1>1, AddRepoStep, FilterSettledStep, FilterSaveStep, FilterPutStep DEF FilterNext
  <1>2. CASE FilterStep
    <2>1. /\ hidden' = hidden /\ saving' = saving /\ tainted' = tainted
          /\ \/ recent' = recent /\ (\/ filter.flight = "sent" /\ filter' = Served(filter, hidden)
                                     \/ filter.flight = "read" /\ filter' = Arrived(filter)
                                     \/ filter.flight = "sent" /\ filter' = Failed(filter))
             \/ filter' = filter /\ (\/ recent.flight = "sent" /\ recent' = Served(recent, hidden)
                                     \/ recent.flight = "read" /\ recent' = Arrived(recent)
                                     \/ recent.flight = "sent" /\ recent' = Failed(recent))
      BY <1>2 DEF FilterStep, budget
    <2> QED  BY <2>1, FilterAnswerStep, RecentAnswerStep
  <1> QED  BY <1>1, <1>2

-----------------------------------------------------------------------------
(* Notifications and tmux sessions *)

LEMMA NoteKept ==
  ASSUME NoteInv, unread' = unread, UNCHANGED noteVars
  PROVE  NoteInv'
  BY DEF NoteInv, noteVars

LEMMA NoteRowsAre ==
  ASSUME NoteInv
  PROVE  NoteRows \subseteq Ids /\ (notes.loaded => notes.data \subseteq Ids)
  BY DataIs, NoDataIs DEF NoteInv, NoteRows

LEMMA NoteStepOK ==
  ASSUME NoteInv, NoteNext \/ NoteStep
  PROVE  NoteInv'
  <1>1. /\ unread \subseteq Ids /\ notesPicked \subseteq Ids /\ reading \subseteq SUBSET Ids
        /\ Asked(notes, SUBSET Ids) /\ NoteRows \subseteq Ids
    BY NoteRowsAre DEF NoteInv
  <1>2. /\ \A d \in SUBSET Ids : Asked(SetData(notes, d), SUBSET Ids) /\ Asked(Served(notes, d), SUBSET Ids)
        /\ Asked(Poll(notes), SUBSET Ids) /\ Asked(Failed(notes), SUBSET Ids)
        /\ notes.flight = "read" => Asked(Arrived(notes), SUBSET Ids)
    BY <1>1, NoDataIs, QueryOps
  <1>3. ASSUME NEW ids \in SUBSET Ids, Read(ids), notesPicked' = {}, unread' = unread
        PROVE  NoteInv'
    <2> DEFINE kept == (IF notes.loaded THEN notes.data ELSE {}) \ ids
    <2>1. kept \in SUBSET Ids  BY NoteRowsAre
    <2>2. notes' = SetData(notes, kept) /\ reading' = reading \cup {ids}  BY <1>3 DEF Read
    <2> HIDE DEF kept
    <2>3. Asked(notes', SUBSET Ids)  BY <1>2, <2>1, <2>2
    <2> QED  BY <1>1, <1>3, <2>2, <2>3 DEF NoteInv
  <1>4. CASE PickAllNotes  BY <1>1, <1>4 DEF PickAllNotes, NoteInv
  <1>5. CASE MarkPicked  BY <1>1, <1>3, <1>5 DEF MarkPicked
  <1>6. CASE PollNotes  BY <1>1, <1>2, <1>6 DEF PollNotes, NoteInv
  <1>7. ASSUME NEW id \in Ids, Notified(id)  PROVE NoteInv'
    BY <1>1, <1>7 DEF Notified, NoteInv, noteVars
  <1>8. ASSUME NEW id \in Ids, PickNote(id)  PROVE NoteInv'
    BY <1>1, <1>8 DEF PickNote, NoteInv
  <1>9. ASSUME NEW id \in Ids, OpenNote(id)  PROVE NoteInv'
    BY <1>3, <1>9 DEF OpenNote
  <1>10. ASSUME NEW ids \in reading, NotesRead(ids) \/ ReadFailed(ids)  PROVE NoteInv'
    BY <1>1, <1>10 DEF NotesRead, ReadFailed, NoteInv
  <1>11. CASE NoteStep
    <2>1. /\ unread' = unread /\ notesPicked' = notesPicked /\ reading' = reading
          /\ \/ notes' = Served(notes, unread)
             \/ notes.flight = "read" /\ notes' = Arrived(notes)
             \/ notes' = Failed(notes)
      BY <1>11 DEF NoteStep
    <2>2. Asked(notes', SUBSET Ids)  BY <1>1, <1>2, <2>1
    <2> QED  BY <1>1, <2>1, <2>2 DEF NoteInv
  <1> QED  BY <1>4, <1>5, <1>6, <1>7, <1>8, <1>9, <1>10, <1>11 DEF NoteNext

LEMMA SessionKept ==
  ASSUME SessionInv, UNCHANGED sessionVars, UNCHANGED tmuxVars
  PROVE  SessionInv'
  BY DEF SessionInv, SessionTyped, DeletedInv, TmuxRows, sessionVars, tmuxVars

LEMMA SessionTypedStep ==
  ASSUME SessionTyped, TmuxNext \/ TmuxStep
  PROVE  SessionTyped'
  <1>1. /\ live \subseteq TmuxPRs /\ stored \subseteq TmuxPRs /\ deleted \subseteq TmuxPRs
        /\ selecting \in BOOLEAN /\ killPicked \subseteq TmuxPRs /\ killing \in Kill /\ killError \in BOOLEAN
        /\ Asked(tmux, SUBSET TmuxPRs)
    BY DEF SessionTyped
  <1>2. /\ \A d \in SUBSET TmuxPRs : Asked(Served(tmux, d), SUBSET TmuxPRs)
        /\ Asked(Invalidate(tmux, TRUE), SUBSET TmuxPRs) /\ Asked(Failed(tmux), SUBSET TmuxPRs)
        /\ tmux.flight = "read" => Asked(Arrived(tmux), SUBSET TmuxPRs)
        /\ Asked(Poll(tmux), SUBSET TmuxPRs)
    BY <1>1, NoDataIs, QueryOps
  <1>3. TmuxRows \subseteq TmuxPRs  BY <1>1, DataIs, NoDataIs DEF TmuxRows
  <1>4. CASE StartSelecting  BY <1>1, <1>4 DEF StartSelecting, SessionTyped, sessionVars
  <1>5. CASE StopSelecting  BY <1>1, <1>5 DEF StopSelecting, SessionTyped, sessionVars
  <1>6. CASE PickAllSessions  BY <1>1, <1>3, <1>6 DEF PickAllSessions, SessionTyped, sessionVars
  <1>7. CASE ConfirmKill
    <2>1. killing' = [refs |-> killPicked \cap TmuxRows, phase |-> "sent"] /\ killError' = FALSE
          /\ UNCHANGED <<live, stored, deleted, tmux, selecting, killPicked>>
      BY <1>7 DEF ConfirmKill, sessionVars
    <2>2. killing' \in Kill  BY <1>1, <2>1 DEF Kill
    <2> QED  BY <1>1, <2>1, <2>2 DEF SessionTyped
  <1>8. NoKill \in Kill /\ \A ph \in {"none", "sent", "killed", "ok", "failed", "refetch"} :
                             [killing EXCEPT !.phase = ph] \in Kill
    BY <1>1 DEF NoKill, Kill
  <1>9. CASE KillSessions
    <2>1. /\ \E killed \in SUBSET (killing.refs \cap stored) : live' = live \ killed
          /\ killing' = [killing EXCEPT !.phase = "killed"]
          /\ UNCHANGED <<stored, deleted, tmux, selecting, killPicked, killError>>
      BY <1>9 DEF KillSessions
    <2> QED  BY <1>1, <1>8, <2>1 DEF SessionTyped
  <1>10. CASE KillRefused  BY <1>1, <1>8, <1>10 DEF KillRefused, SessionTyped, sessionVars
  <1>11. CASE KillAnswered
    <2>1. UNCHANGED <<live, stored, deleted, selecting, killPicked>>  BY <1>11 DEF KillAnswered, sessionVars
    <2>2. killing' \in Kill /\ killError' \in BOOLEAN  BY <1>1, <1>8, <1>11 DEF KillAnswered
    <2>3. Asked(tmux', SUBSET TmuxPRs)
      <3>1. tmux' = tmux \/ tmux' = Invalidate(tmux, TRUE)  BY <1>11 DEF KillAnswered, ListedAgain
      <3> QED  BY <1>1, <1>2, <3>1
    <2> QED  BY <1>1, <2>1, <2>2, <2>3 DEF SessionTyped
  <1>12. CASE KillEnds  BY <1>1, <1>8, <1>12 DEF KillEnds, SessionTyped, sessionVars
  <1>13. ASSUME NEW gone \in SUBSET killing.refs, NEW answer \in {"ok", "failed"}, DeleteRows(gone, answer)
         PROVE  SessionTyped'
    <2>1. /\ stored' = stored \ gone /\ killing' = [killing EXCEPT !.phase = answer]
          /\ UNCHANGED <<live, tmux, selecting, killPicked, killError>>
          /\ deleted' \in {deleted, deleted \cup gone}
      BY <1>13 DEF DeleteRows
    <2>2. killing.refs \subseteq TmuxPRs  BY <1>1 DEF Kill
    <2> QED  BY <1>1, <1>8, <2>1, <2>2 DEF SessionTyped
  <1>14. CASE KillStep  BY <1>9, <1>10, <1>11, <1>12, <1>13, <1>14 DEF KillStep
  <1>15. ASSUME NEW p \in TmuxPRs, SessionExits(p) \/ SessionOpened(p) \/ SessionReaped(p)  PROVE SessionTyped'
    <2>1. live' \subseteq TmuxPRs /\ stored' \subseteq TmuxPRs /\ deleted' \subseteq TmuxPRs
      BY <1>1, <1>15 DEF SessionExits, SessionOpened, SessionReaped
    <2>2. UNCHANGED tmuxVars  BY <1>15 DEF SessionExits, SessionOpened, SessionReaped
    <2> QED  BY <1>1, <2>1, <2>2 DEF SessionTyped, tmuxVars
  <1>16. ASSUME NEW p \in TmuxPRs, PickSession(p)  PROVE SessionTyped'
    BY <1>1, <1>16 DEF PickSession, SessionTyped, sessionVars
  <1>17. CASE TmuxStep
    <2>1. /\ UNCHANGED <<live, stored, deleted, selecting, killPicked, killing, killError>>
          /\ \/ tmux' = Served(tmux, stored)
             \/ tmux.flight = "read" /\ tmux' = Arrived(tmux)
             \/ tmux' = Failed(tmux)
      BY <1>17 DEF TmuxStep, sessionVars
    <2>2. Asked(tmux', SUBSET TmuxPRs)  BY <1>1, <1>2, <2>1
    <2> QED  BY <1>1, <2>1, <2>2 DEF SessionTyped
  <1>18. CASE Prefetch  BY <1>1, <1>2, <1>18 DEF Prefetch, SessionTyped, sessionVars
  <1> QED  BY <1>4, <1>5, <1>6, <1>7, <1>14, <1>15, <1>16, <1>17, <1>18 DEF TmuxNext

\* The rows a call has deleted leave the list with the request that its answer makes, which
\* gives up the one under way.
LEMMA DeletedStep ==
  ASSUME SessionInv, TmuxNext \/ TmuxStep
  PROVE  DeletedInv'
  <1>1. /\ Asked(tmux, SUBSET TmuxPRs) /\ killing \in Kill
        /\ tmux.loaded \in BOOLEAN /\ tmux.failed \in BOOLEAN /\ tmux.flight \in {"none", "sent", "read"}
    BY DataIs DEF SessionInv, SessionTyped
  <1>2. /\ deleted \cap stored = {} /\ (killing.phase # "none" => tmux.loaded)
        /\ killing.phase # "ok" /\ tmux.flight = "read" => tmux.read \cap deleted = {}
        /\ killing.phase # "ok" /\ (killing.phase = "refetch" => Idle(tmux)) => TmuxRows \cap deleted = {}
    BY DEF SessionInv, DeletedInv
  <1>3. ASSUME tmux' = tmux, deleted' \subseteq deleted, deleted' \cap stored' = {},
               killing' = killing
        PROVE  DeletedInv'
    BY <1>2, <1>3 DEF DeletedInv, TmuxRows
  <1>4. \A ph : [killing EXCEPT !.phase = ph].phase = ph  BY <1>1 DEF Kill
  <1>5. CASE StartSelecting \/ StopSelecting \/ PickAllSessions
    BY <1>2, <1>3, <1>5 DEF StartSelecting, StopSelecting, PickAllSessions, sessionVars
  <1>6. ASSUME NEW p \in TmuxPRs, SessionExits(p) \/ SessionReaped(p) \/ PickSession(p)  PROVE DeletedInv'
    BY <1>2, <1>3, <1>6 DEF SessionExits, SessionReaped, PickSession, sessionVars, tmuxVars
  <1>7. ASSUME NEW p \in TmuxPRs, SessionOpened(p)  PROVE DeletedInv'
    <2>1. stored' = stored \cup {p} /\ deleted' = deleted \ {p} /\ tmux' = tmux /\ killing' = killing
      BY <1>7 DEF SessionOpened, tmuxVars
    <2> QED  BY <1>2, <1>3, <2>1
  <1>8. CASE ConfirmKill
    <2>1. /\ killing.phase = "none" /\ TmuxRows # {} /\ killing'.phase = "sent"
          /\ UNCHANGED <<stored, deleted, tmux>>
      BY <1>8 DEF ConfirmKill, sessionVars
    <2>2. tmux.loaded  BY <2>1 DEF TmuxRows
    <2> QED  BY <1>2, <2>1, <2>2 DEF DeletedInv, TmuxRows
  <1>9. CASE KillSessions \/ KillRefused
    <2>1. /\ killing.phase = "sent" /\ killing'.phase \in {"killed", "failed"}
          /\ UNCHANGED <<stored, deleted, tmux>>
      BY <1>4, <1>9 DEF KillSessions, KillRefused, sessionVars
    <2> QED  BY <1>2, <2>1 DEF DeletedInv, TmuxRows
  <1>10. ASSUME NEW gone \in SUBSET killing.refs, NEW answer \in {"ok", "failed"}, DeleteRows(gone, answer)
         PROVE  DeletedInv'
    <2>1. /\ killing.phase = "killed" /\ killing'.phase = answer /\ stored' = stored \ gone /\ tmux' = tmux
          /\ deleted' = IF answer = "ok" THEN deleted \cup gone ELSE deleted
      BY <1>4, <1>10 DEF DeleteRows
    <2> QED  BY <1>2, <2>1 DEF DeletedInv, TmuxRows
  <1>11. CASE KillAnswered
    <2>1. UNCHANGED <<stored, deleted>> /\ killing.phase \in {"ok", "failed"}  BY <1>11 DEF KillAnswered, sessionVars
    <2>2. CASE killing.phase = "ok"
      <3>1. killing'.phase = "refetch" /\ tmux' = Invalidate(tmux, TRUE)
        BY <1>4, <1>11, <2>2 DEF KillAnswered, ListedAgain
      <3>2. tmux'.flight = "sent" /\ tmux'.loaded
        BY <1>1, <1>2, <2>2, <3>1 DEF Asked, Query, Invalidate, Fetch, Idle
      <3> QED  BY <1>2, <2>1, <3>1, <3>2 DEF DeletedInv, Idle
    <2>3. CASE killing.phase = "failed"
      <3>1. killing'.phase = "none" /\ tmux' = tmux  BY <1>11, <2>3 DEF KillAnswered, NoKill
      <3> QED  BY <1>2, <2>1, <2>3, <3>1 DEF DeletedInv, TmuxRows
    <2> QED  BY <2>1, <2>2, <2>3
  <1>12. CASE KillEnds
    <2>1. /\ killing.phase = "refetch" /\ Idle(tmux) /\ killing'.phase = "none"
          /\ UNCHANGED <<stored, deleted, tmux>>
      BY <1>12 DEF KillEnds, NoKill, sessionVars
    <2> QED  BY <1>2, <2>1 DEF DeletedInv, TmuxRows
  <1>13. CASE KillStep  BY <1>9, <1>10, <1>11, <1>12, <1>13 DEF KillStep
  <1>14. CASE Prefetch
    <2>1. Idle(tmux) /\ tmux' = Fetch(tmux) /\ UNCHANGED <<stored, deleted, killing>>
      BY <1>14 DEF Prefetch, Poll, sessionVars
    <2>2. /\ tmux'.flight = "sent" /\ tmux'.data = tmux.data /\ tmux'.loaded = tmux.loaded
          /\ tmux'.loaded /\ ~tmux'.failed => ~tmux.failed
      BY <1>1, <2>1 DEF Asked, Query, Fetch, Idle
    <2>3. TmuxRows' \subseteq TmuxRows  BY <2>2 DEF TmuxRows
    <2> QED  BY <1>2, <2>1, <2>2, <2>3 DEF DeletedInv, Idle
  <1>15. CASE TmuxStep
    <2>1. /\ UNCHANGED <<stored, deleted, killing>>
          /\ \/ tmux.flight = "sent" /\ tmux' = Served(tmux, stored)
             \/ tmux.flight = "read" /\ tmux' = Arrived(tmux)
             \/ tmux.flight = "sent" /\ tmux' = Failed(tmux)
      BY <1>15 DEF TmuxStep, sessionVars
    <2>2. CASE tmux.flight = "sent" /\ tmux' = Served(tmux, stored)
      <3>1. /\ tmux'.flight = "read" /\ tmux'.read = stored /\ tmux'.data = tmux.data
            /\ tmux'.loaded = tmux.loaded /\ tmux'.failed = tmux.failed
        BY <1>1, <2>2 DEF Asked, Query, Served
      <3>2. TmuxRows' = TmuxRows  BY <3>1 DEF TmuxRows
      <3> QED  BY <1>2, <2>1, <3>1, <3>2 DEF DeletedInv, Idle
    <2>3. CASE tmux.flight = "read" /\ tmux' = Arrived(tmux)
      <3>1. tmux'.flight = "none" /\ tmux'.data = tmux.read /\ tmux'.loaded /\ ~tmux'.failed
        BY <1>1, <2>3 DEF Asked, Query, Arrived, Cancelled, SetData
      <3>2. TmuxRows' = tmux.read  BY <3>1 DEF TmuxRows
      <3> QED  BY <1>2, <2>1, <2>3, <3>1, <3>2 DEF DeletedInv
    <2>4. CASE tmux.flight = "sent" /\ tmux' = Failed(tmux)
      <3>1. tmux'.flight = "none" /\ tmux'.failed /\ tmux'.loaded = tmux.loaded
        BY <1>1, <2>4 DEF Asked, Query, Failed, Cancelled
      <3>2. TmuxRows' = {}  BY <3>1 DEF TmuxRows
      <3> QED  BY <1>2, <2>1, <3>1, <3>2 DEF DeletedInv
    <2> QED  BY <2>1, <2>2, <2>3, <2>4
  <1> QED  BY <1>5, <1>6, <1>7, <1>8, <1>13, <1>14, <1>15 DEF TmuxNext

LEMMA SessionStepOK ==
  ASSUME SessionInv, TmuxNext \/ TmuxStep
  PROVE  SessionInv'
  BY SessionTypedStep, DeletedStep DEF SessionInv

-----------------------------------------------------------------------------
(* Rendered text *)

LEMMA ColouredIs ==
  ASSUME NEW x, NEW th \in Themes
  PROVE  Coloured(x, th) \in {"plain"} \cup Themes
  BY DEF Coloured

LEMMA RequestsAre ==
  ASSUME NEW xs \in SUBSET Texts, NEW th \in Themes
  PROVE  Requests(xs, th) \subseteq Pairs
  BY DEF Requests, Pairs, Langs

\* What is rendered has its type, and what is fetched for it is not there yet.
LEMMA RenderIs ==
  ASSUME TextTypeOK, NEW xs \in SUBSET Texts, NEW th \in Themes, Render(xs, th, images)
  PROVE  /\ code' \in [Texts -> {"closed", "plain"} \cup Themes]
         /\ slot' \in [Texts -> {"closed", "skeleton", "image", "raw"}]
         /\ fetching' \subseteq Urls \ images
  <1>1. code \in [Texts -> {"closed", "plain"} \cup Themes] /\ slot \in [Texts -> {"closed", "skeleton", "image", "raw"}]
    BY DEF TextTypeOK
  <1>2. code' = [x \in Texts |-> IF x \in xs THEN Coloured(x, th) ELSE code[x]]  BY DEF Render
  <1>3. \A x \in Texts : Coloured(x, th) \in {"plain"} \cup Themes  BY ColouredIs
  <1>4. code' \in [Texts -> {"closed", "plain"} \cup Themes]  BY <1>1, <1>2, <1>3
  <1>5. slot' \in [Texts -> {"closed", "skeleton", "image", "raw"}]  BY <1>1 DEF Render
  <1>6. fetching' \subseteq Urls \ images  BY DEF Render, TextTypeOK, Urls
  <1> QED  BY <1>4, <1>5, <1>6

LEMMA TextBudget ==
  ASSUME TextTypeOK, TextAct \/ TextFault \/ Free
  PROVE  textActs' \in 0..MaxTextActs /\ textFaults' \in 0..MaxTextFaults
  BY MarkdownAssumption DEF TextTypeOK, TextAct, TextFault, Free

LEMMA ApplyIs ==
  ASSUME TextTypeOK, NEW th \in Themes, Apply(th)
  PROVE  /\ theme' \in Themes /\ UNCHANGED <<hasHighlighter, langs, themes, unavailable, images>>
         /\ requested' \subseteq Pairs
         /\ code' \in [Texts -> {"closed", "plain"} \cup Themes]
         /\ slot' \in [Texts -> {"closed", "skeleton", "image", "raw"}]
         /\ fetching' \subseteq Urls \ images
  <1>1. theme' = th /\ UNCHANGED <<hasHighlighter, langs, themes, unavailable, images>>
    BY DEF Apply, SameHighlighter
  <1>2. CASE th = theme  BY <1>1, <1>2 DEF Apply, TextTypeOK
  <1>3. CASE th # theme
    <2>1. Open \in SUBSET Texts /\ Render(Open, th, images) /\ requested' = requested \cup Requests(Open, th)
      BY <1>3 DEF Apply, Open
    <2>2. requested' \subseteq Pairs  BY <2>1, RequestsAre DEF TextTypeOK
    <2> QED  BY <1>1, <2>1, <2>2, RenderIs
  <1> QED  BY <1>2, <1>3

LEMMA TextStep ==
  ASSUME TextTypeOK, TextNext
  PROVE  TextTypeOK'
  <1>1. ASSUME NEW x \in Texts, OpenText(x)  PROVE TextTypeOK'
    <2>1. /\ Render({x}, theme, images) /\ requested' = requested \cup Requests({x}, theme)
          /\ UNCHANGED <<hasHighlighter, langs, themes, unavailable, theme, loadingTheme, images>> /\ TextAct
      BY <1>1 DEF OpenText, SameHighlighter, themeVars
    <2>2. {x} \in SUBSET Texts /\ theme \in Themes  BY DEF TextTypeOK
    <2>3. requested' \subseteq Pairs  BY <2>1, <2>2, RequestsAre DEF TextTypeOK
    <2>4. /\ code' \in [Texts -> {"closed", "plain"} \cup Themes]
          /\ slot' \in [Texts -> {"closed", "skeleton", "image", "raw"}]
          /\ fetching' \subseteq Urls \ images
      BY <2>1, <2>2, RenderIs
    <2>5. textActs' \in 0..MaxTextActs /\ textFaults' \in 0..MaxTextFaults  BY <2>1, TextBudget
    <2> QED  BY <2>1, <2>3, <2>4, <2>5 DEF TextTypeOK
  <1>2. ASSUME NEW x \in Texts, CloseText(x)  PROVE TextTypeOK'
    <2>1. textActs' \in 0..MaxTextActs /\ textFaults' \in 0..MaxTextFaults  BY <1>2, TextBudget DEF CloseText
    <2> QED  BY <1>2, <2>1 DEF CloseText, TextTypeOK, themeVars, highlightVars, imageVars
  <1>3. ASSUME NEW th \in Themes, Apply(th), loadingTheme' \in BOOLEAN, TextAct \/ TextFault \/ Free
        PROVE  TextTypeOK'
    <2>1. textActs' \in 0..MaxTextActs /\ textFaults' \in 0..MaxTextFaults  BY <1>3, TextBudget
    <2> QED  BY <1>3, <2>1, ApplyIs DEF TextTypeOK
  <1>4. ASSUME NEW th \in Themes, SetTheme(th) \/ ThemeLoaded(th)  PROVE TextTypeOK'
    <2>1. Apply(th) /\ loadingTheme' \in BOOLEAN /\ (TextAct \/ Free)
      BY <1>4 DEF SetTheme, ThemeLoaded, TextTypeOK
    <2> QED  BY <1>3, <2>1
  <1>5. CASE ThemeFailed
    <2>1. textActs' \in 0..MaxTextActs /\ textFaults' \in 0..MaxTextFaults  BY <1>5, TextBudget DEF ThemeFailed
    <2> QED  BY <1>5, <2>1 DEF ThemeFailed, TextTypeOK, highlightVars, imageVars
  <1>6. ASSUME NEW pair \in requested, LanguageLoaded(pair)  PROVE TextTypeOK'
    <2>1. /\ pair \in Pairs /\ Open \in SUBSET Texts /\ theme \in Themes
      BY DEF TextTypeOK, Open
    <2>2. /\ hasHighlighter' = TRUE /\ langs' = langs \cup {pair[1]} /\ themes' = themes \cup {pair[2]}
          /\ unavailable' = unavailable /\ Render(Open, theme, images) /\ Free
          /\ requested' = (requested \cup Requests(Open, theme)) \ {pair}
          /\ UNCHANGED <<theme, loadingTheme, images>>
      BY <1>6 DEF LanguageLoaded, themeVars
    <2>3. pair[1] \in Langs /\ pair[2] \in Themes  BY <2>1 DEF Pairs
    <2>4. requested' \subseteq Pairs  BY <2>1, <2>2, RequestsAre DEF TextTypeOK
    <2>5. /\ code' \in [Texts -> {"closed", "plain"} \cup Themes]
          /\ slot' \in [Texts -> {"closed", "skeleton", "image", "raw"}]
          /\ fetching' \subseteq Urls \ images
      BY <2>1, <2>2, RenderIs
    <2>6. textActs' \in 0..MaxTextActs /\ textFaults' \in 0..MaxTextFaults  BY <2>2, TextBudget
    <2> QED  BY <2>2, <2>3, <2>4, <2>5, <2>6 DEF TextTypeOK
  <1>7. ASSUME NEW pair \in requested, LanguageFailed(pair)  PROVE TextTypeOK'
    <2>1. textActs' \in 0..MaxTextActs /\ textFaults' \in 0..MaxTextFaults  BY <1>7, TextBudget DEF LanguageFailed
    <2> QED  BY <1>7, <2>1 DEF LanguageFailed, TextTypeOK, themeVars, imageVars
  <1>8. ASSUME NEW u \in fetching, ImageLoaded(u) \/ ImageFailed(u)  PROVE TextTypeOK'
    <2>1. textActs' \in 0..MaxTextActs /\ textFaults' \in 0..MaxTextFaults
      BY <1>8, TextBudget DEF ImageLoaded, ImageFailed
    <2>2. slot' \in [Texts -> {"closed", "skeleton", "image", "raw"}]
      BY <1>8 DEF ImageLoaded, ImageFailed, Filled, TextTypeOK
    <2>3. images' \subseteq Urls /\ fetching' \subseteq Urls \ images'
      BY <1>8 DEF ImageLoaded, ImageFailed, TextTypeOK
    <2>4. UNCHANGED <<theme, loadingTheme, hasHighlighter, langs, themes, requested, unavailable, code>>
      BY <1>8 DEF ImageLoaded, ImageFailed, themeVars, highlightVars
    <2> QED  BY <2>1, <2>2, <2>3, <2>4 DEF TextTypeOK
  <1> QED  BY <1>1, <1>2, <1>4, <1>5, <1>6, <1>7, <1>8 DEF TextNext, TextAnswer

-----------------------------------------------------------------------------
(* The annotations of a file *)

\* The notes of people, thread by thread.
LEMMA NotesAre ==
  ASSUME NEW threads \in Seq(Thread)
  PROVE  /\ Notes(threads) \in Seq(Note)
         /\ Range(Notes(threads)) = UNION {Range(t.notes) : t \in {u \in Range(threads) : ~u.bot}}
  <1> DEFINE Of(t) == IF t.bot THEN <<>> ELSE t.notes
             ss == [i \in DOMAIN threads |-> Of(threads[i])]
  <1>1. DOMAIN threads = 1..Len(threads) /\ Len(threads) \in Nat /\ \A i \in 1..Len(threads) : threads[i] \in Thread
    OBVIOUS
  <1>2. \A i \in 1..Len(threads) : threads[i].bot \in BOOLEAN /\ threads[i].notes \in Seq(Note)
    BY <1>1 DEF Thread
  <1>3. \A i \in 1..Len(threads) : Of(threads[i]) \in Seq(Note)  BY <1>2
  <1>4. Notes(threads) = FlattenSeq(ss)  BY DEF Notes
  <1>5. Range(<<>>) = {}  BY DEF Range
  <1>6. \A i \in DOMAIN threads : Range(Of(threads[i])) = IF threads[i].bot THEN {} ELSE Range(threads[i].notes)
    BY <1>5
  <1> HIDE DEF Of
  <1>7. ss \in [1..Len(threads) -> Seq(Note)]  BY <1>1, <1>3
  <1>8. DOMAIN ss = DOMAIN threads /\ \A i \in DOMAIN threads : ss[i] = Of(threads[i])  OBVIOUS
  <1> HIDE DEF ss
  <1>9. ss \in Seq(Seq(Note))  BY <1>1, <1>7, SeqDef
  <1>10. /\ FlattenSeq(ss) \in Seq(Note)
         /\ Range(FlattenSeq(ss)) = UNION {Range(ss[i]) : i \in DOMAIN ss}
    BY <1>9, FlattenIs
  <1>11. UNION {Range(ss[i]) : i \in DOMAIN ss}
           = UNION {IF threads[i].bot THEN {} ELSE Range(threads[i].notes) : i \in DOMAIN threads}
    BY <1>6, <1>8
  <1>12. UNION {IF threads[i].bot THEN {} ELSE Range(threads[i].notes) : i \in DOMAIN threads}
           = UNION {Range(t.notes) : t \in {u \in Range(threads) : ~u.bot}}
    <2>1. Range(threads) = {threads[i] : i \in DOMAIN threads}  BY DEF Range
    <2> QED  BY <2>1
  <1> QED  BY <1>4, <1>10, <1>11, <1>12

\* What a note adds to the keys of a file.
AddKey(f, keys, note) ==
  IF Anchored(note) /\ UpToColon[note.file] = f /\ Key(note) \notin Range(keys)
  THEN Append(keys, Key(note)) ELSE keys
KeySet(ns) == {Key(note) : note \in Range(ns)}

LEMMA AddKeyIs ==
  ASSUME NEW f, NEW K, NEW keys \in Seq(K), IsInjective(keys), NEW note, Key(note) \in K
  PROVE  /\ AddKey(f, keys, note) \in Seq(K) /\ IsInjective(AddKey(f, keys, note))
         /\ Range(AddKey(f, keys, note)) =
              Range(keys) \cup (IF Anchored(note) /\ UpToColon[note.file] = f THEN {Key(note)} ELSE {})
  <1> DEFINE k == Key(note)
             more == Append(keys, k)
  <1>1. k \in K  OBVIOUS
  <1>2. AddKey(f, keys, note) = IF Anchored(note) /\ UpToColon[note.file] = f /\ k \notin Range(keys) THEN more ELSE keys
    BY DEF AddKey
  <1> HIDE DEF k
  <1>3. /\ more \in Seq(K) /\ Len(more) = Len(keys) + 1 /\ more[Len(keys) + 1] = k
        /\ \A i \in 1..Len(keys) : more[i] = keys[i]
    BY <1>1, AppendProperties
  <1>4. Range(more) = Range(keys) \cup {k}
    <2> DEFINE one == <<k>>
    <2>1. more = keys \o one /\ one \in Seq(K)  BY <1>1, AppendIsConcat
    <2>2. Range(one) = {k}  BY DEF Range
    <2> HIDE DEF one, more
    <2>3. Range(keys \o one) = Range(keys) \cup Range(one)  BY <2>1, RangeConcatenation
    <2> QED  BY <2>1, <2>2, <2>3
  <1>5. k \notin Range(keys) => IsInjective(more)
    <2> SUFFICES ASSUME k \notin Range(keys), NEW i \in DOMAIN more, NEW j \in DOMAIN more, more[i] = more[j]
                 PROVE  i = j
      BY DEF IsInjective
    <2>1. Len(keys) \in Nat /\ DOMAIN keys = 1..Len(keys) /\ DOMAIN more = 1..(Len(keys) + 1)
      BY <1>3
    <2>2. \A m \in 1..Len(keys) : keys[m] \in Range(keys)  BY <2>1 DEF Range
    <2>3. i \in 1..Len(keys) \/ i = Len(keys) + 1  BY <2>1
    <2>4. j \in 1..Len(keys) \/ j = Len(keys) + 1  BY <2>1
    <2>5. CASE i \in 1..Len(keys) /\ j \in 1..Len(keys)
      <3>1. keys[i] = keys[j]  BY <1>3, <2>5
      <3> QED  BY <2>1, <2>5, <3>1 DEF IsInjective
    <2>6. CASE ~(i \in 1..Len(keys) /\ j \in 1..Len(keys))
      <3> HIDE DEF more
      <3> QED  BY <1>3, <2>2, <2>3, <2>4, <2>6
    <2> QED  BY <2>5, <2>6
  <1> HIDE DEF more
  <1>6. CASE Anchored(note) /\ UpToColon[note.file] = f /\ k \notin Range(keys)
    BY <1>2, <1>3, <1>4, <1>5, <1>6 DEF k
  <1>7. CASE ~(Anchored(note) /\ UpToColon[note.file] = f /\ k \notin Range(keys))
    BY <1>2, <1>7 DEF k
  <1> QED  BY <1>6, <1>7

\* The fold goes through the notes one by one.
LEMMA KeysFold ==
  ASSUME NEW f, NEW ns \in Seq(Note)
  PROVE  \E F \in [0..Len(ns) -> Seq(KeySet(ns))] :
           /\ F[0] = <<>>
           /\ \A k \in 1..Len(ns) : F[k] = AddKey(f, F[k - 1], ns[k])
           /\ KeysUnder(f, ns) = F[Len(ns)]
  <1> DEFINE n == Len(ns)
             X == Seq(KeySet(ns))
             base == <<>>
             After(acc, i) == AddKey(f, acc, ns[i])
             Is(g) == g = [s \in SUBSET (1..n) |-> IF s = {} THEN base ELSE After(g[s \ {Max(s)}], Max(s))]
             iter == CHOOSE g : Is(g)
  <1>1. n \in Nat /\ DOMAIN ns = 1..n  OBVIOUS
  <1>2. base \in X  OBVIOUS
  <1>3. \A acc \in X, k \in 1..n : After(acc, k) \in X
    <2> SUFFICES ASSUME NEW acc \in X, NEW k \in 1..n PROVE After(acc, k) \in X
      OBVIOUS
    <2>1. ns[k] \in Range(ns)  BY <1>1 DEF Range
    <2>2. Key(ns[k]) \in KeySet(ns)  BY <2>1 DEF KeySet
    <2>3. Append(acc, Key(ns[k])) \in X  BY <2>2, AppendProperties
    <2> QED  BY <2>3 DEF AddKey
  <1>4. KeysUnder(f, ns) = iter[1..n]
    BY <1>1 DEF KeysUnder, FoldLeft, MapThenFoldSet, AddKey
  <1> HIDE DEF After, base, X
  <1> DEFINE Op == [x \in X \X (1..n) |-> After(x[1], x[2])]
  <1>5. Op \in [X \X (1..n) -> X]  BY <1>3
  <1>6. \A acc \in X, k \in 1..n : Op[<<acc, k>>] = After(acc, k)  OBVIOUS
  <1> HIDE DEF Op, n
  <1>7. n \in Nat  BY <1>1
  <1>8. \E g : Is(g)
    <2>1. PICK g : FoldsBy(g, X, n, base, Op)
      BY <1>2, <1>5, <1>7, FoldExists
    <2>2. /\ g \in [SUBSET (1..n) -> X]
          /\ \A s \in SUBSET (1..n) : g[s] = IF s = {} THEN base ELSE Op[<<g[s \ {Max(s)}], Max(s)>>]
      BY <2>1 DEF FoldsBy
    <2> DEFINE G(s) == IF s = {} THEN base ELSE After(g[s \ {Max(s)}], Max(s))
    <2>3. ASSUME NEW s \in SUBSET (1..n)  PROVE g[s] = G(s)
      <3>1. s # {} => Max(s) \in 1..n  BY <1>7, MaxIs
      <3>2. g[s \ {Max(s)}] \in X  BY <2>2
      <3> QED  BY <1>6, <2>2, <3>1, <3>2
    <2> HIDE DEF G
    <2>4. g = [s \in SUBSET (1..n) |-> G(s)]  BY <2>2, <2>3
    <2>5. Is(g)  BY <2>4 DEF G
    <2> QED  BY <2>5
  <1>9. Is(iter)  BY <1>8
  <1> HIDE DEF iter
  <1>10. iter[{}] = base
    <2>1. {} \in SUBSET (1..n)  OBVIOUS
    <2> QED  BY <1>9, <2>1
  <1>11. ASSUME NEW s \in SUBSET (1..n), s # {}, iter[s \ {Max(s)}] \in X
         PROVE  iter[s] = Op[<<iter[s \ {Max(s)}], Max(s)>>]
    <2>1. Max(s) \in 1..n  BY <1>7, <1>11, MaxIs
    <2>2. iter[s] = After(iter[s \ {Max(s)}], Max(s))  BY <1>9, <1>11, <2>1
    <2> QED  BY <1>6, <1>11, <2>1, <2>2
  <1> DEFINE F == FoldPrefixes(iter, n)
  <1>12. Steps(F, X, n, base, Op)
    <2>1. Unfolds(iter, X, n, base, Op)  BY <1>10, <1>11 DEF Unfolds
    <2> QED  BY <1>2, <1>5, <1>7, <2>1, FoldSteps
  <1>13. n \in 0..n /\ F[n] = iter[1..n]  BY <1>7 DEF FoldPrefixes
  <1> HIDE DEF F
  <1>14. F \in [0..n -> X] /\ F[0] = base /\ \A k \in 1..n : F[k] = Op[<<F[k - 1], k>>]
    BY <1>12 DEF Steps
  <1>15. ASSUME NEW k \in 1..n  PROVE F[k] = After(F[k - 1], k)
    <2>1. k - 1 \in 0..n  BY <1>7
    <2> QED  BY <1>6, <1>14, <2>1
  <1> QED  BY <1>4, <1>13, <1>14, <1>15 DEF After, base, n, X

\* The keys of a file are those of the anchored notes that are put to it, each once.
LEMMA KeysAre ==
  ASSUME NEW f, NEW ns \in Seq(Note)
  PROVE  /\ KeysUnder(f, ns) \in Seq(KeySet(ns)) /\ IsInjective(KeysUnder(f, ns))
         /\ Range(KeysUnder(f, ns)) =
              {Key(m) : m \in {m \in Range(ns) : Anchored(m) /\ UpToColon[m.file] = f}}
  <1> DEFINE n == Len(ns)
             K == KeySet(ns)
             Put(i) == Anchored(ns[i]) /\ UpToColon[ns[i].file] = f
             Upto(k) == {Key(ns[i]) : i \in {i \in 1..k : Put(i)}}
  <1>1. n \in Nat /\ DOMAIN ns = 1..n  OBVIOUS
  <1>2. PICK F \in [0..n -> Seq(K)] :
           /\ F[0] = <<>>
           /\ \A k \in 1..n : F[k] = AddKey(f, F[k - 1], ns[k])
           /\ KeysUnder(f, ns) = F[n]
    BY KeysFold
  <1> DEFINE T == {k \in Nat : k <= n => IsInjective(F[k]) /\ Range(F[k]) = Upto(k)}
  <1>3. 0 \in T
    <2>1. Range(<<>>) = {} /\ IsInjective(<<>>) /\ Upto(0) = {}  BY DEF Range, IsInjective
    <2> QED  BY <1>2, <2>1
  <1>4. ASSUME NEW k \in 0..(n - 1), k \in T  PROVE k + 1 \in T
    <2>1. k \in Nat /\ k <= n /\ k + 1 \in 1..n /\ (k + 1) - 1 = k /\ k \in 0..n /\ 1..(k + 1) = (1..k) \cup {k + 1}
      BY <1>1
    <2>2. F[k + 1] = AddKey(f, F[k], ns[k + 1]) /\ F[k] \in Seq(K)  BY <1>2, <2>1
    <2>3. Key(ns[k + 1]) \in K  BY <1>1, <2>1 DEF KeySet, Range
    <2>4. IsInjective(F[k]) /\ Range(F[k]) = Upto(k)  BY <1>4, <2>1
    <2> DEFINE note == ns[k + 1]
               keys == F[k]
    <2>5. /\ IsInjective(F[k + 1])
          /\ Range(F[k + 1]) = Range(keys) \cup (IF Put(k + 1) THEN {Key(note)} ELSE {})
      <3>1. Key(note) \in K /\ keys \in Seq(K) /\ IsInjective(keys) /\ F[k + 1] = AddKey(f, keys, note)
        BY <2>2, <2>3, <2>4
      <3>2. Put(k + 1) <=> Anchored(note) /\ UpToColon[note.file] = f  OBVIOUS
      <3> HIDE DEF note, K, keys, Put
      <3>3. /\ IsInjective(AddKey(f, keys, note))
            /\ Range(AddKey(f, keys, note)) =
                 Range(keys) \cup (IF Anchored(note) /\ UpToColon[note.file] = f THEN {Key(note)} ELSE {})
        BY <3>1, AddKeyIs
      <3> QED  BY <3>1, <3>2, <3>3
    <2> HIDE DEF Put
    <2>6. Upto(k + 1) = Upto(k) \cup (IF Put(k + 1) THEN {Key(note)} ELSE {})
      BY <2>1
    <2>7. Range(F[k + 1]) = Upto(k + 1)  BY <2>4, <2>5, <2>6
    <2> HIDE DEF Upto
    <2> QED  BY <2>1, <2>5, <2>7
  <1> HIDE DEF T
  <1>5. n \in T
    <2>1. 0..n \subseteq T  BY <1>1, <1>3, <1>4, UpTo
    <2> QED  BY <1>1, <2>1
  <1>6. IsInjective(F[n]) /\ Range(F[n]) = Upto(n)  BY <1>1, <1>5 DEF T
  <1>7. Upto(n) = {Key(m) : m \in {m \in Range(ns) : Anchored(m) /\ UpToColon[m.file] = f}}
    <2>1. Range(ns) = {ns[i] : i \in 1..n}  BY <1>1 DEF Range
    <2> QED  BY <2>1
  <1>8. F[n] \in Seq(K)  BY <1>1, <1>2
  <1> QED  BY <1>2, <1>6, <1>7, <1>8

-----------------------------------------------------------------------------
(* The view of a diff and its annotations *)

Views(n) == [of : DiffPRs \cup {NoView}, shown : [Names -> Seq(AllKeys)], under : 0..n]

CommentsAsked(cs) ==
  /\ DOMAIN cs = DiffPRs /\ cs = [p \in DiffPRs |-> cs[p]]
  /\ \A p \in DiffPRs : Asked(cs[p], Answers)

\* A highlighter's version is an act, which bounds the versions.
AnnTyped ==
  /\ at \in DiffPRs /\ posted \in [DiffPRs -> Answers] /\ CommentsAsked(comments)
  /\ patches \in [DiffPRs -> {"none", "loading", "ready", "failed"}]
  /\ built \in Views(noteActs) /\ rendered \in BOOLEAN
  /\ highlights \in 0..noteActs /\ highlightSeen \in 0..noteActs
  /\ noteActs \in 0..MaxNoteActs /\ noteFaults \in 0..MaxNoteFaults

\* What is rendered is the diff of the pull request the page is at, with each file's annotations
\* as the comments there are put them, under the highlighter's last version.
AnnInv ==
  rendered =>
    /\ built.of = at /\ built.under = highlights /\ highlightSeen = highlights
    /\ \A f \in FilesOf[at] : built.shown[f] = ByFile[Threads(comments, at)][f]

LEMMA FilesAreNames ==
  ASSUME NEW p \in DiffPRs
  PROVE  FilesOf[p] \subseteq Names
  BY DEF Names

LEMMA ByFileIs ==
  ASSUME NEW threads \in Answers \cup {<<>>}, NEW f \in Names
  PROVE  /\ ByFile[threads][f] \in Seq(AllKeys) /\ IsInjective(ByFile[threads][f])
         /\ Range(ByFile[threads][f]) =
              {Key(n) : n \in {m \in UNION {Range(t.notes) : t \in {u \in Range(threads) : ~u.bot}} :
                                 Anchored(m) /\ UpToColon[m.file] = f}}
  <1> DEFINE ns == Notes(threads)
             keys == KeysUnder(f, ns)
  <1>1. threads \in Seq(Thread)
    <2>1. <<>> \in Seq(Thread)  OBVIOUS
    <2>2. Answers \subseteq Seq(Thread)  BY AnnotationsAssumption
    <2> HIDE DEF Thread
    <2> QED  BY <2>1, <2>2
  <1>2. ByFile[threads][f] = keys  BY DEF ByFile
  <1>3. /\ ns \in Seq(Note)
        /\ Range(ns) = UNION {Range(t.notes) : t \in {u \in Range(threads) : ~u.bot}}
    BY <1>1, NotesAre
  <1>4. KeySet(ns) \subseteq AllKeys
    <2>1. CASE threads \in Answers  BY <2>1 DEF KeySet, AllKeys
    <2>2. CASE threads = <<>>
      <3>1. Range(threads) = {}  BY <2>2 DEF Range
      <3>2. Range(ns) = {}  BY <1>3, <3>1
      <3> QED  BY <3>2 DEF KeySet
    <2> QED  BY <2>1, <2>2
  <1> HIDE DEF ns
  <1>5. /\ keys \in Seq(KeySet(ns)) /\ IsInjective(keys)
        /\ Range(keys) = {Key(m) : m \in {m \in Range(ns) : Anchored(m) /\ UpToColon[m.file] = f}}
    BY <1>3, KeysAre
  <1> HIDE DEF keys
  <1>6. keys \in Seq(AllKeys)
    <2>1. keys \in [1..Len(keys) -> KeySet(ns)] /\ Len(keys) \in Nat  BY <1>5
    <2>2. keys \in [1..Len(keys) -> AllKeys]  BY <1>4, <2>1
    <2> QED  BY <2>1, <2>2, SeqDef
  <1> QED  BY <1>2, <1>3, <1>5, <1>6

\* Threads of the comments of a pull request.
LEMMA ThreadsAre ==
  ASSUME NEW cs, NEW p, Asked(cs[p], Answers)
  PROVE  Threads(cs, p) \in Answers \cup {<<>>}
  BY DataIs, NoDataIs DEF Threads

LEMMA SameAre ==
  ASSUME NEW a \in Seq(AllKeys), NEW b \in Seq(AllKeys), SameAnnotations(a, b)
  PROVE  a = b
  BY DEF SameAnnotations

LEMMA BuildIs ==
  ASSUME NEW v, NEW n \in Nat, NEW p \in DiffPRs, NEW threads \in Answers \cup {<<>>}, NEW version \in 0..n
  PROVE  /\ Build(v, p, threads, version) \in Views(n)
         /\ Build(v, p, threads, version).of = p /\ Build(v, p, threads, version).under = version
  <1> DEFINE shown == [f \in Names |-> IF f \in FilesOf[p] THEN ByFile[threads][f] ELSE <<>>]
  <1>1. \A f \in Names : ByFile[threads][f] \in Seq(AllKeys)  BY ByFileIs
  <1>2. shown \in [Names -> Seq(AllKeys)]
    <2>1. <<>> \in Seq(AllKeys)  OBVIOUS
    <2> QED  BY <1>1, <2>1
  <1>3. Build(v, p, threads, version) = [of |-> p, under |-> version, shown |-> shown]  BY DEF Build
  <1> HIDE DEF shown
  <1> QED  BY <1>2, <1>3 DEF Views

LEMMA UpdateIs ==
  ASSUME NEW n \in Nat, NEW v \in Views(n), v.of \in DiffPRs, NEW threads \in Answers \cup {<<>>},
         NEW version \in 0..n, NEW forced \in BOOLEAN
  PROVE  /\ Update(v, threads, version, forced) \in Views(n)
         /\ Update(v, threads, version, forced).of = v.of
         /\ Update(v, threads, version, forced).under = IF forced THEN version ELSE v.under
         /\ \A f \in FilesOf[v.of] : Update(v, threads, version, forced).shown[f] = ByFile[threads][f]
  <1> DEFINE G(f) == IF f \notin FilesOf[v.of] \/ (~forced /\ SameAnnotations(v.shown[f], ByFile[threads][f]))
                     THEN v.shown[f] ELSE ByFile[threads][f]
             shown == [f \in Names |-> G(f)]
             under == IF forced THEN version ELSE v.under
             u == Update(v, threads, version, forced)
  <1>1. v.shown \in [Names -> Seq(AllKeys)] /\ v.under \in 0..n  BY DEF Views
  <1>2. \A f \in Names : ByFile[threads][f] \in Seq(AllKeys) /\ v.shown[f] \in Seq(AllKeys)  BY <1>1, ByFileIs
  <1>3. \A f \in Names : f \in FilesOf[v.of] => G(f) = ByFile[threads][f]
    <2> SUFFICES ASSUME NEW f \in Names, f \in FilesOf[v.of] PROVE G(f) = ByFile[threads][f]
      OBVIOUS
    <2>1. SameAnnotations(v.shown[f], ByFile[threads][f]) => v.shown[f] = ByFile[threads][f]  BY <1>2, SameAre
    <2> QED  BY <2>1
  <1>4. \A f \in Names : G(f) \in Seq(AllKeys)  BY <1>2
  <1>5. u = [v EXCEPT !.under = under, !.shown = shown]  BY DEF Update
  <1>6. under \in 0..n  BY <1>1
  <1> HIDE DEF G
  <1>7. shown \in [Names -> Seq(AllKeys)] /\ \A f \in Names : shown[f] = G(f)  BY <1>4
  <1> HIDE DEF shown, u
  <1>8. u.of = v.of /\ u.under = under /\ u.shown = shown  BY <1>5 DEF Views
  <1>9. u \in Views(n)
    <2> HIDE DEF under
    <2> QED  BY <1>5, <1>6, <1>7 DEF Views
  <1>10. FilesOf[v.of] \subseteq Names  BY FilesAreNames
  <1>11. \A f \in FilesOf[v.of] : u.shown[f] = ByFile[threads][f]  BY <1>3, <1>7, <1>8, <1>10
  <1> QED  BY <1>8, <1>9, <1>11 DEF u

\* The effect that follows the comments and the highlighter: whatever is rendered then is as the
\* invariant says, if it is of the pull request.
LEMMA FollowsIs ==
  ASSUME NEW n \in Nat, NEW v \in Views(n), NEW isRendered \in BOOLEAN, Follows(v, isRendered),
         highlights' \in 0..n, highlightSeen \in 0..n, at' \in DiffPRs, CommentsAsked(comments'),
         isRendered => v.of = at' /\ (v.under = highlights' \/ highlights' # highlightSeen)
  PROVE  /\ built' \in Views(n) /\ highlightSeen' \in 0..n
         /\ isRendered => /\ built'.of = at' /\ built'.under = highlights' /\ highlightSeen' = highlights'
                          /\ \A f \in FilesOf[at'] : built'.shown[f] = ByFile[Threads(comments', at')][f]
  <1>1. CASE ~isRendered
    BY <1>1 DEF Follows
  <1>2. CASE isRendered /\ v.of # NoView
    <2> DEFINE threads == Threads(comments', at')
               forced == highlights' # highlightSeen
    <2>1. threads \in Answers \cup {<<>>}
      <3>1. Asked(comments'[at'], Answers)  BY DEF CommentsAsked
      <3> QED  BY <3>1, ThreadsAre
    <2>2. built' = Update(v, threads, highlights', forced) /\ highlightSeen' = highlights'  BY <1>2 DEF Follows
    <2>3. forced \in BOOLEAN /\ v.of \in DiffPRs /\ v.of = at' /\ (forced \/ v.under = highlights')  BY <1>2
    <2> HIDE DEF threads, forced
    <2>4. /\ built' \in Views(n) /\ built'.of = v.of
          /\ built'.under = (IF forced THEN highlights' ELSE v.under)
          /\ \A f \in FilesOf[v.of] : built'.shown[f] = ByFile[threads][f]
      BY <2>1, <2>2, <2>3, UpdateIs
    <2> QED  BY <2>2, <2>3, <2>4 DEF threads
  <1>3. CASE isRendered /\ v.of = NoView
    BY <1>3, AnnotationsAssumption
  <1> QED  BY <1>1, <1>2, <1>3

LEMMA NoteBudget ==
  ASSUME AnnTyped, NoteAct \/ NoteFault \/ NoteFree
  PROVE  /\ noteActs' \in 0..MaxNoteActs /\ noteFaults' \in 0..MaxNoteFaults
         /\ noteActs \in Nat /\ noteActs' \in Nat /\ noteActs <= noteActs'
         /\ NoteAct => noteActs' = noteActs + 1
  BY AnnotationsAssumption DEF AnnTyped, NoteAct, NoteFault, NoteFree

LEMMA ViewsGrow ==
  ASSUME NEW m \in Nat, NEW n \in Nat, m <= n
  PROVE  Views(m) \subseteq Views(n) /\ 0..m \subseteq 0..n
  <1>1. 0..m \subseteq 0..n  OBVIOUS
  <1>2. ASSUME NEW v \in Views(m)  PROVE v \in Views(n)  BY <1>1 DEF Views
  <1> QED  BY <1>1, <1>2

LEMMA CommentsExcept ==
  ASSUME CommentsAsked(comments), NEW p \in DiffPRs, NEW q, Asked(q, Answers),
         comments' = [comments EXCEPT ![p] = q]
  PROVE  CommentsAsked(comments')
  BY DEF CommentsAsked

\* A step that ends in the effect.
LEMMA EffectStep ==
  ASSUME AnnTyped, NoteAct \/ NoteFault \/ NoteFree,
         at' \in DiffPRs, posted' = posted, CommentsAsked(comments'),
         patches' \in [DiffPRs -> {"none", "loading", "ready", "failed"}],
         rendered' \in BOOLEAN, highlights' \in 0..noteActs',
         NEW v, v \in Views(noteActs'), Follows(v, rendered'),
         rendered' => v.of = at' /\ (v.under = highlights' \/ highlights' # highlightSeen)
  PROVE  AnnTyped' /\ AnnInv'
  <1> DEFINE n == noteActs'
             r == rendered'
  <1>1. /\ n \in 0..MaxNoteActs /\ noteFaults' \in 0..MaxNoteFaults
        /\ noteActs \in Nat /\ n \in Nat /\ noteActs <= n
    BY NoteBudget
  <1>2. highlightSeen \in 0..n  BY <1>1 DEF AnnTyped
  <1>3. r \in BOOLEAN /\ v \in Views(n) /\ Follows(v, r) /\ highlights' \in 0..n
    OBVIOUS
  <1>4. r => v.of = at' /\ (v.under = highlights' \/ highlights' # highlightSeen)  OBVIOUS
  <1> HIDE DEF n, r
  <1>5. /\ built' \in Views(n) /\ highlightSeen' \in 0..n
        /\ r => /\ built'.of = at' /\ built'.under = highlights' /\ highlightSeen' = highlights'
                /\ \A f \in FilesOf[at'] : built'.shown[f] = ByFile[Threads(comments', at')][f]
    BY <1>1, <1>2, <1>3, <1>4, FollowsIs
  <1>6. AnnTyped'  BY <1>1, <1>3, <1>5 DEF AnnTyped, n
  <1>7. AnnInv'  BY <1>5 DEF AnnInv, r
  <1> QED  BY <1>6, <1>7

\* The page is at p, and shows it.
LEMMA ShowsStep ==
  ASSUME AnnTyped, NEW p \in DiffPRs, Shows(p), NoteAct \/ NoteFault \/ NoteFree,
         at' = p, posted' = posted, highlights' = highlights, CommentsAsked(comments'),
         patches' \in [DiffPRs -> {"none", "loading", "ready", "failed"}]
  PROVE  AnnTyped' /\ AnnInv'
  <1> DEFINE n == noteActs'
             threads == Threads(comments', p)
             ready == patches'[p] = "ready"
             v == IF ready THEN Build(built, p, threads, highlights') ELSE built
  <1>1. /\ noteActs \in Nat /\ n \in Nat /\ noteActs <= n  BY NoteBudget
  <1>2. built \in Views(n) /\ highlights' \in 0..n
    <2>1. built \in Views(noteActs) /\ highlights' \in 0..noteActs  BY DEF AnnTyped
    <2>2. Views(noteActs) \subseteq Views(n) /\ 0..noteActs \subseteq 0..n  BY <1>1, ViewsGrow
    <2> QED  BY <2>1, <2>2
  <1>3. threads \in Answers \cup {<<>>}
    <2>1. Asked(comments'[p], Answers)  BY DEF CommentsAsked
    <2> QED  BY <2>1, ThreadsAre
  <1>4. rendered' = ready /\ Follows(v, ready)  BY DEF Shows
  <1> HIDE DEF n, threads
  <1>5. /\ Build(built, p, threads, highlights') \in Views(n)
        /\ Build(built, p, threads, highlights').of = p
        /\ Build(built, p, threads, highlights').under = highlights'
    BY <1>1, <1>2, <1>3, BuildIs
  <1>6. ready \in BOOLEAN  OBVIOUS
  <1> HIDE DEF ready
  <1>7. v \in Views(n) /\ (ready => v.of = p /\ v.under = highlights')  BY <1>2, <1>5
  <1> HIDE DEF v
  <1>8. rendered' \in BOOLEAN /\ Follows(v, rendered')  BY <1>4, <1>6
  <1>9. rendered' => v.of = at' /\ (v.under = highlights' \/ highlights' # highlightSeen)  BY <1>4, <1>7
  <1>10. at' \in DiffPRs /\ highlights' \in 0..noteActs' /\ v \in Views(noteActs')  BY <1>2, <1>7 DEF n
  <1> QED  BY <1>8, <1>9, <1>10, EffectStep

\* The effect on the view that is there.
LEMMA FollowStep ==
  ASSUME AnnTyped, AnnInv, Follows(built, rendered), NoteAct \/ NoteFault \/ NoteFree,
         UNCHANGED <<at, posted, patches, rendered>>, CommentsAsked(comments'),
         highlights' \in 0..noteActs'
  PROVE  AnnTyped' /\ AnnInv'
  <1>1. /\ noteActs \in Nat /\ noteActs' \in Nat /\ noteActs <= noteActs'  BY NoteBudget
  <1>2. built \in Views(noteActs')
    <2>1. built \in Views(noteActs)  BY DEF AnnTyped
    <2>2. Views(noteActs) \subseteq Views(noteActs')  BY <1>1, ViewsGrow
    <2> QED  BY <2>1, <2>2
  <1>3. rendered => built.of = at /\ (built.under = highlights' \/ highlights' # highlightSeen)
    BY DEF AnnInv
  <1>4. /\ at' \in DiffPRs /\ rendered' \in BOOLEAN /\ Follows(built, rendered')
        /\ patches' \in [DiffPRs -> {"none", "loading", "ready", "failed"}]
        /\ rendered' => built.of = at' /\ (built.under = highlights' \/ highlights' # highlightSeen)
    BY <1>3 DEF AnnTyped
  <1> QED  BY <1>2, <1>4, EffectStep

\* A step that leaves the view, what it shows and what it follows alone.
LEMMA AnnKept ==
  ASSUME AnnTyped, AnnInv, NoteAct \/ NoteFault \/ NoteFree, UNCHANGED <<at, diffVars, highlights, comments>>,
         posted' \in [DiffPRs -> Answers],
         patches' \in [DiffPRs -> {"none", "loading", "ready", "failed"}]
  PROVE  AnnTyped' /\ AnnInv'
  <1>1. /\ noteActs' \in 0..MaxNoteActs /\ noteFaults' \in 0..MaxNoteFaults
        /\ noteActs \in Nat /\ noteActs' \in Nat /\ noteActs <= noteActs'
    BY NoteBudget
  <1>2. UNCHANGED <<built, rendered, highlightSeen>>  BY DEF diffVars
  <1>3. built' \in Views(noteActs') /\ highlights' \in 0..noteActs' /\ highlightSeen' \in 0..noteActs'
    <2>1. built' \in Views(noteActs) /\ highlights' \in 0..noteActs /\ highlightSeen' \in 0..noteActs
      BY <1>2 DEF AnnTyped
    <2>2. Views(noteActs) \subseteq Views(noteActs') /\ 0..noteActs \subseteq 0..noteActs'  BY <1>1, ViewsGrow
    <2> QED  BY <2>1, <2>2
  <1>4. AnnTyped'  BY <1>1, <1>2, <1>3 DEF AnnTyped
  <1>5. AnnInv'  BY <1>2 DEF AnnInv, Threads
  <1> QED  BY <1>4, <1>5

LEMMA AsksAre ==
  ASSUME AnnTyped, NEW p \in DiffPRs, NEW stale \in BOOLEAN, Asks(p, stale)
  PROVE  /\ CommentsAsked(comments')
         /\ patches' \in [DiffPRs -> {"none", "loading", "ready", "failed"}]
  <1>1. Asked(comments[p], Answers)  BY DEF AnnTyped, CommentsAsked
  <1> DEFINE q == IF stale THEN Fetch(comments[p]) ELSE Observed(comments[p])
  <1>2. Asked(q, Answers)  BY <1>1, NoDataIs, QueryOps
  <1>3. comments' = [comments EXCEPT ![p] = q]  BY DEF Asks
  <1> HIDE DEF q
  <1>4. CommentsAsked(comments')  BY <1>2, <1>3, CommentsExcept DEF AnnTyped
  <1>5. patches' \in [DiffPRs -> {"none", "loading", "ready", "failed"}]  BY DEF Asks, AnnTyped
  <1> QED  BY <1>4, <1>5

LEMMA AnnStep ==
  ASSUME AnnTyped, AnnInv, AnnNext
  PROVE  AnnTyped' /\ AnnInv'
  <1>1. /\ at \in DiffPRs /\ CommentsAsked(comments) /\ highlights \in 0..noteActs
        /\ patches \in [DiffPRs -> {"none", "loading", "ready", "failed"}]
    BY DEF AnnTyped
  <1>2. NoteAct \/ NoteFault \/ NoteFree => highlights \in 0..noteActs'
    BY <1>1, NoteBudget
  <1>3. CASE Mount
    <2>1. /\ Asks(at, FALSE) /\ UNCHANGED <<at, posted, highlights>> /\ Shows(at) /\ NoteFree
      BY <1>3 DEF Mount
    <2>2. /\ CommentsAsked(comments')
          /\ patches' \in [DiffPRs -> {"none", "loading", "ready", "failed"}]
      BY <1>1, <2>1, AsksAre
    <2> QED  BY <1>1, <2>1, <2>2, ShowsStep
  <1>4. CASE Refetch
    <2>1. /\ comments' = [comments EXCEPT ![at] = Poll(@)] /\ Follows(built, rendered) /\ NoteAct
          /\ UNCHANGED <<at, posted, patches, rendered, highlights>>
      BY <1>4 DEF Refetch
    <2>2. Asked(Poll(comments[at]), Answers)  BY <1>1, NoDataIs, QueryOps DEF CommentsAsked
    <2>3. CommentsAsked(comments')  BY <1>1, <2>1, <2>2, CommentsExcept
    <2>4. highlights' \in 0..noteActs'  BY <1>2, <2>1
    <2> QED  BY <2>1, <2>3, <2>4, FollowStep
  <1>5. CASE Highlighted
    <2>1. /\ highlights' = highlights + 1 /\ UNCHANGED <<at, posted, comments, patches, rendered>>
          /\ Follows(built, rendered) /\ NoteAct
      BY <1>5 DEF Highlighted
    <2>2. noteActs' = noteActs + 1 /\ noteActs \in Nat  BY <2>1, NoteBudget
    <2>3. highlights' \in 0..noteActs' /\ CommentsAsked(comments')  BY <1>1, <2>1, <2>2
    <2> QED  BY <2>1, <2>3, FollowStep
  <1>6. CASE Retheme
    <2>1. /\ UNCHANGED <<at, posted, comments, patches, highlights>> /\ Shows(at) /\ NoteAct
      BY <1>6 DEF Retheme
    <2> QED  BY <1>1, <2>1, ShowsStep
  <1>7. ASSUME NEW p \in DiffPRs, GoTo(p)  PROVE AnnTyped' /\ AnnInv'
    <2>1. /\ at' = p /\ \E stale \in BOOLEAN : Asks(p, stale)
          /\ UNCHANGED <<posted, highlights>> /\ Shows(p) /\ NoteAct
      BY <1>7 DEF GoTo
    <2>2. /\ CommentsAsked(comments')
          /\ patches' \in [DiffPRs -> {"none", "loading", "ready", "failed"}]
      BY <2>1, AsksAre
    <2> QED  BY <2>1, <2>2, ShowsStep
  <1>8. ASSUME NEW p \in DiffPRs, CommentStep(p)  PROVE AnnTyped' /\ AnnInv'
    <2>0. posted[p] \in Answers  BY DEF AnnTyped
    <2>1. /\ UNCHANGED <<at, posted, patches, rendered, highlights>> /\ Follows(built, rendered)
          /\ \/ comments' = [comments EXCEPT ![p] = Served(@, posted[p])] /\ NoteFree
             \/ comments[p].flight = "read" /\ comments' = [comments EXCEPT ![p] = Arrived(@)] /\ NoteFree
             \/ comments' = [comments EXCEPT ![p] = Failed(@)] /\ NoteFault
      BY <1>8 DEF CommentStep
    <2>2. /\ Asked(Served(comments[p], posted[p]), Answers) /\ Asked(Failed(comments[p]), Answers)
          /\ comments[p].flight = "read" => Asked(Arrived(comments[p]), Answers)
      BY <1>1, <2>0, NoDataIs, QueryOps DEF CommentsAsked
    <2>3. \E q : Asked(q, Answers) /\ comments' = [comments EXCEPT ![p] = q]  BY <2>1, <2>2
    <2>4. CommentsAsked(comments')  BY <1>1, <2>3, CommentsExcept
    <2>5. NoteFree \/ NoteFault  BY <2>1
    <2>6. highlights' \in 0..noteActs'  BY <1>2, <2>1, <2>5
    <2> QED  BY <2>1, <2>4, <2>5, <2>6, FollowStep
  <1>9. ASSUME NEW p \in DiffPRs, NEW how \in {"ready", "failed"}, PatchDone(p, how)
        PROVE  AnnTyped' /\ AnnInv'
    <2>1. /\ patches' = [patches EXCEPT ![p] = how] /\ UNCHANGED <<at, posted, comments, highlights>>
          /\ IF p = at /\ how = "ready" THEN Shows(p) ELSE UNCHANGED diffVars
          /\ NoteFree \/ NoteFault
      BY <1>9 DEF PatchDone
    <2>2. patches' \in [DiffPRs -> {"none", "loading", "ready", "failed"}]  BY <1>1, <2>1
    <2>3. CASE p = at /\ how = "ready"
      <3>1. Shows(p) /\ at' = p /\ CommentsAsked(comments')  BY <1>1, <2>1, <2>3
      <3> QED  BY <2>1, <2>2, <3>1, ShowsStep
    <2>4. CASE ~(p = at /\ how = "ready")
      <3>1. UNCHANGED diffVars /\ posted' \in [DiffPRs -> Answers]  BY <2>1, <2>4 DEF AnnTyped
      <3> QED  BY <2>1, <2>2, <3>1, AnnKept
    <2> QED  BY <2>3, <2>4
  <1>10. ASSUME NEW p \in DiffPRs, NEW threads \in Answers, Post(p, threads)  PROVE AnnTyped' /\ AnnInv'
    <2>1. /\ posted' = [posted EXCEPT ![p] = threads] /\ NoteAct
          /\ UNCHANGED <<at, comments, patches, diffVars, highlights>>
      BY <1>10 DEF Post
    <2>2. posted' \in [DiffPRs -> Answers]  BY <2>1 DEF AnnTyped
    <2>3. patches' \in [DiffPRs -> {"none", "loading", "ready", "failed"}]  BY <1>1, <2>1
    <2> QED  BY <2>1, <2>2, <2>3, AnnKept
  <1> QED  BY <1>3, <1>4, <1>5, <1>6, <1>7, <1>8, <1>9, <1>10 DEF AnnNext

-----------------------------------------------------------------------------
(* What each view's steps leave alone *)

Counted == Act \/ Fault \/ UNCHANGED budget

LEMMA RunFrame ==
  ASSUME RunNext
  PROVE  Counted /\ UNCHANGED <<hidden, unread, sessionVars, stream, byKey, dashVars, filterVars, noteVars, tmuxVars>>
  <1>1. ASSUME NEW p \in PRs, StartRun(p)
        PROVE  Counted /\ UNCHANGED <<hidden, unread, sessionVars, stream, byKey, dashVars, filterVars, noteVars, tmuxVars>>
    BY <1>1 DEF StartRun, Counted
  <1>2. ASSUME NEW p \in PRs, PersistFailure(p) \/ Release(p) \/ \E o \in Outcome : EndRun(p, o)
        PROVE  Counted /\ UNCHANGED <<hidden, unread, sessionVars, stream, byKey, dashVars, filterVars, noteVars, tmuxVars>>
    BY <1>2 DEF PersistFailure, Release, EndRun, Counted, streamVars
  <1> QED  BY <1>1, <1>2 DEF RunNext

LEMMA StreamFrame ==
  ASSUME StreamNext
  PROVE  /\ Counted /\ UNCHANGED <<serverVars, filter, saving, tainted, noteVars, tmuxVars>>
         /\ recent' = recent \/ recent' = Invalidate(recent, TRUE)
  <1>1. CASE Connect \/ GiveUp \/ Drop
    BY <1>1 DEF Connect, GiveUp, Drop, Counted, filterVars
  <1>2. ASSUME NEW p \in PRs, Event(p)
        PROVE  /\ Counted /\ UNCHANGED <<serverVars, filter, saving, tainted, noteVars, tmuxVars>>
               /\ recent' = recent \/ recent' = Invalidate(recent, TRUE)
    BY <1>2 DEF Event, Counted
  <1> QED  BY <1>1, <1>2 DEF StreamNext

LEMMA PagerFrame ==
  ASSUME PagerNext \/ HistoryStep
  PROVE  Counted /\ UNCHANGED <<serverVars, filterVars, noteVars, tmuxVars>>
  <1>1. ASSUME NEW k \in Pages, Goto(k)
        PROVE  Counted /\ UNCHANGED <<serverVars, filterVars, noteVars, tmuxVars>>
    BY <1>1 DEF Goto, Counted
  <1>2. CASE HistoryStep
    BY <1>2 DEF HistoryStep, Counted
  <1> QED  BY <1>1, <1>2 DEF PagerNext

LEMMA FilterKeeps ==
  ASSUME FilterNext \/ FilterStep
  PROVE  Counted /\ FilterFrame
  <1>1. CASE AddRepo \/ FilterSettled  BY <1>1 DEF AddRepo, FilterSettled, Counted, budget
  <1>2. ASSUME NEW o \in Orgs, SaveFilter(o)  PROVE Counted /\ FilterFrame
    BY <1>2 DEF SaveFilter, Counted
  <1>3. ASSUME NEW a, PutFilter(a)  PROVE Counted /\ FilterFrame
    BY <1>3 DEF PutFilter, Counted
  <1>4. CASE FilterStep  BY <1>4 DEF FilterStep, Counted
  <1> QED  BY <1>1, <1>2, <1>3, <1>4 DEF FilterNext

LEMMA NoteKeeps ==
  ASSUME NoteNext \/ NoteStep
  PROVE  Counted /\ NoteFrame
  <1>1. CASE PickAllNotes \/ MarkPicked \/ PollNotes
    BY <1>1 DEF PickAllNotes, MarkPicked, PollNotes, Counted, budget
  <1>2. ASSUME NEW id \in Ids, Notified(id) \/ PickNote(id) \/ OpenNote(id)  PROVE Counted /\ NoteFrame
    BY <1>2 DEF Notified, PickNote, OpenNote, Counted
  <1>3. ASSUME NEW ids \in reading, NotesRead(ids) \/ ReadFailed(ids)  PROVE Counted /\ NoteFrame
    BY <1>3 DEF NotesRead, ReadFailed, Counted, budget
  <1>4. CASE NoteStep  BY <1>4 DEF NoteStep, Counted
  <1> QED  BY <1>1, <1>2, <1>3, <1>4 DEF NoteNext

LEMMA SessionKeeps ==
  ASSUME TmuxNext \/ TmuxStep
  PROVE  Counted /\ TmuxFrame
  <1>1. CASE Prefetch \/ StartSelecting \/ StopSelecting \/ PickAllSessions \/ ConfirmKill
    BY <1>1 DEF Prefetch, StartSelecting, StopSelecting, PickAllSessions, ConfirmKill, Counted
  <1>2. ASSUME NEW p \in TmuxPRs, SessionExits(p) \/ SessionOpened(p) \/ SessionReaped(p) \/ PickSession(p)
        PROVE  Counted /\ TmuxFrame
    BY <1>2 DEF SessionExits, SessionOpened, SessionReaped, PickSession, Counted
  <1>3. ASSUME NEW gone, NEW answer, DeleteRows(gone, answer)  PROVE Counted /\ TmuxFrame
    BY <1>3 DEF DeleteRows, Counted
  <1>4. CASE KillStep
    BY <1>3, <1>4 DEF KillStep, KillSessions, KillRefused, KillAnswered, KillEnds, Counted, budget
  <1>5. CASE TmuxStep  BY <1>5 DEF TmuxStep, Counted
  <1> QED  BY <1>1, <1>2, <1>4, <1>5 DEF TmuxNext

LEMMA TextKept ==
  ASSUME TextTypeOK, UNCHANGED textVars
  PROVE  TextTypeOK'
  BY DEF TextTypeOK, textVars, themeVars, highlightVars, imageVars

LEMMA NotesKept ==
  ASSUME AnnTyped, AnnInv, UNCHANGED annVars
  PROVE  AnnTyped' /\ AnnInv'
  BY DEF AnnTyped, AnnInv, Threads, annVars, diffVars

-----------------------------------------------------------------------------
(* The invariant *)

ListInv == RunInv /\ DashInv /\ RecentInv /\ FilterInv /\ NoteInv /\ SessionInv /\ Bounded
Inv ==
  /\ view \in {"dashboard", "notifications", "tmux", "comments", "diff"}
  /\ TextTypeOK /\ AnnTyped /\ AnnInv /\ ListInv

LEMMA ListKept ==
  ASSUME ListInv, UNCHANGED listVars
  PROVE  ListInv'
  <1>1. UNCHANGED <<serverVars, streamVars, dashVars, filterVars, noteVars, tmuxVars, acts, faults>>
    BY DEF listVars, budget
  <1>2. UNCHANGED <<run, rows, hidden, unread, sessionVars, stream, pending, byKey>>  BY <1>1 DEF serverVars, streamVars
  <1>3. acts \in Nat /\ acts <= acts  BY ListsAssumption DEF ListInv, Bounded
  <1>4. RunInv'  BY <1>1, <1>2, <1>3, RunKept DEF ListInv
  <1>5. DashInv'
    <2>1. pending' \in [PRs -> Shown]  BY <1>2 DEF ListInv, DashInv
    <2> QED  BY <1>1, <1>2, <2>1, DashKept DEF ListInv
  <1>6. RecentInv' /\ FilterInv'  BY <1>1, <1>2, RecentKept DEF ListInv
  <1>7. NoteInv' /\ SessionInv'  BY <1>1, <1>2, NoteKept, SessionKept DEF ListInv
  <1> QED  BY <1>1, <1>4, <1>5, <1>6, <1>7 DEF ListInv, Bounded

LEMMA InitInv ==
  ASSUME Init
  PROVE  Inv
  <1>1. /\ view \in DOMAIN FirstShown /\ TextInit /\ AnnInit
        /\ run = [p \in PRs |-> "none"] /\ rows \in {<<p>> : p \in PRs}
        /\ hidden = {} /\ unread = Ids /\ live = TmuxPRs /\ stored = TmuxPRs /\ deleted = {}
        /\ stream = "open" /\ pending = [p \in PRs |-> "none"] /\ byKey = pending
        /\ page = 0 /\ behind = 0 /\ told = 0
        /\ saving = NoSave /\ tainted = {} /\ notesPicked = {} /\ reading = {}
        /\ selecting \in BOOLEAN /\ killPicked = {} /\ killing = NoKill /\ killError = FALSE
        /\ acts = 0 /\ faults = 0
    BY DEF Init
  <1> DEFINE Ask(first, what, data) == IF what = first THEN Fetch(Unasked) ELSE SetData(Unasked, data)
  <1>2. PICK first \in FirstShown[view] \cup {"none"} :
           /\ history = [k \in Pages |-> IF k = 0 THEN Ask(first, "history", HistoryAnswer(0)) ELSE Unasked]
           /\ recent = Ask(first, "recent", hidden) /\ filter = Ask(first, "filter", hidden)
           /\ notes = Ask(first, "notes", unread) /\ tmux = Ask(first, "tmux", stored)
    BY DEF Init
  <1>3. view \in {"dashboard", "notifications", "tmux", "comments", "diff"}  BY <1>1 DEF FirstShown
  <1>4. TextTypeOK
    <2>1. /\ theme = DefaultTheme /\ loadingTheme = TRUE
          /\ hasHighlighter = FALSE /\ langs = {} /\ themes = {} /\ requested = {} /\ unavailable = {}
          /\ code = [x \in Texts |-> "closed"] /\ slot = [x \in Texts |-> "closed"]
          /\ images = {} /\ fetching = {} /\ textActs = 0 /\ textFaults = 0
      BY <1>1 DEF TextInit
    <2>2. code \in [Texts -> {"closed", "plain"} \cup Themes]  BY <2>1
    <2>3. slot \in [Texts -> {"closed", "skeleton", "image", "raw"}]  BY <2>1
    <2>4. textActs \in 0..MaxTextActs /\ textFaults \in 0..MaxTextFaults  BY <2>1, MarkdownAssumption
    <2>5. images \subseteq Urls /\ fetching \subseteq Urls \ images  BY <2>1
    <2>6. theme \in Themes /\ loadingTheme \in BOOLEAN /\ hasHighlighter \in BOOLEAN  BY <2>1, MarkdownAssumption
    <2>7. langs \subseteq Langs /\ themes \subseteq Themes /\ requested \subseteq Pairs /\ unavailable \subseteq Pairs
      BY <2>1
    <2> QED  BY <2>2, <2>3, <2>4, <2>5, <2>6, <2>7 DEF TextTypeOK
  <1>5. AnnTyped /\ AnnInv
    <2>1. CommentsAsked(comments)
      <3>1. Asked(Unasked, Answers)  BY NoDataIs, UnaskedIs
      <3> QED  BY <1>1, <3>1 DEF AnnInit, CommentsAsked
    <2>2. built \in Views(0)
      <3> DEFINE shown == [f \in Names |-> <<>>]
      <3>1. shown \in [Names -> Seq(AllKeys)]  OBVIOUS
      <3>2. built = [of |-> NoView, shown |-> shown, under |-> 0]  BY <1>1 DEF AnnInit
      <3> HIDE DEF shown
      <3> QED  BY <3>1, <3>2 DEF Views
    <2>3. patches \in [DiffPRs -> {"none", "loading", "ready", "failed"}]  BY <1>1 DEF AnnInit
    <2>4. /\ at \in DiffPRs /\ posted \in [DiffPRs -> Answers] /\ rendered = FALSE /\ highlights = 0
          /\ highlightSeen = 0 /\ noteActs = 0 /\ noteFaults = 0
      BY <1>1 DEF AnnInit
    <2>5. noteActs \in 0..MaxNoteActs /\ noteFaults \in 0..MaxNoteFaults  BY <2>4, AnnotationsAssumption
    <2>6. built \in Views(noteActs)  BY <2>2, <2>4
    <2>7. highlights \in 0..noteActs /\ highlightSeen \in 0..noteActs
      <3>1. highlights = 0 /\ highlightSeen = 0 /\ noteActs = 0  BY <2>4
      <3> QED  BY <3>1
    <2>8. rendered \in BOOLEAN  BY <2>4
    <2> QED  BY <2>1, <2>3, <2>4, <2>5, <2>6, <2>7, <2>8 DEF AnnTyped, AnnInv
  <1>6. RunInv
    <2>1. Busy = {}  BY <1>1 DEF Busy
    <2>2. IsFiniteSet(Busy) /\ Cardinality(Busy) = 0  BY <2>1, FS_EmptySet
    <2>3. rows \in Seq(PRs) /\ Len(rows) = 1
      <3>1. PICK p \in PRs : rows = <<p>>  BY <1>1
      <3> QED  BY <3>1
    <2>4. run \in [PRs -> Run]  BY <1>1 DEF Run
    <2> QED  BY <1>1, <2>2, <2>3, <2>4 DEF RunInv
  <1>7. Bounded  BY <1>1, ListsAssumption DEF Bounded
  <1>8. \A D : NoData \notin D => Asked(Fetch(Unasked), D) /\ \A d \in D : Asked(SetData(Unasked, d), D)
    <2> SUFFICES ASSUME NEW D, NoData \notin D
                 PROVE  Asked(Fetch(Unasked), D) /\ \A d \in D : Asked(SetData(Unasked, d), D)
      OBVIOUS
    <2>1. Asked(Unasked, D)  BY UnaskedIs
    <2> QED  BY <2>1, QueryOps
  <1>9. /\ Asked(recent, SUBSET Orgs) /\ Asked(filter, SUBSET Orgs)
        /\ Asked(notes, SUBSET Ids) /\ Asked(tmux, SUBSET TmuxPRs)
    <2>1. hidden \in SUBSET Orgs /\ unread \in SUBSET Ids /\ stored \in SUBSET TmuxPRs  BY <1>1
    <2> QED  BY <1>2, <1>8, <2>1, NoDataIs
  <1>10. DashInv
    <2>1. 0 \in Pages /\ 0 \in 0..MaxRows  BY ListsAssumption DEF MaxRows
    <2>2. HistoryAnswer(0) \in HistoryPage  BY <1>6, <1>7, <2>1, HistoryAnswerIs
    <2>3. Asked(Ask(first, "history", HistoryAnswer(0)), HistoryPage)  BY <1>8, <2>2, NoDataIs
    <2>4. Asked(Unasked, HistoryPage)  BY NoDataIs, UnaskedIs
    <2> DEFINE q == Ask(first, "history", HistoryAnswer(0))
    <2>5. Asked(q, HistoryPage) /\ history = [k \in Pages |-> IF k = 0 THEN q ELSE Unasked]  BY <1>2, <2>3
    <2> HIDE DEF q, Ask
    <2>6. DOMAIN history = Pages /\ \A k \in Pages : history[k] = IF k = 0 THEN q ELSE Unasked  BY <2>5
    <2>7. history = [k \in Pages |-> history[k]]  BY <2>5
    <2>8. \A k \in Pages : Asked(history[k], HistoryPage)  BY <2>4, <2>5, <2>6
    <2>9. pending \in [PRs -> Shown] /\ byKey \in [PRs -> Shown]  BY <1>1 DEF Shown
    <2> QED  BY <1>1, <2>1, <2>6, <2>7, <2>8, <2>9 DEF DashInv
  <1>11. saving \in Save  BY <1>1 DEF NoSave, Save
  <1>12. RecentInv  BY <1>1, <1>9, <1>11 DEF RecentInv
  <1>13. FilterInv
    <2>1. saving.phase = "none"  BY <1>1 DEF NoSave
    <2>2. recent \in {Fetch(Unasked), SetData(Unasked, hidden)} /\ filter \in {Fetch(Unasked), SetData(Unasked, hidden)}
      BY <1>2
    <2>3. \A q \in {Fetch(Unasked), SetData(Unasked, hidden)} :
            /\ (q.loaded => q.data = hidden) /\ q.flight # "read"
      BY DEF Fetch, SetData, Unasked, Idle
    <2> QED  BY <2>1, <2>2, <2>3 DEF FilterInv, FilterKept, ListFollows, Current
  <1>14. NoteInv /\ SessionInv
    <2>1. killing \in Kill /\ killing.phase = "none"  BY <1>1 DEF NoKill, Kill
    <2>2. tmux.flight # "read"
      <3>1. tmux \in {Fetch(Unasked), SetData(Unasked, stored)}  BY <1>2
      <3> QED  BY <3>1 DEF Fetch, SetData, Unasked, Idle
    <2>3. DeletedInv  BY <1>1, <2>1, <2>2 DEF DeletedInv
    <2> QED  BY <1>1, <1>9, <2>1, <2>3 DEF NoteInv, SessionInv, SessionTyped
  <1> QED  BY <1>3, <1>4, <1>5, <1>6, <1>7, <1>10, <1>12, <1>13, <1>14 DEF Inv, ListInv

LEMMA DashboardStep ==
  ASSUME ListInv, Dashboard
  PROVE  ListInv'
  <1>0. RunInv /\ DashInv /\ RecentInv /\ FilterInv /\ NoteInv /\ SessionInv /\ Bounded  BY DEF ListInv
  <1>1. Counted => Bounded' /\ acts \in Nat /\ acts' \in Nat /\ acts <= acts'
    BY <1>0, BudgetIs DEF Counted
  <1>2. CASE RunNext
    <2>1. /\ Counted
          /\ UNCHANGED <<hidden, unread, sessionVars, stream, byKey, dashVars, filterVars, noteVars, tmuxVars>>
      BY <1>2, RunFrame
    <2>2. RunInv' /\ pending' \in [PRs -> Shown]  BY <1>0, <1>2, RunStep
    <2>3. DashInv'  BY <1>0, <2>1, <2>2, DashKept
    <2>4. RecentInv' /\ FilterInv'  BY <1>0, <2>1, RecentKept
    <2>5. NoteInv' /\ SessionInv'  BY <1>0, <2>1, NoteKept, SessionKept
    <2> QED  BY <1>1, <2>1, <2>2, <2>3, <2>4, <2>5 DEF ListInv
  <1>3. CASE StreamNext
    <2>1. /\ Counted /\ UNCHANGED <<run, rows, hidden, unread, sessionVars, filter, saving, tainted, noteVars, tmuxVars>>
          /\ recent' = recent \/ recent' = Invalidate(recent, TRUE)
      BY <1>3, StreamFrame DEF serverVars
    <2>2. RunInv'  BY <1>0, <1>1, <2>1, RunKept
    <2>3. DashInv'  BY <1>0, <1>3, StreamStep
    <2>4. RecentInv' /\ FilterInv'  BY <1>0, <2>1, RecentKept, RecentInvalidated DEF filterVars
    <2>5. NoteInv' /\ SessionInv'  BY <1>0, <2>1, NoteKept, SessionKept
    <2> QED  BY <1>1, <2>1, <2>2, <2>3, <2>4, <2>5 DEF ListInv
  <1>4. CASE PagerNext \/ HistoryStep
    <2>1. /\ Counted /\ UNCHANGED <<run, rows, hidden, unread, sessionVars, filterVars, noteVars, tmuxVars>>
      BY <1>4, PagerFrame DEF serverVars
    <2>2. RunInv'  BY <1>0, <1>1, <2>1, RunKept
    <2>3. DashInv'  BY <1>0, <1>4, PagerStep
    <2>4. RecentInv' /\ FilterInv'  BY <1>0, <2>1, RecentKept
    <2>5. NoteInv' /\ SessionInv'  BY <1>0, <2>1, NoteKept, SessionKept
    <2> QED  BY <1>1, <2>1, <2>2, <2>3, <2>4, <2>5 DEF ListInv
  <1>5. CASE FilterNext \/ FilterStep
    <2>1. /\ Counted /\ UNCHANGED <<run, rows, unread, sessionVars, stream, pending, byKey, dashVars, noteVars, tmuxVars>>
      BY <1>5, FilterKeeps DEF FilterFrame, streamVars
    <2>2. RunInv'  BY <1>0, <1>1, <2>1, RunKept
    <2>3. DashInv'
      <3>1. pending' \in [PRs -> Shown]  BY <1>0, <2>1 DEF DashInv
      <3> QED  BY <1>0, <2>1, <3>1, DashKept
    <2>4. RecentInv' /\ FilterInv'  BY <1>0, <1>5, RecentStep
    <2>5. NoteInv' /\ SessionInv'  BY <1>0, <2>1, NoteKept, SessionKept
    <2> QED  BY <1>1, <2>1, <2>2, <2>3, <2>4, <2>5 DEF ListInv
  <1> QED  BY <1>2, <1>3, <1>4, <1>5 DEF Dashboard

LEMMA NotificationsStep ==
  ASSUME ListInv, NoteNext \/ NoteStep
  PROVE  ListInv'
  <1>0. RunInv /\ DashInv /\ RecentInv /\ FilterInv /\ NoteInv /\ SessionInv /\ Bounded  BY DEF ListInv
  <1>1. /\ Counted /\ UNCHANGED <<run, rows, hidden, sessionVars, stream, pending, byKey, dashVars, filterVars, tmuxVars>>
    BY NoteKeeps DEF NoteFrame, streamVars
  <1>2. Bounded' /\ acts \in Nat /\ acts' \in Nat /\ acts <= acts'  BY <1>0, <1>1, BudgetIs DEF Counted
  <1>3. RunInv'  BY <1>0, <1>1, <1>2, RunKept
  <1>4. DashInv'
    <2>1. pending' \in [PRs -> Shown]  BY <1>0, <1>1 DEF DashInv
    <2> QED  BY <1>0, <1>1, <2>1, DashKept
  <1>5. RecentInv' /\ FilterInv' /\ SessionInv'  BY <1>0, <1>1, RecentKept, SessionKept
  <1>6. NoteInv'  BY <1>0, NoteStepOK
  <1> QED  BY <1>2, <1>3, <1>4, <1>5, <1>6 DEF ListInv

LEMMA TmuxViewStep ==
  ASSUME ListInv, TmuxNext \/ TmuxStep
  PROVE  ListInv'
  <1>0. RunInv /\ DashInv /\ RecentInv /\ FilterInv /\ NoteInv /\ SessionInv /\ Bounded  BY DEF ListInv
  <1>1. /\ Counted /\ UNCHANGED <<run, rows, hidden, unread, stream, pending, byKey, dashVars, filterVars, noteVars>>
    BY SessionKeeps DEF TmuxFrame, streamVars
  <1>2. Bounded' /\ acts \in Nat /\ acts' \in Nat /\ acts <= acts'  BY <1>0, <1>1, BudgetIs DEF Counted
  <1>3. RunInv'  BY <1>0, <1>1, <1>2, RunKept
  <1>4. DashInv'
    <2>1. pending' \in [PRs -> Shown]  BY <1>0, <1>1 DEF DashInv
    <2> QED  BY <1>0, <1>1, <2>1, DashKept
  <1>5. RecentInv' /\ FilterInv' /\ NoteInv'  BY <1>0, <1>1, RecentKept, NoteKept
  <1>6. SessionInv'  BY <1>0, SessionStepOK
  <1> QED  BY <1>2, <1>3, <1>4, <1>5, <1>6 DEF ListInv

LEMMA Invariance == Spec => []Inv
  <1>1. Init => Inv  BY InitInv
  <1>2. Inv /\ [Next]_vars => Inv'
    <2> SUFFICES ASSUME Inv, [Next]_vars PROVE Inv'
      OBVIOUS
    <2>0. /\ view \in {"dashboard", "notifications", "tmux", "comments", "diff"}
          /\ TextTypeOK /\ AnnTyped /\ AnnInv /\ ListInv
      BY DEF Inv
    <2>1. ASSUME NEW v, In(v), ListInv'  PROVE Inv'
      BY <2>0, <2>1, TextKept, NotesKept DEF In, Inv
    <2>2. CASE In("dashboard") /\ Dashboard  BY <2>0, <2>1, <2>2, DashboardStep
    <2>3. CASE In("notifications") /\ (NoteNext \/ NoteStep)  BY <2>0, <2>1, <2>3, NotificationsStep
    <2>4. CASE In("tmux") /\ (TmuxNext \/ TmuxStep)  BY <2>0, <2>1, <2>4, TmuxViewStep
    <2>5. CASE TextNext /\ UNCHANGED <<view, listVars, annVars>>
      BY <2>0, <2>5, TextStep, ListKept, NotesKept DEF Inv
    <2>6. CASE AnnNext /\ UNCHANGED <<view, listVars, textVars>>
      BY <2>0, <2>6, AnnStep, ListKept, TextKept DEF Inv
    <2>7. CASE UNCHANGED vars
      BY <2>0, <2>7, ListKept, TextKept, NotesKept DEF Inv, vars
    <2> QED  BY <2>2, <2>3, <2>4, <2>5, <2>6, <2>7 DEF Next
  <1> QED  BY <1>1, <1>2, PTL DEF Spec

-----------------------------------------------------------------------------
(* The theorems *)

LEMMA AskedQuery ==
  ASSUME NEW q, NEW D, Asked(q, D)
  PROVE  q \in Query(D)
  BY DEF Asked

LEMMA Typed ==
  ASSUME Inv
  PROVE  TypeOK
  <1>1. /\ TextTypeOK /\ AnnTyped /\ RunInv /\ DashInv /\ RecentInv /\ NoteInv /\ SessionInv /\ Bounded
        /\ view \in {"dashboard", "notifications", "tmux", "comments", "diff"}
    BY DEF Inv, ListInv
  <1>2. AnnTypeOK
    <2>1. noteActs \in Nat /\ MaxNoteActs \in Nat /\ noteActs <= MaxNoteActs
      BY <1>1, AnnotationsAssumption DEF AnnTyped
    <2>2. /\ Views(noteActs) \subseteq Views(MaxNoteActs) /\ 0..noteActs \subseteq 0..MaxNoteActs
      BY <2>1, ViewsGrow
    <2>3. /\ built \in Views(MaxNoteActs) /\ highlights \in 0..MaxNoteActs /\ highlightSeen \in 0..MaxNoteActs
      BY <1>1, <2>2 DEF AnnTyped
    <2>4. comments \in [DiffPRs -> Query(Answers)]
      <3>1. \A p \in DiffPRs : comments[p] \in Query(Answers)  BY <1>1, AskedQuery DEF AnnTyped, CommentsAsked
      <3>2. comments = [p \in DiffPRs |-> comments[p]]  BY <1>1 DEF AnnTyped, CommentsAsked
      <3> DEFINE D == Query(Answers)
      <3> HIDE DEF D
      <3>3. \A p \in DiffPRs : comments[p] \in D  BY <3>1 DEF D
      <3>4. comments \in [DiffPRs -> D]  BY <3>2, <3>3
      <3> QED  BY <3>4 DEF D
    <2>5. built \in [of : DiffPRs \cup {NoView}, shown : [Names -> Seq(AllKeys)], under : 0..MaxNoteActs]
      BY <2>3 DEF Views
    <2> QED  BY <1>1, <2>3, <2>4, <2>5 DEF AnnTyped, AnnTypeOK
  <1>3. rows \in Seq(PRs) /\ Len(rows) <= MaxRows
    <2>1. rows \in Seq(PRs) /\ Len(rows) \in 0..MaxRows /\ MaxRows \in Nat  BY <1>1, RowsBounded
    <2> QED  BY <2>1
  <1>4. history \in [Pages -> Query(HistoryPage)]
    <2>1. \A k \in Pages : history[k] \in Query(HistoryPage)  BY <1>1, AskedQuery DEF DashInv
    <2>2. history = [k \in Pages |-> history[k]]  BY <1>1 DEF DashInv
    <2> DEFINE D == Query(HistoryPage)
    <2> HIDE DEF D
    <2>3. \A k \in Pages : history[k] \in D  BY <2>1 DEF D
    <2>4. history \in [Pages -> D]  BY <2>2, <2>3
    <2> QED  BY <2>4 DEF D
  <1>5. /\ recent \in Query(SUBSET Orgs) /\ filter \in Query(SUBSET Orgs)
        /\ notes \in Query(SUBSET Ids) /\ tmux \in Query(SUBSET TmuxPRs)
    BY <1>1, AskedQuery DEF RecentInv, NoteInv, SessionInv, SessionTyped
  <1> QED
    BY <1>1, <1>2, <1>3, <1>4, <1>5 DEF TypeOK, RunInv, DashInv, RecentInv, NoteInv, SessionInv, SessionTyped, Bounded

\* The lists, the rendered texts and the annotations stay well typed, and the history within the
\* rows that runs can have written.  Lists.tla, Markdown.tla, Annotations.tla.
THEOREM ListsTyped == Spec => []TypeOK
  <1>1. Inv => TypeOK  BY Typed
  <1> QED  BY <1>1, Invariance, PTL

\* When all has settled the filter that is shown is the server's, unless it was toggled before it
\* was there, an answer of the PUT was lost, or a repository was added during a save; and the
\* list of recent pull requests is the one under that filter, unless a save settled while the
\* answer to the list's first request was under way.  useSaveRecentPRFilter, queries/index.ts.
THEOREM FilterSettlesOnTheServers == Spec => []FilterSettles
  <1>1. Inv => FilterSettles
    BY DEF Inv, ListInv, FilterInv, FilterKept, ListFollows, FilterSettles, Current
  <1> QED  BY <1>1, Invariance, PTL

\* A row of the tmux list that a call has deleted, and has said so, is not listed once the call
\* is over, whatever requests were under way or failed, unless it is stored again.
\* useCleanupTmux, TmuxPanel.
THEOREM DeletedRowsLeave == Spec => []KilledLeave
  <1>1. Inv => KilledLeave
    BY DEF Inv, ListInv, SessionInv, DeletedInv, KilledLeave
  <1> QED  BY <1>1, Invariance, PTL

\* Each diff that is rendered has, on every file whose name has no colon and to which no other
\* name is cut, one annotation for each place the notes of people name in it, and no other.
\* annotationsByFile and the effects of DiffView.
ColonsApart == \A g \in DOMAIN UpToColon : UpToColon[g] \in Names => UpToColon[g] = g

THEOREM AnnotationsAreTheNotes ==
  ASSUME ColonsApart
  PROVE  Spec => []AnnotationsPlaced
  <1>1. Inv => AnnotationsPlaced
    <2> SUFFICES ASSUME Inv, rendered
                 PROVE  /\ built.of = at /\ built.under = highlights
                        /\ \A f \in FilesOf[at] :
                             UpToColon[f] = f =>
                               /\ Range(built.shown[f]) =
                                    {Key(n) : n \in {m \in UNION {Range(t.notes) : t \in {u \in Range(Threads(comments, at)) : ~u.bot}} :
                                                       m.file = f /\ ~m.outdated}}
                               /\ IsInjective(built.shown[f])
      BY DEF AnnotationsPlaced
    <2>1. /\ built.of = at /\ built.under = highlights /\ at \in DiffPRs
          /\ \A f \in FilesOf[at] : built.shown[f] = ByFile[Threads(comments, at)][f]
      BY DEF Inv, AnnInv, AnnTyped
    <2> DEFINE threads == Threads(comments, at)
    <2>2. threads \in Answers \cup {<<>>}
      <3>1. Asked(comments[at], Answers)  BY <2>1 DEF Inv, AnnTyped, CommentsAsked
      <3> QED  BY <3>1, ThreadsAre
    <2> HIDE DEF threads
    <2>3. ASSUME NEW f \in FilesOf[at], UpToColon[f] = f
          PROVE  /\ Range(built.shown[f]) =
                      {Key(n) : n \in {m \in UNION {Range(t.notes) : t \in {u \in Range(threads) : ~u.bot}} :
                                         m.file = f /\ ~m.outdated}}
                 /\ IsInjective(built.shown[f])
      <3> DEFINE S == UNION {Range(t.notes) : t \in {u \in Range(threads) : ~u.bot}}
      <3>1. f \in Names  BY <2>1, FilesAreNames
      <3>2. /\ IsInjective(ByFile[threads][f])
            /\ Range(ByFile[threads][f]) = {Key(n) : n \in {m \in S : Anchored(m) /\ UpToColon[m.file] = f}}
        BY <2>2, <3>1, ByFileIs
      <3>3. S \subseteq Note
        <4>1. threads \in Seq(Thread)
          <5>1. <<>> \in Seq(Thread)  OBVIOUS
          <5>2. Answers \subseteq Seq(Thread)  BY AnnotationsAssumption
          <5> HIDE DEF Thread
          <5> QED  BY <2>2, <5>1, <5>2
        <4>2. /\ Notes(threads) \in Seq(Note) /\ Range(Notes(threads)) = S  BY <4>1, NotesAre
        <4> HIDE DEF S
        <4> QED  BY <4>2, RangeOfSeq
      <3> HIDE DEF S
      <3>4. \A m \in S : Anchored(m) /\ UpToColon[m.file] = f <=> m.file = f /\ ~m.outdated
        <4>1. \A m \in S : m.file \in DOMAIN UpToColon  BY <3>3 DEF Note
        <4> QED  BY <2>3, <3>1, <4>1 DEF Anchored, ColonsApart
      <3>5. {m \in S : Anchored(m) /\ UpToColon[m.file] = f} = {m \in S : m.file = f /\ ~m.outdated}  BY <3>4
      <3>6. built.shown[f] = ByFile[threads][f]  BY <2>1 DEF threads
      <3> QED  BY <3>2, <3>5, <3>6 DEF S
    <2> QED  BY <2>1, <2>3 DEF threads
  <1> QED  BY <1>1, Invariance, PTL
=============================================================================
