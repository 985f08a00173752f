--------------------------- MODULE PRDetailProofs ---------------------------
(***************************************************************************)
(* For any diffs, queries and targets: the search finds the occurrences in *)
(* the numbered lines of the diff, what is rendered is of the page, and    *)
(* the search and the link to GitHub show what they stand for.             *)
(***************************************************************************)
EXTENDS PRDetail, SequenceTheorems, WellFoundedInduction, TLAPS

-----------------------------------------------------------------------------
(* Induction over the numbers up to a bound, and what the community's folds are *)

\* A set of numbers has a least one.
LEMMA Least ==
  ASSUME NEW T \in SUBSET Nat, T # {}
  PROVE  \E x \in T : \A y \in T : x <= y
  <1>1. \E x \in T : \A y \in T : ~(<<y, x>> \in OpToRel(<, Nat))
    BY WFMin, NatLessThanWellFounded
  <1>2. \A x, y \in Nat : y < x => <<y, x>> \in OpToRel(<, Nat)
    BY DEF OpToRel
  <1>3. PICK x \in T : \A y \in T : ~(<<y, x>> \in OpToRel(<, Nat))  BY <1>1
  <1>4. ASSUME NEW y \in T  PROVE x <= y
    <2>1. x \in Nat /\ y \in Nat /\ ~(y < x)  BY <1>2, <1>3
    <2> QED  BY <2>1
  <1> QED  BY <1>3, <1>4

\* Induction up to a bound, over a set in place of a predicate.
LEMMA UpTo ==
  ASSUME NEW n \in Nat, NEW T, 0 \in T, \A k \in 0..(n-1) : k \in T => k + 1 \in T
  PROVE  0..n \subseteq T
  <1> DEFINE Bad == {k \in 0..n : k \notin T}
  <1> SUFFICES ASSUME Bad # {} PROVE FALSE
    OBVIOUS
  <1>1. PICK x \in Bad : \A y \in Bad : x <= y
    <2>1. Bad \in SUBSET Nat  OBVIOUS
    <2> HIDE DEF Bad
    <2> QED  BY <2>1, Least
  <1>2. x \in 0..n /\ x # 0 /\ x - 1 \in 0..(n-1) /\ x - 1 \notin Bad
    BY <1>1
  <1>3. x - 1 \in T
    BY <1>2
  <1>4. (x - 1) + 1 \in T
    BY <1>2, <1>3
  <1> QED  BY <1>1, <1>2, <1>4

LEMMA FlattenIs ==
  ASSUME NEW S, NEW ss \in Seq(Seq(S))
  PROVE  /\ FlattenSeq(ss) \in Seq(S)
         /\ Range(FlattenSeq(ss)) = UNION {Range(ss[i]) : i \in DOMAIN ss}
  <1> DEFINE n == Len(ss)
             Good(f, k) == f = [i \in 1..k |-> IF i = 1 THEN ss[i] ELSE f[i-1] \o ss[i]]
             flatten == CHOOSE f : Good(f, n)
  <1>0. n \in Nat /\ DOMAIN ss = 1..n /\ \A i \in 1..n : ss[i] \in Seq(S)
    OBVIOUS
  <1>1. CASE n = 0
    <2>1. ss = <<>> /\ DOMAIN ss = {}  BY <1>1, <1>0
    <2>2. FlattenSeq(ss) = <<>>  BY <2>1 DEF FlattenSeq
    <2>3. Range(<<>>) = {} /\ <<>> \in Seq(S)  BY DEF Range
    <2>4. UNION {Range(ss[i]) : i \in DOMAIN ss} = {}  BY <2>1
    <2> QED  BY <2>2, <2>3, <2>4
  <1>2. CASE n # 0
    <2>1. FlattenSeq(ss) = flatten[n]
      BY <1>2 DEF FlattenSeq
    <2>2. \E f : Good(f, n)
      <3> DEFINE T == {k \in Nat : k <= n => \E f : Good(f, k)}
      <3>1. 0 \in T
        <4>1. Good(<<>>, 0)  OBVIOUS
        <4> QED  BY <4>1
      <3>2. ASSUME NEW k \in 0..(n-1), k \in T  PROVE k + 1 \in T
        <4>1. k \in Nat /\ k <= n  BY <1>0
        <4>2. PICK f : Good(f, k)  BY <3>2, <4>1
        <4> DEFINE g == [i \in 1..(k + 1) |-> IF i <= k THEN f[i] ELSE IF i = 1 THEN ss[i] ELSE f[k] \o ss[i]]
        <4>3. \A i \in 1..(k + 1) : g[i] = IF i = 1 THEN ss[i] ELSE g[i-1] \o ss[i]
          <5> TAKE i \in 1..(k + 1)
          <5>1. CASE i <= k
            <6>0. i \in 1..k  BY <4>1, <5>1
            <6>1. f[i] = IF i = 1 THEN ss[i] ELSE f[i-1] \o ss[i]
              <7> DEFINE G(j) == IF j = 1 THEN ss[j] ELSE f[j-1] \o ss[j]
              <7>1. f = [j \in 1..k |-> G(j)]  BY <4>2
              <7> HIDE DEF G
              <7>2. f[i] = G(i)  BY <6>0, <7>1
              <7> QED  BY <7>2 DEF G
            <6>2. i # 1 => g[i-1] = f[i-1]  BY <4>1, <5>1
            <6>3. g[i] = f[i]  BY <5>1
            <6> QED  BY <6>1, <6>2, <6>3
          <5>2. CASE i = k + 1
            <6>1. g[i] = IF i = 1 THEN ss[i] ELSE f[k] \o ss[i]  BY <4>1, <5>2
            <6>2. i # 1 => g[i-1] = f[k]  BY <4>1, <5>2
            <6> QED  BY <6>1, <6>2
          <5> QED  BY <4>1, <5>1, <5>2
        <4>4. g = [i \in 1..(k+1) |-> IF i = 1 THEN ss[i] ELSE g[i-1] \o ss[i]]
          <5> DEFINE h == [i \in 1..(k+1) |-> IF i = 1 THEN ss[i] ELSE g[i-1] \o ss[i]]
          <5>1. DOMAIN g = 1..(k+1) /\ DOMAIN h = 1..(k+1) /\ \A i \in 1..(k+1) : g[i] = h[i]
            BY <4>3
          <5>2. g = [i \in 1..(k+1) |-> g[i]] /\ h = [i \in 1..(k+1) |-> h[i]]
            OBVIOUS
          <5> HIDE DEF g, h
          <5> QED  BY <5>1, <5>2 DEF h
        <4>5. Good(g, k + 1)  BY <4>4
        <4> HIDE DEF g, Good
        <4> QED  BY <4>1, <4>5
      <3> HIDE DEF T
      <3>3. 0..n \subseteq T  BY <1>0, <3>1, <3>2, UpTo
      <3>4. n \in T  BY <1>0, <3>3
      <3> HIDE DEF Good
      <3> QED  BY <1>0, <3>4 DEF T
    <2>3. Good(flatten, n)  BY <2>2
    <2> HIDE DEF flatten
    <2> DEFINE U == {k \in Nat : k \in 1..n => /\ flatten[k] \in Seq(S)
                                             /\ Range(flatten[k]) = UNION {Range(ss[i]) : i \in 1..k}}
    <2>4. 0 \in U  OBVIOUS
    <2>5. ASSUME NEW k \in 0..(n-1), k \in U  PROVE k + 1 \in U
      <3>1. k \in Nat /\ k + 1 \in 1..n /\ k + 1 \in Nat  BY <1>0
      <3>2. CASE k = 0
        <4>1. flatten[k + 1] = ss[1]  BY <2>3, <3>1, <3>2
        <4>2. UNION {Range(ss[i]) : i \in 1..1} = Range(ss[1])  OBVIOUS
        <4> QED  BY <1>0, <3>1, <3>2, <4>1, <4>2
      <3>3. CASE k # 0
        <4>1. k \in 1..n /\ (k + 1) - 1 = k /\ k + 1 # 1  BY <1>0, <3>1, <3>3
        <4>2. flatten[k] \in Seq(S) /\ Range(flatten[k]) = UNION {Range(ss[i]) : i \in 1..k}  BY <2>5, <4>1
        <4>3. flatten[k + 1] = flatten[k] \o ss[k + 1]  BY <2>3, <3>1, <4>1
        <4>4. ss[k + 1] \in Seq(S)  BY <1>0, <3>1
        <4>5. Range(flatten[k] \o ss[k + 1]) = Range(flatten[k]) \cup Range(ss[k + 1])  BY <4>2, <4>4, RangeConcatenation
        <4>6. 1..(k + 1) = (1..k) \cup {k + 1}  BY <3>1
        <4>7. Range(flatten[k + 1]) = UNION {Range(ss[i]) : i \in 1..(k + 1)}  BY <4>2, <4>3, <4>5, <4>6
        <4>8. flatten[k + 1] \in Seq(S)  BY <4>2, <4>3, <4>4, ConcatProperties
        <4> QED  BY <3>1, <4>7, <4>8
      <3> QED  BY <3>2, <3>3
    <2> HIDE DEF U
    <2>6. 0..n \subseteq U  BY <1>0, <2>4, <2>5, UpTo
    <2>7. n \in U /\ n \in 1..n  BY <1>0, <1>2, <2>6
    <2> QED  BY <1>0, <2>1, <2>7 DEF U
  <1> QED BY <1>1, <1>2

LEMMA MaxIs ==
  ASSUME NEW n \in Nat, NEW s \in SUBSET (1..n), s # {}
  PROVE  Max(s) \in s /\ \A y \in s : Max(s) >= y
  <1> DEFINE Above == {u \in Nat : \A y \in s : u >= y}
  <1>1. n \in Above  OBVIOUS
  <1>2. PICK b \in Above : \A u \in Above : b <= u
    <2>1. Above \in SUBSET Nat /\ Above # {}  BY <1>1
    <2> HIDE DEF Above
    <2> QED  BY <2>1, Least
  <1>3. b \in s
    <2> SUFFICES ASSUME b \notin s PROVE FALSE  OBVIOUS
    <2>1. b \in Nat /\ \A y \in s : y \in Nat /\ y <= b /\ y # b  BY <1>2
    <2>2. PICK y \in s : TRUE  OBVIOUS
    <2>3. b - 1 \in Nat /\ b - 1 < b
      <3>1. y \in Nat /\ y <= b /\ y # b  BY <2>1
      <3> QED  BY <2>1, <3>1
    <2>4. b - 1 \in Above  BY <2>1, <2>3
    <2> QED  BY <1>2, <2>1, <2>3, <2>4
  <1>4. \E x \in s : \A y \in s : x >= y  BY <1>2, <1>3
  <1> QED  BY <1>4 DEF Max

\* What a fold over n elements needs: the function on sets of indices by which it is defined.
FoldsBy(f, X, n, base, Op) ==
  /\ f \in [SUBSET (1..n) -> X]
  /\ \A s \in SUBSET (1..n) : f[s] = IF s = {} THEN base ELSE Op[<<f[s \ {Max(s)}], Max(s)>>]

LEMMA FoldExists ==
  ASSUME NEW X, NEW n \in Nat, NEW base \in X, NEW Op \in [X \X (1..n) -> X]
  PROVE  \E f : FoldsBy(f, X, n, base, Op)
  <1> DEFINE Good(f, k) == /\ f \in [SUBSET (1..k) -> X]
                           /\ \A s \in SUBSET (1..k) :
                                f[s] = IF s = {} THEN base ELSE Op[<<f[s \ {Max(s)}], Max(s)>>]
             T == {k \in Nat : k <= n => \E f : Good(f, k)}
  <1>1. 0 \in T
    <2> DEFINE f == [s \in SUBSET (1..0) |-> base]
    <2>1. \A s \in SUBSET (1..0) : s = {}  OBVIOUS
    <2>2. Good(f, 0)  BY <2>1
    <2> HIDE DEF Good, f
    <2> QED  BY <2>2
  <1>2. ASSUME NEW k \in 0..(n-1), k \in T  PROVE k + 1 \in T
    <2>1. k \in Nat /\ k <= n /\ k + 1 \in 1..n /\ 1..(k+1) = (1..k) \cup {k+1} /\ k + 1 \notin 1..k  OBVIOUS
    <2> DEFINE m == k + 1
    <2>2. PICK f : Good(f, k)
      <3> HIDE DEF Good
      <3> QED  BY <1>2, <2>1
    <2> DEFINE g == [s \in SUBSET (1..m) |-> IF m \in s THEN Op[<<f[s \ {m}], m>>] ELSE f[s]]
    <2>3. \A s \in SUBSET (1..m) : (m \in s => s \ {m} \in SUBSET (1..k)) /\ (m \notin s => s \in SUBSET (1..k))
      BY <2>1
    <2>4. f \in [SUBSET (1..k) -> X]  BY <2>2
    <2>5. g \in [SUBSET (1..m) -> X]
      <3>1. ASSUME NEW s \in SUBSET (1..m)  PROVE g[s] \in X
        <4> HIDE DEF Good
        <4>1. CASE m \in s
          <5>1. f[s \ {m}] \in X  BY <2>3, <2>4, <4>1
          <5>2. m \in 1..n  BY <2>1
          <5> HIDE DEF m
          <5> QED  BY <4>1, <5>1, <5>2
        <4>2. CASE m \notin s  BY <2>3, <2>4, <4>2
        <4> QED  BY <4>1, <4>2
      <3> HIDE DEF m, Good
      <3> QED  BY <3>1
    <2>6. ASSUME NEW s \in SUBSET (1..m)
          PROVE  g[s] = IF s = {} THEN base ELSE Op[<<g[s \ {Max(s)}], Max(s)>>]
      <3>0. m \in Nat /\ (1..k) \subseteq (1..m)  BY <2>1
      <3>1. CASE s = {}
        <4>1. s \in SUBSET (1..k) /\ m \notin s  BY <3>1
        <4>2. g[s] = f[s]  BY <4>1
        <4>3. f[s] = base  BY <2>2, <3>1, <4>1
        <4> QED  BY <3>1, <4>2, <4>3
      <3>2. CASE s # {} /\ m \in s
        <4>1. Max(s) \in s /\ Max(s) >= m
          <5> HIDE DEF m
          <5> QED  BY <3>0, <3>2, MaxIs
        <4>2. Max(s) = m
          <5> DEFINE x == Max(s)
          <5>1. x \in 1..m /\ x >= m  BY <4>1
          <5> HIDE DEF x
          <5>2. x = m  BY <3>0, <5>1
          <5> QED  BY <5>2 DEF x
        <4>3. g[s] = Op[<<f[s \ {m}], m>>]  BY <3>2
        <4>4. g[s \ {m}] = f[s \ {m}]  OBVIOUS
        <4> HIDE DEF g, m, Good
        <4> QED  BY <3>2, <4>2, <4>3, <4>4
      <3>3. CASE s # {} /\ m \notin s
        <4>1. s \in SUBSET (1..k)  BY <2>3, <3>3
        <4>2. Max(s) \in s  BY <3>3, <4>1, <2>1, MaxIs
        <4>3. g[s] = f[s] /\ g[s \ {Max(s)}] = f[s \ {Max(s)}]  BY <3>3
        <4>4. f[s] = Op[<<f[s \ {Max(s)}], Max(s)>>]  BY <2>2, <3>3, <4>1
        <4> HIDE DEF g, m, Good
        <4> QED  BY <3>3, <4>3, <4>4
      <3> QED  BY <3>1, <3>2, <3>3
    <2>7. Good(g, m)
      <3> HIDE DEF g
      <3> QED  BY <2>5, <2>6
    <2> HIDE DEF Good, g
    <2> QED  BY <2>1, <2>7
  <1> HIDE DEF T
  <1>3. 0..n \subseteq T  BY <1>1, <1>2, UpTo
  <1>4. n \in T  BY <1>3
  <1>5. \E f : Good(f, n)
    <2> HIDE DEF Good
    <2> QED  BY <1>4 DEF T
  <1>6. PICK f : Good(f, n)
    <2> HIDE DEF Good
    <2> QED  BY <1>5
  <1>7. FoldsBy(f, X, n, base, Op)  BY <1>6 DEF FoldsBy
  <1> QED  BY <1>7

\* Whatever satisfies the definition of the fold goes through the prefixes step by step.
Steps(F, X, n, base, Op) ==
  /\ F \in [0..n -> X] /\ F[0] = base
  /\ \A k \in 1..n : F[k] = Op[<<F[k - 1], k>>]

Unfolds(iter, X, n, base, Op) ==
  /\ iter[{}] = base
  /\ \A s \in SUBSET (1..n) :
       s # {} /\ iter[s \ {Max(s)}] \in X => iter[s] = Op[<<iter[s \ {Max(s)}], Max(s)>>]
FoldPrefixes(iter, n) == [k \in 0..n |-> iter[1..k]]

LEMMA FoldSteps ==
  ASSUME NEW X, NEW n \in Nat, NEW base \in X, NEW Op \in [X \X (1..n) -> X], NEW iter,
         Unfolds(iter, X, n, base, Op)
  PROVE  Steps(FoldPrefixes(iter, n), X, n, base, Op)
  <1> DEFINE T == {k \in Nat : k <= n => iter[1..k] \in X /\ (k # 0 => iter[1..k] = Op[<<iter[1..(k - 1)], k>>])}
             F == [k \in 0..n |-> iter[1..k]]
  <1>0. /\ iter[{}] = base
        /\ \A s \in SUBSET (1..n) :
             s # {} /\ iter[s \ {Max(s)}] \in X => iter[s] = Op[<<iter[s \ {Max(s)}], Max(s)>>]
    BY DEF Unfolds
  <1>1. 1..0 = {}  OBVIOUS
  <1>2. 0 \in T  BY <1>0, <1>1
  <1>3. ASSUME NEW k \in 0..(n - 1), k \in T  PROVE k + 1 \in T
    <2> DEFINE m == k + 1
    <2>1. /\ k \in Nat /\ k <= n /\ m \in 1..n /\ m \in Nat /\ m - 1 = k /\ 1..m \in SUBSET (1..n)
          /\ m \in 1..m /\ (1..m) \ {m} = 1..k
      OBVIOUS
    <2>2. iter[1..k] \in X  BY <1>3, <2>1
    <2> HIDE DEF m
    <2>3. Max(1..m) = m
      <3>1. Max(1..m) \in 1..m /\ Max(1..m) >= m  BY <2>1, MaxIs
      <3> DEFINE x == Max(1..m)
      <3>2. x \in 1..m /\ x >= m  BY <3>1
      <3> HIDE DEF x
      <3>3. x = m  BY <2>1, <3>2
      <3> QED  BY <3>3 DEF x
    <2>4. iter[1..m] = Op[<<iter[1..k], m>>]
      <3>1. 1..m # {} /\ (1..m) \ {Max(1..m)} = 1..k  BY <2>1, <2>3
      <3>2. iter[(1..m) \ {Max(1..m)}] \in X  BY <2>2, <3>1
      <3> QED  BY <1>0, <2>1, <2>3, <3>1, <3>2
    <2>5. Op[<<iter[1..k], m>>] \in X  BY <2>1, <2>2
    <2>6. m \in T  BY <2>1, <2>4, <2>5
    <2> QED  BY <2>6 DEF m
  <1>4. \A k \in 0..n : k \in T
    <2> HIDE DEF T
    <2>1. 0..n \subseteq T  BY <1>2, <1>3, UpTo
    <2> QED  BY <2>1
  <1>5. ASSUME NEW k \in 0..n  PROVE iter[1..k] \in X
    <2>1. k \in Nat /\ k <= n  OBVIOUS
    <2> QED  BY <1>4, <2>1
  <1>6. F \in [0..n -> X]  BY <1>5
  <1>7. F[0] = base  BY <1>0, <1>1
  <1>8. ASSUME NEW k \in 1..n  PROVE F[k] = Op[<<F[k - 1], k>>]
    <2>1. k \in 0..n /\ k - 1 \in 0..n /\ k # 0 /\ k \in Nat /\ k <= n  OBVIOUS
    <2>2. iter[1..k] = Op[<<iter[1..(k - 1)], k>>]  BY <1>4, <2>1
    <2> QED  BY <2>1, <2>2
  <1> HIDE DEF F
  <1>9. Steps(F, X, n, base, Op)  BY <1>6, <1>7, <1>8 DEF Steps
  <1> QED  BY <1>9 DEF F, FoldPrefixes

-----------------------------------------------------------------------------
(* The lines of a hunk *)

Sides    == {"additions", "deletions"}
LineRecs == [side : Sides, line : Nat, text : Texts]
Accs     == [lines : Seq(LineRecs), add : Nat, del : Nat]

\* Where the lines of block k begin.
AddAt(hunk, k) == hunk.additionStart + (hunk.hunkContent[k].additionLineIndex - hunk.hunkContent[1].additionLineIndex)
DelAt(hunk, k) == hunk.deletionStart + (hunk.hunkContent[k].deletionLineIndex - hunk.hunkContent[1].deletionLineIndex)

InFile(file, block) ==
  /\ block.additionLineIndex + Added(block) <= Len(file.additionLines)
  /\ block.deletionLineIndex + Deleted(block) <= Len(file.deletionLines)

\* The numbers of a block are numbers.
LEMMA BlockTypes ==
  ASSUME NEW block \in Blocks
  PROVE  /\ Added(block) \in Nat /\ Deleted(block) \in Nat
         /\ block.additionLineIndex \in Nat /\ block.deletionLineIndex \in Nat
         /\ block.type = "context" => Added(block) = block.lines /\ Deleted(block) = block.lines
         /\ block.type # "context" => Added(block) = block.additions /\ Deleted(block) = block.deletions
  BY DEF Blocks, Added, Deleted

\* The lines of a block on one side (addMatches in searchDiff), as a sequence and as a set.
SideSeq(side, lines, index, n, from) == [i \in 1..n |-> Line(side, from + i - 1, lines[index + i])]
SideSet(side, lines, index, n, from) == {Line(side, from + i - 1, lines[index + i]) : i \in 1..n}

LEMMA SideLines ==
  ASSUME NEW side \in Sides, NEW lines \in Seq(Texts), NEW index \in Nat, NEW n \in Nat, NEW from \in Nat,
         index + n <= Len(lines)
  PROVE  /\ SideSeq(side, lines, index, n, from) \in Seq(LineRecs)
         /\ Range(SideSeq(side, lines, index, n, from)) = SideSet(side, lines, index, n, from)
  <1> DEFINE s == [i \in 1..n |-> Line(side, from + i - 1, lines[index + i])]
  <1>1. ASSUME NEW i \in 1..n  PROVE Line(side, from + i - 1, lines[index + i]) \in LineRecs
    <2>1. index + i \in 1..Len(lines) /\ from + i - 1 \in Nat  OBVIOUS
    <2>2. lines[index + i] \in Texts  BY <2>1
    <2> DEFINE x == from + i - 1
               y == lines[index + i]
    <2> HIDE DEF x, y
    <2>3. x \in Nat /\ y \in Texts  BY <2>1, <2>2 DEF x, y
    <2>4. Line(side, x, y) \in LineRecs  BY <2>3 DEF Line, LineRecs
    <2> QED  BY <2>4 DEF x, y
  <1>2. s \in [1..n -> LineRecs]  BY <1>1
  <1>3. Range(s) = {s[i] : i \in 1..n}  BY DEF Range
  <1>4. \A i \in 1..n : s[i] = Line(side, from + i - 1, lines[index + i])  OBVIOUS
  <1> HIDE DEF s
  <1>5. s \in Seq(LineRecs)  BY <1>2, SeqDef
  <1> QED  BY <1>3, <1>4, <1>5 DEF s, SideSeq, SideSet

AddedLines(file, block, from) ==
  SideSet("additions", file.additionLines, block.additionLineIndex, Added(block), from)
DeletedLines(file, block, from) ==
  SideSet("deletions", file.deletionLines, block.deletionLineIndex, Deleted(block), from)
LinesFrom(file, block, add, del) ==
  AddedLines(file, block, add) \cup IF block.type = "context" THEN {} ELSE DeletedLines(file, block, del)

\* A step of the fold keeps its type, adds the lines of the block, and its counters go on by as
\* many lines as it has on each side.
LEMMA AfterBlockIs ==
  ASSUME NEW file \in Files, NEW block \in Blocks, InFile(file, block), NEW acc \in Accs
  PROVE  /\ AfterBlock(file, acc, block) \in Accs
         /\ AfterBlock(file, acc, block).add = acc.add + Added(block)
         /\ AfterBlock(file, acc, block).del = acc.del + Deleted(block)
         /\ Range(AfterBlock(file, acc, block).lines) =
              Range(acc.lines) \cup LinesFrom(file, block, acc.add, acc.del)
  <1> DEFINE adds == SideSeq("additions", file.additionLines, block.additionLineIndex, Added(block), acc.add)
             dels == SideSeq("deletions", file.deletionLines, block.deletionLineIndex, Deleted(block), acc.del)
  <1>1. acc.lines \in Seq(LineRecs) /\ acc.add \in Nat /\ acc.del \in Nat  BY DEF Accs
  <1>2. file.additionLines \in Seq(Texts) /\ file.deletionLines \in Seq(Texts)  BY DEF Files
  <1>3. adds \in Seq(LineRecs) /\ Range(adds) = AddedLines(file, block, acc.add)
    <2>1. /\ "additions" \in Sides /\ file.additionLines \in Seq(Texts)
          /\ block.additionLineIndex \in Nat /\ Added(block) \in Nat /\ acc.add \in Nat
          /\ block.additionLineIndex + Added(block) <= Len(file.additionLines)
      BY <1>1, <1>2, BlockTypes DEF InFile, Sides
    <2> QED  BY <2>1, SideLines DEF AddedLines
  <1>4. dels \in Seq(LineRecs) /\ Range(dels) = DeletedLines(file, block, acc.del)
    <2>1. /\ "deletions" \in Sides /\ file.deletionLines \in Seq(Texts)
          /\ block.deletionLineIndex \in Nat /\ Deleted(block) \in Nat /\ acc.del \in Nat
          /\ block.deletionLineIndex + Deleted(block) <= Len(file.deletionLines)
      BY <1>1, <1>2, BlockTypes DEF InFile, Sides
    <2> QED  BY <2>1, SideLines DEF DeletedLines
  <1>5. acc.add + Added(block) \in Nat /\ acc.del + Deleted(block) \in Nat  BY <1>1, BlockTypes
  <1>a. adds = AdditionsOf(file, block, Added(block), acc.add)  BY DEF AdditionsOf, SideSeq
  <1>d. dels = DeletionsOf(file, block, Deleted(block), acc.del)  BY DEF DeletionsOf, SideSeq
  <1> HIDE DEF adds, dels
  <1> DEFINE a == acc.add + Added(block)
             d == acc.del + Deleted(block)
  <1>6. CASE block.type = "context"
    <2> DEFINE x == acc.lines \o adds
    <2>1. AfterBlock(file, acc, block) = [lines |-> x, add |-> a, del |-> d]
      BY <1>6, <1>a, BlockTypes DEF AfterBlock
    <2>2. x \in Seq(LineRecs) /\ Range(x) = Range(acc.lines) \cup Range(adds)
      BY <1>1, <1>3, ConcatProperties, RangeConcatenation
    <2>3. a \in Nat /\ d \in Nat  BY <1>5
    <2> HIDE DEF x, a, d
    <2>4. [lines |-> x, add |-> a, del |-> d] \in Accs  BY <2>2, <2>3 DEF Accs
    <2>5. LinesFrom(file, block, acc.add, acc.del) = Range(adds)  BY <1>3, <1>6 DEF LinesFrom
    <2>6. /\ AfterBlock(file, acc, block) \in Accs
          /\ AfterBlock(file, acc, block).add = a /\ AfterBlock(file, acc, block).del = d
          /\ AfterBlock(file, acc, block).lines = x
      BY <2>1, <2>4
    <2> QED  BY <2>2, <2>5, <2>6 DEF a, d
  <1>7. CASE block.type # "context"
    <2> DEFINE u == acc.lines \o dels
               x == u \o adds
    <2>1. AfterBlock(file, acc, block) = [lines |-> x, add |-> a, del |-> d]
      BY <1>7, <1>a, <1>d, BlockTypes DEF AfterBlock
    <2>2. u \in Seq(LineRecs) /\ Range(u) = Range(acc.lines) \cup Range(dels)
      BY <1>1, <1>4, ConcatProperties, RangeConcatenation
    <2> HIDE DEF u
    <2>3. x \in Seq(LineRecs) /\ Range(x) = Range(u) \cup Range(adds)
      BY <1>3, <2>2, ConcatProperties, RangeConcatenation
    <2>4. a \in Nat /\ d \in Nat  BY <1>5
    <2> HIDE DEF x, a, d
    <2>5. [lines |-> x, add |-> a, del |-> d] \in Accs  BY <2>3, <2>4 DEF Accs
    <2>6. LinesFrom(file, block, acc.add, acc.del) = Range(adds) \cup Range(dels)
      BY <1>3, <1>4, <1>7 DEF LinesFrom
    <2>7. /\ AfterBlock(file, acc, block) \in Accs
          /\ AfterBlock(file, acc, block).add = a /\ AfterBlock(file, acc, block).del = d
          /\ AfterBlock(file, acc, block).lines = x
      BY <2>1, <2>5
    <2> QED  BY <2>2, <2>3, <2>6, <2>7 DEF a, d
  <1> QED  BY <1>6, <1>7

\* The lines of a hunk are what the fold over its blocks ends with (searchDiff).
LEMMA HunkFold ==
  ASSUME NEW file \in Files, NEW hunk \in Hunks, WellFormed(file, hunk.hunkContent)
  PROVE  \E F \in [0..Len(hunk.hunkContent) -> Accs] :
           /\ F[0] = [lines |-> <<>>, add |-> hunk.additionStart, del |-> hunk.deletionStart]
           /\ \A k \in 1..Len(hunk.hunkContent) : F[k] = AfterBlock(file, F[k - 1], hunk.hunkContent[k])
           /\ HunkLines(file, hunk) = F[Len(hunk.hunkContent)].lines
  <1> DEFINE content == hunk.hunkContent
             n == Len(content)
             base == [lines |-> <<>>, add |-> hunk.additionStart, del |-> hunk.deletionStart]
             After(acc, k) == AfterBlock(file, acc, content[k])
             Is(f) == f = [s \in SUBSET (1..n) |-> IF s = {} THEN base ELSE After(f[s \ {Max(s)}], Max(s))]
             iter == CHOOSE f : Is(f)
  <1>1. content \in Seq(Blocks) /\ n \in Nat /\ DOMAIN content = 1..n  BY DEF Hunks
  <1>2. base \in Accs
    <2>1. hunk.additionStart \in Nat /\ hunk.deletionStart \in Nat  BY DEF Hunks
    <2> QED  BY <2>1 DEF Accs
  <1>3. \A acc \in Accs, k \in 1..n : After(acc, k) \in Accs
    <2> SUFFICES ASSUME NEW acc \in Accs, NEW k \in 1..n PROVE After(acc, k) \in Accs
      OBVIOUS
    <2>1. content[k] \in Blocks  BY <1>1
    <2>2. InFile(file, content[k])  BY <1>1 DEF WellFormed, InFile
    <2> QED  BY <2>1, <2>2, AfterBlockIs
  <1>4. HunkLines(file, hunk) = iter[1..n].lines
    BY <1>1 DEF HunkLines, FoldLeft, MapThenFoldSet
  <1> HIDE DEF After, base
  <1> DEFINE Op == [x \in Accs \X (1..n) |-> After(x[1], x[2])]
  <1>5. Op \in [Accs \X (1..n) -> Accs]  BY <1>3
  <1>6. \A acc \in Accs, k \in 1..n : Op[<<acc, k>>] = After(acc, k)  OBVIOUS
  <1> HIDE DEF Op, n
  <1>7. n \in Nat  BY <1>1
  <1>8. \E f : Is(f)
    <2>1. PICK f : FoldsBy(f, Accs, n, base, Op)
      BY <1>2, <1>5, <1>7, FoldExists
    <2>2. /\ f \in [SUBSET (1..n) -> Accs]
          /\ \A s \in SUBSET (1..n) : f[s] = IF s = {} THEN base ELSE Op[<<f[s \ {Max(s)}], Max(s)>>]
      BY <2>1 DEF FoldsBy
    <2> DEFINE G(s) == IF s = {} THEN base ELSE After(f[s \ {Max(s)}], Max(s))
    <2>3. ASSUME NEW s \in SUBSET (1..n)  PROVE f[s] = G(s)
      <3>1. s # {} => Max(s) \in 1..n  BY <1>7, MaxIs
      <3>2. f[s \ {Max(s)}] \in Accs  BY <2>2
      <3> QED  BY <1>6, <2>2, <3>1, <3>2
    <2> HIDE DEF G
    <2>4. f = [s \in SUBSET (1..n) |-> G(s)]  BY <2>2, <2>3
    <2>5. Is(f)  BY <2>4 DEF G
    <2> QED  BY <2>5
  <1>9. Is(iter)  BY <1>8
  <1> HIDE DEF iter
  <1>10. iter[{}] = base
    <2>1. {} \in SUBSET (1..n)  OBVIOUS
    <2> QED  BY <1>9, <2>1
  <1>11. ASSUME NEW s \in SUBSET (1..n), s # {}, iter[s \ {Max(s)}] \in Accs
         PROVE  iter[s] = Op[<<iter[s \ {Max(s)}], Max(s)>>]
    <2>1. Max(s) \in 1..n  BY <1>7, <1>11, MaxIs
    <2>2. iter[s] = After(iter[s \ {Max(s)}], Max(s))  BY <1>9, <1>11
    <2> QED  BY <1>6, <1>11, <2>1, <2>2
  <1> DEFINE F == FoldPrefixes(iter, n)
  <1>12. Steps(F, Accs, n, base, Op)
    <2>1. Unfolds(iter, Accs, n, base, Op)  BY <1>10, <1>11 DEF Unfolds
    <2> QED  BY <1>2, <1>5, <1>7, <2>1, FoldSteps
  <1>13. n \in 0..n /\ F[n] = iter[1..n]  BY <1>7 DEF FoldPrefixes
  <1> HIDE DEF F
  <1>14. F \in [0..n -> Accs] /\ F[0] = base /\ \A k \in 1..n : F[k] = Op[<<F[k - 1], k>>]
    BY <1>12 DEF Steps
  <1>15. ASSUME NEW k \in 1..n  PROVE F[k] = After(F[k - 1], k)
    <2>1. k - 1 \in 0..n  BY <1>7
    <2> QED  BY <1>6, <1>14, <2>1
  <1> QED  BY <1>4, <1>13, <1>14, <1>15 DEF After, base, n

\* A block's lines as the diff numbers them are those between the counters of its hunk.
LEMMA BlockLinesAre ==
  ASSUME NEW file, NEW hunk, NEW k
  PROVE  BlockLines(file, hunk, hunk.hunkContent[k]) =
           LinesFrom(file, hunk.hunkContent[k], AddAt(hunk, k), DelAt(hunk, k))
  BY DEF BlockLines, LinesFrom, AddedLines, DeletedLines, SideSet, AddAt, DelAt

\* The counters before a block, and the lines so far (searchDiff): no line is skipped and none
\* gets the number of another.
LEMMA HunkLinesAre ==
  ASSUME NEW file \in Files, NEW hunk \in Hunks, WellFormed(file, hunk.hunkContent)
  PROVE  /\ HunkLines(file, hunk) \in Seq(LineRecs)
         /\ Range(HunkLines(file, hunk)) =
              UNION {BlockLines(file, hunk, block) : block \in Range(hunk.hunkContent)}
  <1> DEFINE content == hunk.hunkContent
             n == Len(content)
  <1>1. content \in Seq(Blocks) /\ n \in Nat /\ DOMAIN content = 1..n  BY DEF Hunks
  <1>2. hunk.additionStart \in Nat /\ hunk.deletionStart \in Nat  BY DEF Hunks
  <1>3. PICK F \in [0..n -> Accs] :
          /\ F[0] = [lines |-> <<>>, add |-> hunk.additionStart, del |-> hunk.deletionStart]
          /\ \A k \in 1..n : F[k] = AfterBlock(file, F[k - 1], content[k])
          /\ HunkLines(file, hunk) = F[n].lines
    BY HunkFold
  <1>4. ASSUME NEW k \in 1..n
        PROVE  content[k] \in Blocks /\ InFile(file, content[k])
    <2>1. content[k] \in Blocks  BY <1>1
    <2> QED  BY <1>1, <2>1 DEF WellFormed, InFile
  <1>5. ASSUME NEW k \in 1..n, k < n
        PROVE  /\ AddAt(hunk, k + 1) = AddAt(hunk, k) + Added(content[k])
               /\ DelAt(hunk, k + 1) = DelAt(hunk, k) + Deleted(content[k])
    <2>1. k + 1 \in 1..n /\ 1 \in 1..n  BY <1>1, <1>5
    <2>2. /\ content[k + 1].additionLineIndex = content[k].additionLineIndex + Added(content[k])
          /\ content[k + 1].deletionLineIndex = content[k].deletionLineIndex + Deleted(content[k])
      BY <1>1, <2>1 DEF WellFormed
    <2>3. /\ content[k].additionLineIndex \in Nat /\ content[k].deletionLineIndex \in Nat
          /\ content[1].additionLineIndex \in Nat /\ content[1].deletionLineIndex \in Nat
          /\ Added(content[k]) \in Nat /\ Deleted(content[k]) \in Nat
      BY <1>4, <2>1, BlockTypes
    <2> DEFINE a == hunk.additionStart
               d == hunk.deletionStart
               ak == content[k].additionLineIndex
               dk == content[k].deletionLineIndex
               a1 == content[1].additionLineIndex
               d1 == content[1].deletionLineIndex
               na == Added(content[k])
               nd == Deleted(content[k])
    <2>4. /\ AddAt(hunk, k) = a + (ak - a1) /\ DelAt(hunk, k) = d + (dk - d1)
          /\ AddAt(hunk, k + 1) = a + ((ak + na) - a1) /\ DelAt(hunk, k + 1) = d + ((dk + nd) - d1)
      BY <2>2 DEF AddAt, DelAt
    <2>5. a \in Nat /\ d \in Nat /\ ak \in Nat /\ dk \in Nat /\ a1 \in Nat /\ d1 \in Nat /\ na \in Nat /\ nd \in Nat
      BY <1>2, <2>3
    <2> HIDE DEF a, d, ak, dk, a1, d1, na, nd
    <2>6. AddAt(hunk, k + 1) = AddAt(hunk, k) + na /\ DelAt(hunk, k + 1) = DelAt(hunk, k) + nd
      BY <2>4, <2>5
    <2> QED  BY <2>6 DEF na, nd
  <1> DEFINE T == {k \in Nat : k <= n =>
                     /\ k < n => F[k].add = AddAt(hunk, k + 1) /\ F[k].del = DelAt(hunk, k + 1)
                     /\ Range(F[k].lines) = UNION {BlockLines(file, hunk, content[i]) : i \in 1..k}}
  <1>6. 0 \in T
    <2>1. F[0].add = hunk.additionStart /\ F[0].del = hunk.deletionStart /\ F[0].lines = <<>>  BY <1>3
    <2>2. Range(<<>>) = {}  BY DEF Range
    <2>3. ASSUME 0 < n  PROVE AddAt(hunk, 0 + 1) = hunk.additionStart /\ DelAt(hunk, 0 + 1) = hunk.deletionStart
      <3>1. 1 \in 1..n  BY <1>1, <2>3
      <3>2. content[1].additionLineIndex \in Nat /\ content[1].deletionLineIndex \in Nat
        BY <1>4, <3>1, BlockTypes
      <3> QED  BY <1>2, <3>2 DEF AddAt, DelAt
    <2> HIDE DEF content, n
    <2>4. 0 < n => F[0].add = AddAt(hunk, 0 + 1) /\ F[0].del = DelAt(hunk, 0 + 1)  BY <2>1, <2>3
    <2>5. Range(F[0].lines) = UNION {BlockLines(file, hunk, content[i]) : i \in 1..0}  BY <2>1, <2>2
    <2> QED  BY <2>4, <2>5
  <1>7. ASSUME NEW k \in 0..(n - 1), k \in T  PROVE k + 1 \in T
    <2> DEFINE block == content[k + 1]
    <2>1. k \in Nat /\ k < n /\ k <= n /\ k + 1 \in 1..n /\ (k + 1) - 1 = k /\ k \in 0..n  BY <1>1
    <2>2. /\ F[k].add = AddAt(hunk, k + 1) /\ F[k].del = DelAt(hunk, k + 1)
          /\ Range(F[k].lines) = UNION {BlockLines(file, hunk, content[i]) : i \in 1..k}
      BY <1>7, <2>1
    <2>3. F[k] \in Accs /\ F[k + 1] = AfterBlock(file, F[k], block)  BY <1>3, <2>1
    <2>4. block \in Blocks /\ InFile(file, block)  BY <1>4, <2>1
    <2>5. /\ F[k + 1].add = AddAt(hunk, k + 1) + Added(block)
          /\ F[k + 1].del = DelAt(hunk, k + 1) + Deleted(block)
          /\ Range(F[k + 1].lines) = Range(F[k].lines) \cup LinesFrom(file, block, AddAt(hunk, k + 1), DelAt(hunk, k + 1))
      BY <2>2, <2>3, <2>4, AfterBlockIs
    <2>6. k + 1 < n => /\ F[k + 1].add = AddAt(hunk, (k + 1) + 1)
                       /\ F[k + 1].del = DelAt(hunk, (k + 1) + 1)
      BY <1>5, <2>1, <2>5
    <2>7. LinesFrom(file, block, AddAt(hunk, k + 1), DelAt(hunk, k + 1)) = BlockLines(file, hunk, block)
      BY BlockLinesAre
    <2>8. Range(F[k + 1].lines) = UNION {BlockLines(file, hunk, content[i]) : i \in 1..(k + 1)}
      <3>1. 1..(k + 1) = (1..k) \cup {k + 1}  BY <2>1
      <3> HIDE DEF content
      <3> QED  BY <2>2, <2>5, <2>7, <3>1
    <2> HIDE DEF content, n, block
    <2> QED  BY <2>1, <2>6, <2>8
  <1> HIDE DEF T
  <1>8. n \in T
    <2> HIDE DEF n
    <2>1. 0..n \subseteq T  BY <1>1, <1>6, <1>7, UpTo
    <2> QED  BY <1>1, <2>1
  <1>9. Range(F[n].lines) = UNION {BlockLines(file, hunk, content[i]) : i \in 1..n}
    <2> HIDE DEF n, content
    <2> QED  BY <1>1, <1>8 DEF T
  <1>10. F[n].lines \in Seq(LineRecs)
    <2>1. n \in 0..n  BY <1>1
    <2>2. F[n] \in Accs  BY <1>3, <2>1
    <2> QED  BY <2>2 DEF Accs
  <1>11. UNION {BlockLines(file, hunk, block) : block \in Range(content)} =
           UNION {BlockLines(file, hunk, content[i]) : i \in 1..n}
    <2> HIDE DEF n, content
    <2> QED  BY <1>1 DEF Range
  <1> QED  BY <1>3, <1>9, <1>10, <1>11

FileWellFormed(file) == file \in Files /\ \A hunk \in Range(file.hunks) : WellFormed(file, hunk.hunkContent)

\* The lines of a file that are searched are those the diff numbers (searchDiff).
LEMMA FileLinesAre ==
  ASSUME NEW file, FileWellFormed(file)
  PROVE  FileLines(file) \in Seq(LineRecs) /\ Range(FileLines(file)) = Numbered(file)
  <1> DEFINE hs == file.hunks
             ss == [h \in DOMAIN hs |-> HunkLines(file, hs[h])]
  <1>1. hs \in Seq(Hunks) /\ file \in Files  BY DEF FileWellFormed, Files
  <1>2. ASSUME NEW h \in DOMAIN hs
        PROVE  /\ HunkLines(file, hs[h]) \in Seq(LineRecs)
               /\ Range(HunkLines(file, hs[h])) =
                    UNION {BlockLines(file, hs[h], block) : block \in Range(hs[h].hunkContent)}
    <2>1. hs[h] \in Hunks /\ hs[h] \in Range(hs)  BY <1>1 DEF Range
    <2>2. WellFormed(file, hs[h].hunkContent)  BY <2>1 DEF FileWellFormed
    <2> QED  BY <1>1, <2>1, <2>2, HunkLinesAre
  <1>3. ss \in Seq(Seq(LineRecs)) /\ DOMAIN ss = DOMAIN hs
    <2>1. DOMAIN hs = 1..Len(hs) /\ Len(hs) \in Nat  BY <1>1
    <2>2. ss \in [1..Len(hs) -> Seq(LineRecs)]  BY <1>2, <2>1
    <2> HIDE DEF ss
    <2> QED  BY <2>1, <2>2, SeqDef
  <1>4. /\ FlattenSeq(ss) \in Seq(LineRecs)
        /\ Range(FlattenSeq(ss)) = UNION {Range(ss[h]) : h \in DOMAIN ss}
    <2> HIDE DEF ss
    <2> QED  BY <1>3, FlattenIs
  <1>5. FileLines(file) = FlattenSeq(ss)  BY DEF FileLines
  <1>6. UNION {Range(ss[h]) : h \in DOMAIN ss} = Numbered(file)
    <2> DEFINE Of(hunk) == UNION {BlockLines(file, hunk, block) : block \in Range(hunk.hunkContent)}
    <2>1. \A h \in DOMAIN hs : Range(ss[h]) = Of(hs[h])  BY <1>2
    <2>2. Numbered(file) = UNION {Of(hunk) : hunk \in Range(hs)}  BY DEF Numbered
    <2>3. DOMAIN ss = DOMAIN hs  BY <1>3
    <2> HIDE DEF Of, ss, hs
    <2>4. UNION {Range(ss[h]) : h \in DOMAIN ss} = UNION {Of(hs[h]) : h \in DOMAIN hs}  BY <2>1, <2>3
    <2>5. Range(hs) = {hs[h] : h \in DOMAIN hs}  BY DEF Range
    <2>6. UNION {Of(hs[h]) : h \in DOMAIN hs} = UNION {Of(hunk) : hunk \in Range(hs)}  BY <2>5
    <2> QED  BY <2>2, <2>4, <2>6 DEF hs
  <1> QED  BY <1>4, <1>5, <1>6

-----------------------------------------------------------------------------
(* The matches of a line *)

Scans == [columns : Seq(Nat), from : Nat]

ScanStep(text, needle, acc, i) ==
  IF i < acc.from \/ ~IsAt(text, needle, i) THEN acc
  ELSE [columns |-> Append(acc.columns, i), from |-> i + Len(needle)]

\* The scan of a line is a fold over its positions (indexOf and from in searchDiff).
LEMMA ColumnsFold ==
  ASSUME NEW text \in Texts, NEW needle \in Texts
  PROVE  \E F \in [0..Len(text) -> Scans] :
           /\ F[0] = [columns |-> <<>>, from |-> 1]
           /\ \A k \in 1..Len(text) : F[k] = ScanStep(text, needle, F[k - 1], k)
           /\ Columns(text, needle) = F[Len(text)].columns
  <1> DEFINE n == Len(text)
             places == [i \in 1..n |-> i]
             base == [columns |-> <<>>, from |-> 1]
             After(acc, i) == ScanStep(text, needle, acc, i)
             Is(f) == f = [s \in SUBSET (1..n) |-> IF s = {} THEN base ELSE After(f[s \ {Max(s)}], places[Max(s)])]
             iter == CHOOSE f : Is(f)
  <1>1. n \in Nat /\ Len(needle) \in Nat  BY DEF Texts
  <1>2. base \in Scans  BY DEF Scans
  <1>3. \A acc \in Scans, k \in 1..n : After(acc, k) \in Scans
    <2> SUFFICES ASSUME NEW acc \in Scans, NEW k \in 1..n PROVE After(acc, k) \in Scans
      OBVIOUS
    <2>1. acc.columns \in Seq(Nat) /\ k \in Nat /\ k + Len(needle) \in Nat  BY <1>1 DEF Scans
    <2> DEFINE cs == Append(acc.columns, k)
               fr == k + Len(needle)
    <2>2. cs \in Seq(Nat) /\ fr \in Nat  BY <2>1, AppendProperties
    <2> HIDE DEF cs, fr
    <2>3. [columns |-> cs, from |-> fr] \in Scans  BY <2>2 DEF Scans
    <2> QED  BY <2>3 DEF cs, fr, ScanStep
  <1>4. Columns(text, needle) = iter[1..n].columns
    BY DEF Columns, FoldLeft, MapThenFoldSet, ScanStep
  <1> HIDE DEF After, base
  <1> DEFINE Op == [x \in Scans \X (1..n) |-> After(x[1], x[2])]
  <1>5. Op \in [Scans \X (1..n) -> Scans]  BY <1>3
  <1>6. \A acc \in Scans, k \in 1..n : Op[<<acc, k>>] = After(acc, k)  OBVIOUS
  <1>p. \A k \in 1..n : places[k] = k  OBVIOUS
  <1> HIDE DEF Op, places, n
  <1>7. n \in Nat  BY <1>1
  <1>8. \E f : Is(f)
    <2>1. PICK f : FoldsBy(f, Scans, n, base, Op)
      BY <1>2, <1>5, <1>7, FoldExists
    <2>2. /\ f \in [SUBSET (1..n) -> Scans]
          /\ \A s \in SUBSET (1..n) : f[s] = IF s = {} THEN base ELSE Op[<<f[s \ {Max(s)}], Max(s)>>]
      BY <2>1 DEF FoldsBy
    <2> DEFINE G(s) == IF s = {} THEN base ELSE After(f[s \ {Max(s)}], places[Max(s)])
    <2>3. ASSUME NEW s \in SUBSET (1..n)  PROVE f[s] = G(s)
      <3>1. s # {} => Max(s) \in 1..n /\ places[Max(s)] = Max(s)  BY <1>7, <1>p, MaxIs
      <3>2. f[s \ {Max(s)}] \in Scans  BY <2>2
      <3> QED  BY <1>6, <2>2, <3>1, <3>2
    <2> HIDE DEF G
    <2>4. f = [s \in SUBSET (1..n) |-> G(s)]  BY <2>2, <2>3
    <2>5. Is(f)  BY <2>4 DEF G
    <2> QED  BY <2>5
  <1>9. Is(iter)  BY <1>8
  <1> HIDE DEF iter
  <1>10. iter[{}] = base
    <2>1. {} \in SUBSET (1..n)  OBVIOUS
    <2> QED  BY <1>9, <2>1
  <1>11. ASSUME NEW s \in SUBSET (1..n), s # {}, iter[s \ {Max(s)}] \in Scans
         PROVE  iter[s] = Op[<<iter[s \ {Max(s)}], Max(s)>>]
    <2>1. Max(s) \in 1..n /\ places[Max(s)] = Max(s)  BY <1>7, <1>11, <1>p, MaxIs
    <2>2. iter[s] = After(iter[s \ {Max(s)}], Max(s))  BY <1>9, <1>11, <2>1
    <2> QED  BY <1>6, <1>11, <2>1, <2>2
  <1> DEFINE F == FoldPrefixes(iter, n)
  <1>12. Steps(F, Scans, n, base, Op)
    <2>1. Unfolds(iter, Scans, n, base, Op)  BY <1>10, <1>11 DEF Unfolds
    <2> QED  BY <1>2, <1>5, <1>7, <2>1, FoldSteps
  <1>13. n \in 0..n /\ F[n] = iter[1..n]  BY <1>7 DEF FoldPrefixes
  <1> HIDE DEF F
  <1>14. F \in [0..n -> Scans] /\ F[0] = base /\ \A k \in 1..n : F[k] = Op[<<F[k - 1], k>>]
    BY <1>12 DEF Steps
  <1>15. ASSUME NEW k \in 1..n  PROVE F[k] = After(F[k - 1], k)
    <2>1. k - 1 \in 0..n  BY <1>7
    <2> QED  BY <1>6, <1>14, <2>1
  <1> QED  BY <1>4, <1>13, <1>14, <1>15 DEF After, base, n

\* After k positions of a line: what is taken is there and no more than k, what is there is
\* taken or overlaps what is taken, and the scan goes on behind the last that is taken.
Scanned(text, needle, scan, k) ==
  /\ \A c \in Range(scan.columns) : c \in 1..k /\ IsAt(text, needle, c)
  /\ \A i \in 1..k : IsAt(text, needle, i) =>
       \E c \in Range(scan.columns) : c <= i /\ i < c + Len(needle)
  /\ scan.from = 1 \/ \E c \in Range(scan.columns) : scan.from = c + Len(needle)

LEMMA ScannedStep ==
  ASSUME NEW text \in Texts, NEW needle \in Texts, needle # <<>>, NEW k \in Nat,
         NEW scan \in Scans, Scanned(text, needle, scan, k)
  PROVE  Scanned(text, needle, ScanStep(text, needle, scan, k + 1), k + 1)
  <1> DEFINE len == Len(needle)
             old == Range(scan.columns)
  <1>1. len \in Nat /\ len > 0 /\ scan.columns \in Seq(Nat) /\ scan.from \in Nat  BY DEF Texts, Scans
  <1>2. old \subseteq Nat /\ k + 1 \in Nat /\ 1..(k + 1) = (1..k) \cup {k + 1}  BY <1>1 DEF Range
  <1>3. /\ \A c \in old : c \in 1..k /\ IsAt(text, needle, c)
        /\ \A i \in 1..k : IsAt(text, needle, i) => \E c \in old : c <= i /\ i < c + len
        /\ scan.from = 1 \/ \E c \in old : scan.from = c + len
    BY DEF Scanned
  <1>4. CASE k + 1 < scan.from \/ ~IsAt(text, needle, k + 1)
    <2>1. ScanStep(text, needle, scan, k + 1) = scan  BY <1>4 DEF ScanStep
    <2>2. IsAt(text, needle, k + 1) => \E c \in old : c <= k + 1 /\ k + 1 < c + len
      <3> SUFFICES ASSUME IsAt(text, needle, k + 1) PROVE \E c \in old : c <= k + 1 /\ k + 1 < c + len
        OBVIOUS
      <3>1. k + 1 < scan.from /\ scan.from # 1  BY <1>1, <1>4
      <3>2. PICK c \in old : scan.from = c + len  BY <1>3, <3>1
      <3>3. c <= k + 1  BY <1>2, <1>3
      <3> QED  BY <3>1, <3>2, <3>3
    <2> HIDE DEF len, old
    <2>3. \A c \in old : c \in 1..(k + 1)  BY <1>2, <1>3
    <2>4. \A i \in 1..(k + 1) : IsAt(text, needle, i) => \E c \in old : c <= i /\ i < c + len
      BY <1>2, <1>3, <2>2
    <2> QED  BY <1>3, <2>1, <2>3, <2>4 DEF Scanned, len, old
  <1>5. CASE ~(k + 1 < scan.from) /\ IsAt(text, needle, k + 1)
    <2> DEFINE after == ScanStep(text, needle, scan, k + 1)
               new == Append(scan.columns, k + 1)
    <2>1. after = [columns |-> new, from |-> k + 1 + len]  BY <1>5 DEF ScanStep
    <2>2. Range(new) = old \cup {k + 1}
      <3> DEFINE cs == scan.columns
                 x == k + 1
                 m == Len(cs)
      <3>1. cs \in Seq(Nat) /\ x \in Nat /\ m \in Nat /\ DOMAIN cs = 1..m  BY <1>1, <1>2
      <3>2. /\ DOMAIN Append(cs, x) = 1..(m + 1) /\ Append(cs, x)[m + 1] = x
            /\ \A i \in 1..m : Append(cs, x)[i] = cs[i]
        BY <3>1
      <3>3. 1..(m + 1) = (1..m) \cup {m + 1}  BY <3>1
      <3> HIDE DEF cs, x, m
      <3>4. Range(Append(cs, x)) = Range(cs) \cup {x}  BY <3>1, <3>2, <3>3 DEF Range
      <3> QED  BY <3>4 DEF cs, x
    <2>3. after.columns = new /\ after.from = k + 1 + len  BY <2>1
    <2> HIDE DEF len, old, new, after
    <2>4. \A c \in old \cup {k + 1} : c \in 1..(k + 1) /\ IsAt(text, needle, c)  BY <1>2, <1>3, <1>5
    <2>5. k + 1 <= k + 1 /\ k + 1 < k + 1 + len  BY <1>1
    <2>6. \A i \in 1..(k + 1) : IsAt(text, needle, i) => \E c \in old \cup {k + 1} : c <= i /\ i < c + len
      BY <1>2, <1>3, <2>5
    <2> QED  BY <2>2, <2>3, <2>4, <2>6 DEF Scanned, len, after
  <1> QED  BY <1>4, <1>5

\* The matches of a line are where the needle is, and whatever place of it is not a match
\* overlaps one (searchDiff).
LEMMA ColumnsAre ==
  ASSUME NEW text \in Texts, NEW needle \in Texts, needle # <<>>
  PROVE  /\ Columns(text, needle) \in Seq(Nat)
         /\ \A c \in Range(Columns(text, needle)) : c \in 1..Len(text) /\ IsAt(text, needle, c)
         /\ \A i \in 1..Len(text) : IsAt(text, needle, i) =>
              \E c \in Range(Columns(text, needle)) : c <= i /\ i < c + Len(needle)
  <1> DEFINE n == Len(text)
  <1>1. n \in Nat  BY DEF Texts
  <1>2. PICK F \in [0..n -> Scans] :
          /\ F[0] = [columns |-> <<>>, from |-> 1]
          /\ \A k \in 1..n : F[k] = ScanStep(text, needle, F[k - 1], k)
          /\ Columns(text, needle) = F[n].columns
    BY ColumnsFold
  <1> DEFINE T == {k \in Nat : k <= n => Scanned(text, needle, F[k], k)}
  <1>3. 0 \in T
    <2>1. F[0].columns = <<>> /\ F[0].from = 1  BY <1>2
    <2>2. Range(<<>>) = {}  BY DEF Range
    <2> QED  BY <2>1, <2>2 DEF Scanned
  <1>4. ASSUME NEW k \in 0..(n - 1), k \in T  PROVE k + 1 \in T
    <2>1. k \in Nat /\ k <= n /\ k + 1 \in 1..n /\ (k + 1) - 1 = k /\ k \in 0..n  BY <1>1
    <2>2. F[k + 1] = ScanStep(text, needle, F[k], k + 1) /\ F[k] \in Scans  BY <1>2, <2>1
    <2>3. Scanned(text, needle, F[k], k)  BY <1>4, <2>1
    <2>4. Scanned(text, needle, F[k + 1], k + 1)  BY <2>1, <2>2, <2>3, ScannedStep
    <2> QED  BY <2>1, <2>4
  <1> HIDE DEF T, n
  <1>5. Scanned(text, needle, F[n], n)
    <2>1. 0..n \subseteq T  BY <1>1, <1>3, <1>4, UpTo
    <2> QED  BY <1>1, <2>1 DEF T
  <1>6. F[n] \in Scans  BY <1>1, <1>2
  <1>7. F[n].columns \in Seq(Nat)  BY <1>6 DEF Scans
  <1> QED  BY <1>2, <1>5, <1>7 DEF Scanned, n

MatchRecs == [file : STRING, line : Nat, side : Sides, column : Nat]
MatchAt(file, line, column) ==
  [file |-> file.name, line |-> line.line, side |-> line.side, column |-> column]

LEMMA LineMatchesAre ==
  ASSUME NEW file \in Files, NEW line \in LineRecs, NEW needle \in Texts, needle # <<>>
  PROVE  /\ LineMatches(file, line, needle) \in Seq(MatchRecs)
         /\ Range(LineMatches(file, line, needle)) =
              {MatchAt(file, line, c) : c \in Range(Columns(line.text, needle))}
  <1> DEFINE cols == Columns(line.text, needle)
             s == [k \in DOMAIN cols |-> MatchAt(file, line, cols[k])]
  <1>1. /\ line.text \in Texts /\ line.line \in Nat /\ line.side \in Sides /\ file.name \in STRING
    BY DEF LineRecs, Files
  <1>2. cols \in Seq(Nat)  BY <1>1, ColumnsAre
  <1>3. LineMatches(file, line, needle) = s  BY DEF LineMatches, MatchAt
  <1> HIDE DEF cols
  <1>4. DOMAIN cols = 1..Len(cols) /\ Len(cols) \in Nat /\ \A k \in 1..Len(cols) : cols[k] \in Nat  BY <1>2
  <1>5. \A k \in 1..Len(cols) : MatchAt(file, line, cols[k]) \in MatchRecs  BY <1>1, <1>4 DEF MatchAt, MatchRecs
  <1>6. s \in [1..Len(cols) -> MatchRecs]  BY <1>4, <1>5
  <1>7. DOMAIN s = DOMAIN cols /\ \A k \in DOMAIN cols : s[k] = MatchAt(file, line, cols[k])  OBVIOUS
  <1> HIDE DEF s
  <1>8. s \in Seq(MatchRecs)  BY <1>4, <1>6, SeqDef
  <1>9. Range(s) = {MatchAt(file, line, c) : c \in Range(cols)}  BY <1>7 DEF Range
  <1> QED  BY <1>3, <1>8, <1>9 DEF cols

\* The matches of a file are those of its numbered lines (searchDiff).
LEMMA FileMatchesAre ==
  ASSUME NEW file, FileWellFormed(file), NEW needle \in Texts, needle # <<>>
  PROVE  /\ FileMatches(file, needle) \in Seq(MatchRecs)
         /\ Range(FileMatches(file, needle)) =
              UNION {Range(LineMatches(file, line, needle)) : line \in Numbered(file)}
  <1> DEFINE lines == FileLines(file)
             Of(line) == LineMatches(file, line, needle)
             ss == [k \in DOMAIN lines |-> Of(lines[k])]
  <1>1. file \in Files  BY DEF FileWellFormed
  <1>2. lines \in Seq(LineRecs) /\ Range(lines) = Numbered(file)  BY FileLinesAre
  <1>3. FileMatches(file, needle) = FlattenSeq(ss)  BY DEF FileMatches
  <1> HIDE DEF lines
  <1>4. DOMAIN lines = 1..Len(lines) /\ Len(lines) \in Nat /\ \A k \in 1..Len(lines) : lines[k] \in LineRecs
    BY <1>2
  <1>5. \A k \in 1..Len(lines) : Of(lines[k]) \in Seq(MatchRecs)  BY <1>1, <1>4, LineMatchesAre
  <1> HIDE DEF Of
  <1>6. ss \in [1..Len(lines) -> Seq(MatchRecs)]  BY <1>4, <1>5
  <1>7. DOMAIN ss = DOMAIN lines /\ \A k \in DOMAIN lines : ss[k] = Of(lines[k])  OBVIOUS
  <1> HIDE DEF ss
  <1>8. ss \in Seq(Seq(MatchRecs))  BY <1>4, <1>6, SeqDef
  <1>9. /\ FlattenSeq(ss) \in Seq(MatchRecs)
        /\ Range(FlattenSeq(ss)) = UNION {Range(ss[k]) : k \in DOMAIN ss}
    BY <1>8, FlattenIs
  <1>10. UNION {Range(ss[k]) : k \in DOMAIN ss} = UNION {Range(Of(lines[k])) : k \in DOMAIN lines}  BY <1>7
  <1>11. UNION {Range(Of(lines[k])) : k \in DOMAIN lines} = UNION {Range(Of(line)) : line \in Range(lines)}
    <2>1. Range(lines) = {lines[k] : k \in DOMAIN lines}  BY DEF Range
    <2> QED  BY <2>1
  <1> QED  BY <1>2, <1>3, <1>9, <1>10, <1>11 DEF Of

LEMMA DiffsAre ==
  ASSUME NEW p \in PRs
  PROVE  DiffOf[p] \in Seq(Files) /\ \A file \in Range(DiffOf[p]) : FileWellFormed(file)
  <1>1. DiffOf[p] \in Seq(Files)  BY DiffsAssumption
  <1>2. \A file \in Range(DiffOf[p]) : file \in Files  BY <1>1 DEF Range
  <1> QED  BY <1>1, <1>2, DiffsAssumption DEF FileWellFormed

LEMMA SearchRange ==
  ASSUME NEW p \in PRs, NEW needle \in Texts, needle # <<>>
  PROVE  /\ SearchDiff(DiffOf[p], needle) \in Seq(MatchRecs)
         /\ Range(SearchDiff(DiffOf[p], needle)) =
              UNION {Range(FileMatches(file, needle)) : file \in Range(DiffOf[p])}
  <1> DEFINE files == DiffOf[p]
             Of(file) == FileMatches(file, needle)
             ss == [f \in DOMAIN files |-> Of(files[f])]
  <1>1. files \in Seq(Files) /\ \A file \in Range(files) : FileWellFormed(file)  BY DiffsAre
  <1>2. SearchDiff(files, needle) = FlattenSeq(ss)  BY DEF SearchDiff
  <1> HIDE DEF files
  <1>3. DOMAIN files = 1..Len(files) /\ Len(files) \in Nat /\ Range(files) = {files[f] : f \in DOMAIN files}
    BY <1>1 DEF Range
  <1>4. \A f \in 1..Len(files) : FileWellFormed(files[f])  BY <1>1, <1>3
  <1>5. \A f \in 1..Len(files) : Of(files[f]) \in Seq(MatchRecs)  BY <1>4, FileMatchesAre
  <1> HIDE DEF Of
  <1>6. ss \in [1..Len(files) -> Seq(MatchRecs)]  BY <1>3, <1>5
  <1>7. DOMAIN ss = DOMAIN files /\ \A f \in DOMAIN files : ss[f] = Of(files[f])  OBVIOUS
  <1> HIDE DEF ss
  <1>8. ss \in Seq(Seq(MatchRecs))  BY <1>3, <1>6, SeqDef
  <1>9. /\ FlattenSeq(ss) \in Seq(MatchRecs)
        /\ Range(FlattenSeq(ss)) = UNION {Range(ss[f]) : f \in DOMAIN ss}
    BY <1>8, FlattenIs
  <1>10. UNION {Range(ss[f]) : f \in DOMAIN ss} = UNION {Range(Of(files[f])) : f \in DOMAIN files}  BY <1>7
  <1>11. UNION {Range(Of(files[f])) : f \in DOMAIN files} = UNION {Range(Of(file)) : file \in Range(files)}
    BY <1>3
  <1> QED  BY <1>2, <1>9, <1>10, <1>11 DEF Of, files

LEMMA NumberedTyped ==
  ASSUME NEW file, FileWellFormed(file)
  PROVE  Numbered(file) \subseteq LineRecs
  <1>1. FileLines(file) \in Seq(LineRecs) /\ Range(FileLines(file)) = Numbered(file)  BY FileLinesAre
  <1> QED  BY <1>1 DEF Range

LEMMA ContentsAre ==
  ASSUME NEW p \in PRs, NEW c
  PROVE  c \in Contents[p] <=>
           \E file \in Range(DiffOf[p]) : \E line \in Numbered(file) : c = Located(file, line)
  BY DEF Contents

LEMMA LocatedIs ==
  ASSUME NEW file, NEW line
  PROVE  /\ Located(file, line).text = line.text
         /\ Position(Located(file, line)) = [file |-> file.name, line |-> line.line, side |-> line.side]
  BY DEF Located, Position

LEMMA MatchAtIs ==
  ASSUME NEW file, NEW line, NEW c
  PROVE  /\ MatchAt(file, line, c).column = c
         /\ Position(MatchAt(file, line, c)) = [file |-> file.name, line |-> line.line, side |-> line.side]
  BY DEF MatchAt, Position

\* The search of a diff returns places that are in it, and leaves out none but those that overlap
\* one it returns (searchDiff).
LEMMA SearchDiffIs ==
  ASSUME NEW p \in PRs, NEW needle \in Texts
  PROVE  /\ SearchDiff(DiffOf[p], needle) \in Seq(MatchRecs)
         /\ \A m \in Range(SearchDiff(DiffOf[p], needle)) : \E c \in Contents[p] :
              Position(c) = Position(m) /\ IsAt(c.text, needle, m.column)
         /\ needle # <<>> =>
              \A c \in Contents[p] : \A i \in 1..Len(c.text) : IsAt(c.text, needle, i) =>
                \E m \in Range(SearchDiff(DiffOf[p], needle)) :
                  Position(c) = Position(m) /\ m.column <= i /\ i < m.column + Len(needle)
  <1>1. CASE needle = <<>>
    <2>1. SearchDiff(DiffOf[p], needle) = <<>>  BY <1>1 DEF SearchDiff
    <2>2. Range(<<>>) = {} /\ <<>> \in Seq(MatchRecs)  BY DEF Range
    <2> QED  BY <1>1, <2>1, <2>2
  <1>2. CASE needle # <<>>
    <2> DEFINE found == SearchDiff(DiffOf[p], needle)
    <2>1. /\ found \in Seq(MatchRecs)
          /\ Range(found) = UNION {Range(FileMatches(file, needle)) : file \in Range(DiffOf[p])}
      BY <1>2, SearchRange
    <2>2. ASSUME NEW file \in Range(DiffOf[p])
          PROVE  /\ FileWellFormed(file) /\ file \in Files /\ Numbered(file) \subseteq LineRecs
                 /\ Range(FileMatches(file, needle)) =
                      UNION {Range(LineMatches(file, line, needle)) : line \in Numbered(file)}
      <3>1. FileWellFormed(file)  BY DiffsAre
      <3> QED  BY <1>2, <3>1, FileMatchesAre, NumberedTyped DEF FileWellFormed
    <2>3. ASSUME NEW file \in Range(DiffOf[p]), NEW line \in Numbered(file)
          PROVE  /\ Range(LineMatches(file, line, needle)) =
                      {MatchAt(file, line, c) : c \in Range(Columns(line.text, needle))}
                 /\ line.text \in Texts
      <3>1. file \in Files /\ line \in LineRecs  BY <2>2
      <3> QED  BY <1>2, <3>1, LineMatchesAre DEF LineRecs
    <2> HIDE DEF found
    <2>4. ASSUME NEW m \in Range(found)
          PROVE  \E c \in Contents[p] : Position(c) = Position(m) /\ IsAt(c.text, needle, m.column)
      <3>1. PICK file \in Range(DiffOf[p]) : m \in Range(FileMatches(file, needle))  BY <2>1
      <3>2. PICK line \in Numbered(file) : m \in Range(LineMatches(file, line, needle))  BY <2>2, <3>1
      <3>3. PICK k \in Range(Columns(line.text, needle)) : m = MatchAt(file, line, k)  BY <2>3, <3>2
      <3>4. IsAt(line.text, needle, k)  BY <1>2, <2>3, ColumnsAre
      <3>5. Located(file, line) \in Contents[p]  BY ContentsAre
      <3> QED  BY <3>3, <3>4, <3>5, LocatedIs, MatchAtIs
    <2>5. ASSUME NEW c \in Contents[p], NEW i \in 1..Len(c.text), IsAt(c.text, needle, i)
          PROVE  \E m \in Range(found) :
                   Position(c) = Position(m) /\ m.column <= i /\ i < m.column + Len(needle)
      <3>0. PICK file \in Range(DiffOf[p]) : \E line \in Numbered(file) : c = Located(file, line)
        BY ContentsAre
      <3>1. PICK line \in Numbered(file) : c = Located(file, line)  BY <3>0
      <3>2. c.text = line.text  BY <3>1, LocatedIs
      <3>3. PICK k \in Range(Columns(line.text, needle)) : k <= i /\ i < k + Len(needle)
        BY <1>2, <2>3, <2>5, <3>2, ColumnsAre
      <3>4. MatchAt(file, line, k) \in Range(LineMatches(file, line, needle))  BY <2>3
      <3>5. MatchAt(file, line, k) \in Range(FileMatches(file, needle))  BY <2>2, <3>4
      <3>6. MatchAt(file, line, k) \in Range(found)  BY <2>1, <3>5
      <3> QED  BY <3>1, <3>3, <3>6, LocatedIs, MatchAtIs
    <2> QED  BY <2>1, <2>4, <2>5 DEF found
  <1> QED  BY <1>1, <1>2

\* The lines of a pull request are the places of its numbered lines.
LEMMA LinesAre ==
  ASSUME NEW p \in PRs
  PROVE  LinesOf[p] = {Position(c) : c \in Contents[p]}
  <1> DEFINE At(file, line) == [file |-> file.name, line |-> line.line, side |-> line.side]
             Of(file) == {At(file, l) : l \in Range(FileLines(file))}
             files == DiffOf[p]
  <1>1. LinesOf[p] = UNION {Of(files[f]) : f \in DOMAIN files}  BY DEF LinesOf
  <1>2. \A f \in DOMAIN files : files[f] \in Range(files)  BY DEF Range
  <1>3. \A f \in DOMAIN files : Of(files[f]) = {At(files[f], l) : l \in Numbered(files[f])}
    <2> SUFFICES ASSUME NEW f \in DOMAIN files PROVE Of(files[f]) = {At(files[f], l) : l \in Numbered(files[f])}
      OBVIOUS
    <2>1. FileWellFormed(files[f])  BY <1>2, DiffsAre
    <2>2. Range(FileLines(files[f])) = Numbered(files[f])  BY <2>1, FileLinesAre
    <2> QED  BY <2>2
  <1>4. \A file, line : Position(Located(file, line)) = At(file, line)  BY LocatedIs
  <1>5. \A x : x \in LinesOf[p] <=> \E file \in Range(files) : \E line \in Numbered(file) : x = At(file, line)
    <2>1. Range(files) = {files[f] : f \in DOMAIN files}  BY DEF Range
    <2> HIDE DEF At, Of, files
    <2>2. \A x : x \in LinesOf[p] <=> \E f \in DOMAIN files : x \in Of(files[f])  BY <1>1
    <2>3. \A f \in DOMAIN files : \A x : x \in Of(files[f]) <=> \E l \in Numbered(files[f]) : x = At(files[f], l)
      BY <1>3
    <2> QED  BY <2>1, <2>2, <2>3
  <1>6. \A x : x \in {Position(c) : c \in Contents[p]} <=>
                 \E file \in Range(files) : \E line \in Numbered(file) : x = At(file, line)
    <2> HIDE DEF At
    <2> QED  BY <1>4, ContentsAre
  <1> HIDE DEF At
  <1> QED  BY <1>5, <1>6

-----------------------------------------------------------------------------
(* The view *)

\* What holds of a view by itself: its type, and what the search shows.
ViewOK(v) == v \in View /\ v.collapsed \subseteq FileNames(v.of)
Shows(v) ==
  /\ v.open /\ v.rendered /\ v.searchSel # NoLine =>
       /\ Matches(v) # <<>>
       /\ v.searchSel = Position(Matches(v)[CurrentIndex(v) + 1])
  /\ ~v.rendered => v.searchSel = NoLine
GoodView(v) == ViewOK(v) /\ Shows(v)

SameDiff(w, v) == w.of = v.of /\ w.rendered = v.rendered

LEMMA FilesAre ==
  /\ \A p \in PRs \cup {NoPR} : FileNames(p) \subseteq AllFiles
  /\ \A p \in PRs : \A l \in LinesOf[p] : l.file \in FileNames(p) /\ l \in AllLines
  /\ \A l \in AllLines : l.file \in AllFiles
  <1>1. \A p \in PRs : FileNames(p) = Names[p]
    BY PRDetailAssumption DEF FileNames
  <1>2. \A p \in PRs : Names[p] = {DiffOf[p][i].name : i \in DOMAIN DiffOf[p]}  BY DEF Names
  <1>3. \A p \in PRs : Names[p] \subseteq AllFiles  BY DEF AllFiles, Range, Names
  <1>4. ASSUME NEW p \in PRs, NEW l \in LinesOf[p]  PROVE l.file \in FileNames(p)
    <2>1. PICK c \in Contents[p] : l = Position(c)  BY LinesAre
    <2>2. PICK file \in Range(DiffOf[p]) : \E line \in Numbered(file) : c = Located(file, line)  BY ContentsAre
    <2>3. l.file = file.name  BY <2>1, <2>2, LocatedIs
    <2>4. file.name \in Names[p]  BY <1>2 DEF Range
    <2> QED  BY <1>1, <2>3, <2>4
  <1>5. \A l : l \in AllLines <=> \E p \in PRs : l \in LinesOf[p]
    <2>1. DOMAIN LinesOf = PRs  BY DEF LinesOf
    <2> QED  BY <2>1 DEF AllLines, Range
  <1>6. \A l \in AllLines : l.file \in AllFiles
    <2> SUFFICES ASSUME NEW l \in AllLines PROVE l.file \in AllFiles
      OBVIOUS
    <2>1. PICK p \in PRs : l \in LinesOf[p]  BY <1>5
    <2> QED  BY <1>1, <1>3, <1>4, <2>1
  <1>7. FileNames(NoPR) = {}  BY DEF FileNames
  <1> QED  BY <1>1, <1>3, <1>4, <1>5, <1>6, <1>7

\* The index of a match is within the matches, and its place is in the diff the view is of.
LEMMA MatchesAre ==
  ASSUME NEW v \in View
  PROVE  /\ Matches(v) \in Seq(MatchRecs) /\ CurrentIndex(v) \in Nat
         /\ Matches(v) # <<>> =>
              /\ v.of \in PRs /\ CurrentIndex(v) + 1 \in 1..Len(Matches(v))
              /\ Position(Matches(v)[CurrentIndex(v) + 1]) \in LinesOf[v.of]
  <1>1. v.of \in PRs \cup {NoPR} /\ v.query \in Queries \cup {<<>>} /\ v.index \in Nat  BY DEF View
  <1>2. v.query \in Texts
    <2>1. Queries \subseteq Texts /\ <<>> \in Texts  BY DiffsAssumption DEF Texts
    <2> QED  BY <1>1, <2>1
  <1>3. v.of # NoPR => Matches(v) = SearchDiff(DiffOf[v.of], v.query)
    BY <1>1 DEF Matches, MatchesIn
  <1>4. v.of = NoPR => Matches(v) = <<>>  BY DEF Matches
  <1>5. Matches(v) \in Seq(MatchRecs)
    <2>1. CASE v.of = NoPR  BY <1>4, <2>1
    <2>2. CASE v.of # NoPR
      <3>1. v.of \in PRs  BY <1>1, <2>2
      <3>2. SearchDiff(DiffOf[v.of], v.query) \in Seq(MatchRecs)  BY <1>2, <3>1, SearchDiffIs
      <3> QED  BY <1>3, <2>2, <3>2
    <2> QED  BY <2>1, <2>2
  <1>6. CurrentIndex(v) \in Nat /\ (Matches(v) # <<>> => CurrentIndex(v) + 1 \in 1..Len(Matches(v)))
    <2> DEFINE n == Len(Matches(v))
               i == v.index
               ms == Matches(v)
    <2>1. n \in Nat /\ i \in Nat /\ (ms # <<>> => n > 0)  BY <1>1, <1>5
    <2>2. CurrentIndex(v) = IF n - 1 < 0 THEN 0 ELSE IF i < n - 1 THEN i ELSE n - 1  BY DEF CurrentIndex
    <2> HIDE DEF n, i, ms
    <2>3. CurrentIndex(v) \in Nat /\ (ms # <<>> => CurrentIndex(v) + 1 \in 1..n)  BY <2>1, <2>2
    <2> QED  BY <2>3 DEF n, ms
  <1>7. ASSUME Matches(v) # <<>>  PROVE Position(Matches(v)[CurrentIndex(v) + 1]) \in LinesOf[v.of] /\ v.of \in PRs
    <2>1. v.of \in PRs  BY <1>1, <1>4, <1>7
    <2>2. Matches(v) = SearchDiff(DiffOf[v.of], v.query)  BY <1>3, <1>4, <1>7
    <2>3. Matches(v)[CurrentIndex(v) + 1] \in Range(Matches(v))  BY <1>5, <1>6, <1>7 DEF Range
    <2>4. \E c \in Contents[v.of] : Position(c) = Position(Matches(v)[CurrentIndex(v) + 1])
      BY <1>2, <2>1, <2>2, <2>3, SearchDiffIs
    <2> QED  BY <2>1, <2>4, LinesAre
  <1> QED  BY <1>5, <1>6, <1>7

LEMMA CloseSearchOK ==
  ASSUME NEW v, GoodView(v)
  PROVE  GoodView(CloseSearch(v)) /\ SameDiff(CloseSearch(v), v)
  BY DEF GoodView, ViewOK, Shows, CloseSearch, Restored, View, Selected, SameDiff

\* Whatever it is run on, the effect of the search leaves a selection that is its match.
LEMMA SearchEffectOK ==
  ASSUME NEW v, ViewOK(v), ~v.rendered => v.searchSel = NoLine
  PROVE  GoodView(SearchEffect(v)) /\ SameDiff(SearchEffect(v), v)
  <1>1. CASE ~v.open \/ ~v.rendered
    BY <1>1 DEF SearchEffect, GoodView, SameDiff, Shows
  <1>2. CASE v.open /\ v.rendered /\ Matches(v) = <<>>
    <2> DEFINE w == [v EXCEPT !.sel = Restored(v), !.searchSel = NoLine]
    <2>1. SearchEffect(v) = w  BY <1>2 DEF SearchEffect
    <2>2. w.searchSel = NoLine /\ ViewOK(w) /\ SameDiff(w, v)
      BY DEF ViewOK, View, Restored, Selected, SameDiff
    <2>3. w.rendered  BY <1>2, <2>2 DEF SameDiff
    <2> HIDE DEF w
    <2> QED  BY <2>1, <2>2, <2>3 DEF GoodView, Shows
  <1>3. CASE v.open /\ v.rendered /\ Matches(v) # <<>>
    <2> DEFINE pos == Position(Matches(v)[CurrentIndex(v) + 1])
               w == SelectMatch(v, pos)
    <2>1. SearchEffect(v) = w  BY <1>3 DEF SearchEffect
    <2>2. v \in View  BY DEF ViewOK
    <2>3. pos \in AllLines  BY <1>3, <2>2, MatchesAre, FilesAre
    <2> HIDE DEF pos
    <2>4. ViewOK(w) /\ SameDiff(w, v) /\ w.searchSel = pos /\ w.query = v.query /\ w.index = v.index
      BY <2>3 DEF ViewOK, View, Selected, SameDiff, SelectMatch
    <2>5. Matches(w) = Matches(v)  BY <2>4 DEF Matches, SameDiff
    <2>6. CurrentIndex(w) = CurrentIndex(v)  BY <2>4, <2>5 DEF CurrentIndex
    <2>7. w.rendered  BY <1>3, <2>4 DEF SameDiff
    <2> HIDE DEF w
    <2> QED  BY <1>3, <2>1, <2>4, <2>5, <2>6, <2>7 DEF GoodView, Shows, pos
  <1> QED  BY <1>1, <1>2, <1>3

LEMMA SetMatchIndexOK ==
  ASSUME NEW v, GoodView(v), NEW i \in Nat
  PROVE  GoodView(SetMatchIndex(v, i)) /\ SameDiff(SetMatchIndex(v, i), v)
  <1>1. CASE i = v.index  BY <1>1 DEF SetMatchIndex, SameDiff
  <1>2. CASE i # v.index
    <2> DEFINE w == [v EXCEPT !.index = i]
    <2>1. ViewOK(w) /\ SameDiff(w, v) /\ (~w.rendered => w.searchSel = NoLine)
      BY DEF GoodView, ViewOK, View, Shows, SameDiff
    <2> HIDE DEF w
    <2>2. GoodView(SearchEffect(w)) /\ SameDiff(SearchEffect(w), w)  BY <2>1, SearchEffectOK
    <2> QED  BY <1>2, <2>1, <2>2 DEF SetMatchIndex, SameDiff, w
  <1> QED  BY <1>1, <1>2

LEMMA InputOK ==
  ASSUME NEW v, GoodView(v), NEW query \in Queries \cup {<<>>}
  PROVE  GoodView(Input(v, query)) /\ SameDiff(Input(v, query), v)
  <1> DEFINE u == SetMatchIndex(v, 0)
             w == [u EXCEPT !.query = query]
  <1>1. GoodView(u) /\ SameDiff(u, v)  BY SetMatchIndexOK
  <1> HIDE DEF u
  <1>2. ViewOK(w) /\ SameDiff(w, u) /\ (~w.rendered => w.searchSel = NoLine)
    BY <1>1 DEF GoodView, ViewOK, View, Shows, SameDiff
  <1>3. Input(v, query) = SearchEffect(w)  BY DEF Input, u
  <1> HIDE DEF w
  <1> QED  BY <1>1, <1>2, <1>3, SearchEffectOK DEF SameDiff

LEMMA MoveMatchOK ==
  ASSUME NEW v, GoodView(v), NEW step \in {-1, 1}
  PROVE  GoodView(MoveMatch(v, step)) /\ SameDiff(MoveMatch(v, step), v)
  <1> DEFINE n == Len(Matches(v))
             i == CurrentIndex(v)
             to == (i + step + n) % n
  <1>1. v \in View  BY DEF GoodView, ViewOK
  <1>2. n \in Nat /\ i \in Nat  BY <1>1, MatchesAre
  <1>3. CASE n = 0  BY <1>3 DEF MoveMatch, SameDiff
  <1>4. CASE n # 0
    <2>1. MoveMatch(v, step) = SetMatchIndex(v, to)  BY <1>4 DEF MoveMatch
    <2>2. to \in Nat
      <3> HIDE DEF n, i
      <3>1. i + step + n \in Int /\ n \in Nat /\ n > 0  BY <1>2, <1>4
      <3> DEFINE x == i + step + n
      <3> HIDE DEF x
      <3>2. x % n \in 0..(n - 1)  BY <3>1 DEF x
      <3> QED  BY <1>2, <3>2 DEF x
    <2> HIDE DEF to
    <2> QED  BY <2>1, <2>2, SetMatchIndexOK
  <1> QED  BY <1>3, <1>4

LEMMA OpenSearchOK ==
  ASSUME NEW v, GoodView(v)
  PROVE  GoodView(OpenSearch(v)) /\ SameDiff(OpenSearch(v), v)
  <1> DEFINE w == [v EXCEPT !.before = v.sel, !.open = TRUE]
  <1>1. /\ ViewOK(w) /\ SameDiff(w, v)
        /\ w.searchSel = v.searchSel /\ w.query = v.query /\ w.index = v.index /\ w.open
    BY DEF GoodView, ViewOK, View, SameDiff
  <1>2. OpenSearch(v) = IF v.open THEN w ELSE SearchEffect(w)  BY DEF OpenSearch
  <1> HIDE DEF w
  <1>3. CASE v.open
    <2>1. Matches(w) = Matches(v)  BY <1>1 DEF Matches, SameDiff
    <2>2. CurrentIndex(w) = CurrentIndex(v)  BY <1>1, <2>1 DEF CurrentIndex
    <2> QED  BY <1>1, <1>2, <1>3, <2>1, <2>2 DEF GoodView, Shows, SameDiff
  <1>4. CASE ~v.open
    <2>1. GoodView(SearchEffect(w)) /\ SameDiff(SearchEffect(w), w)  BY <1>1, SearchEffectOK DEF GoodView, Shows, SameDiff
    <2> QED  BY <1>1, <1>2, <1>4, <2>1 DEF SameDiff
  <1> QED  BY <1>3, <1>4

LEMMA RebuiltOK ==
  ASSUME NEW v, GoodView(v), NEW p \in PRs
  PROVE  GoodView(Rebuilt(v, p)) /\ Rebuilt(v, p).of = p /\ Rebuilt(v, p).rendered
  BY DEF GoodView, ViewOK, View, Shows, Rebuilt, Selected

LEMMA DepartedOK ==
  ASSUME NEW v, GoodView(v)
  PROVE  GoodView(Departed(v)) /\ Departed(v).of = v.of /\ ~Departed(v).rendered
  <1> DEFINE u == CloseSearch(v)
  <1>1. GoodView(u) /\ SameDiff(u, v)  BY CloseSearchOK
  <1>2. Departed(v) = [u EXCEPT !.rendered = FALSE] /\ u.searchSel = NoLine
    BY DEF Departed, CloseSearch, GoodView, ViewOK, View
  <1> HIDE DEF u
  <1>3. ViewOK(Departed(v)) /\ Departed(v).of = u.of /\ ~Departed(v).rendered
    BY <1>1, <1>2 DEF GoodView, ViewOK, View
  <1>4. Departed(v).searchSel = NoLine  BY <1>1, <1>2 DEF GoodView, ViewOK, View
  <1> QED  BY <1>1, <1>3, <1>4 DEF GoodView, Shows, SameDiff

\* What moves the selection, or what is collapsed, and leaves the search alone.
SearchLeft(w, v) ==
  /\ SameDiff(w, v) /\ w.open = v.open /\ w.query = v.query /\ w.index = v.index
  /\ w.searchSel = v.searchSel

LEMMA SearchLeftShows ==
  ASSUME NEW v, NEW w, Shows(v), SearchLeft(w, v)
  PROVE  Shows(w)
  <1>1. Matches(w) = Matches(v)  BY DEF Matches, SearchLeft, SameDiff
  <1>2. CurrentIndex(w) = CurrentIndex(v)  BY <1>1 DEF CurrentIndex, SearchLeft
  <1> QED  BY <1>1, <1>2 DEF Shows, SearchLeft, SameDiff

LEMMA ToggleCollapsedOK ==
  ASSUME NEW v, GoodView(v), NEW file
  PROVE  GoodView(ToggleCollapsed(v, file)) /\ SameDiff(ToggleCollapsed(v, file), v)
  <1>1. v.of \in PRs \cup {NoPR}  BY DEF GoodView, ViewOK, View
  <1>2. FileNames(v.of) \subseteq AllFiles  BY <1>1, FilesAre
  <1>3. ViewOK(ToggleCollapsed(v, file)) /\ SearchLeft(ToggleCollapsed(v, file), v)
    BY <1>2 DEF GoodView, ViewOK, View, ToggleCollapsed, SearchLeft, SameDiff
  <1> QED  BY <1>3, SearchLeftShows DEF GoodView, SearchLeft

LEMMA FocusEffectOK ==
  ASSUME NEW v, GoodView(v), NEW t \in Selected
  PROVE  GoodView(FocusEffect(v, t)) /\ SameDiff(FocusEffect(v, t), v)
  <1>1. t # NoLine => t.file \in AllFiles  BY FilesAre DEF Selected
  <1>2. ViewOK(FocusEffect(v, t)) /\ SearchLeft(FocusEffect(v, t), v)
    BY <1>1 DEF GoodView, ViewOK, View, FocusEffect, SearchLeft, SameDiff
  <1> QED  BY <1>2, SearchLeftShows DEF GoodView, SearchLeft

LEMMA FileFocusEffectOK ==
  ASSUME NEW v, GoodView(v), NEW file
  PROVE  GoodView(FileFocusEffect(v, file)) /\ SameDiff(FileFocusEffect(v, file), v)
  <1>1. ViewOK(FileFocusEffect(v, file)) /\ SearchLeft(FileFocusEffect(v, file), v)
    BY DEF GoodView, ViewOK, View, FileFocusEffect, SearchLeft, SameDiff
  <1> QED  BY <1>1, SearchLeftShows DEF GoodView, SearchLeft

LEMMA ClickedOK ==
  ASSUME NEW v, GoodView(v), NEW line \in AllLines
  PROVE  GoodView(Clicked(v, line)) /\ SameDiff(Clicked(v, line), v)
  <1>1. line.file \in AllFiles  BY FilesAre
  <1>2. ViewOK(Clicked(v, line)) /\ SearchLeft(Clicked(v, line), v)
    BY <1>1 DEF GoodView, ViewOK, View, Selected, Clicked, Deselects, SearchLeft, SameDiff
  <1> QED  BY <1>2, SearchLeftShows DEF GoodView, SearchLeft

\* The patch arrives: whatever was focused and searched, the view is of it and is good.
LEMMA ArrivedOK ==
  ASSUME NEW v, GoodView(v), NEW p \in PRs, NEW t \in Selected, NEW file
  PROVE  GoodView(Arrived(v, p, t, file)) /\ Arrived(v, p, t, file).of = p /\ Arrived(v, p, t, file).rendered
  <1> DEFINE a == Rebuilt(v, p)
             b == FocusEffect(a, t)
             c == FileFocusEffect(b, file)
  <1>1. GoodView(a) /\ a.of = p /\ a.rendered  BY RebuiltOK
  <1> HIDE DEF a
  <1>2. GoodView(b) /\ SameDiff(b, a)  BY <1>1, FocusEffectOK
  <1> HIDE DEF b
  <1>3. GoodView(c) /\ SameDiff(c, b)  BY <1>2, FileFocusEffectOK
  <1> HIDE DEF c
  <1>4. GoodView(SearchEffect(c)) /\ SameDiff(SearchEffect(c), c)  BY <1>3, SearchEffectOK DEF GoodView, Shows
  <1>5. Arrived(v, p, t, file) = SearchEffect(c)  BY DEF Arrived, a, b, c
  <1> QED  BY <1>1, <1>2, <1>3, <1>4, <1>5 DEF SameDiff

LEMMA ThemedOK ==
  ASSUME NEW v, GoodView(v), v.of \in PRs
  PROVE  GoodView(Themed(v)) /\ Themed(v).of = v.of /\ Themed(v).rendered
  <1> DEFINE a == Rebuilt(v, v.of)
  <1>1. GoodView(a) /\ a.of = v.of /\ a.rendered  BY RebuiltOK
  <1>2. Themed(v) = SearchEffect(a)  BY DEF Themed
  <1> HIDE DEF a
  <1>3. GoodView(SearchEffect(a)) /\ SameDiff(SearchEffect(a), a)  BY <1>1, SearchEffectOK DEF GoodView, Shows
  <1> QED  BY <1>1, <1>2, <1>3 DEF SameDiff

-----------------------------------------------------------------------------
(* The picks, and the line they point the link to *)

\* At most one pick of a file, and its line, if it has one, is of the new side.
PicksOK(pk) ==
  /\ pk \in Seq(Pick)
  /\ \A i, j \in DOMAIN pk : pk[i].file = pk[j].file => i = j
  /\ \A i \in DOMAIN pk : pk[i].line # NoLine =>
       [file |-> pk[i].file, line |-> pk[i].line, side |-> "additions"] \in AllLines

LEMMA AllLinesAre ==
  ASSUME NEW l \in AllLines
  PROVE  l.side \in Sides /\ l = [file |-> l.file, line |-> l.line, side |-> l.side]
  <1>1. PICK p \in PRs : l \in LinesOf[p]
    <2>1. DOMAIN LinesOf = PRs  BY DEF LinesOf
    <2> QED  BY <2>1 DEF AllLines, Range
  <1>2. PICK c \in Contents[p] : l = Position(c)  BY <1>1, LinesAre
  <1>3. PICK file \in Range(DiffOf[p]) : \E line \in Numbered(file) : c = Located(file, line)  BY ContentsAre
  <1>4. PICK line \in Numbered(file) : c = Located(file, line)  BY <1>3
  <1>5. line \in LineRecs  BY DiffsAre, NumberedTyped
  <1>6. line.side \in Sides  BY <1>5 DEF LineRecs
  <1> QED  BY <1>2, <1>4, <1>6, LocatedIs

LEMMA RemoveAtIs ==
  ASSUME NEW S, NEW s \in Seq(S), NEW i \in 1..Len(s)
  PROVE  /\ RemoveAt(s, i) \in Seq(S) /\ Len(RemoveAt(s, i)) = Len(s) - 1
         /\ \A j \in 1..(Len(s) - 1) : RemoveAt(s, i)[j] = IF j < i THEN s[j] ELSE s[j + 1]
  <1> DEFINE n == Len(s)
             a == SubSeq(s, 1, i - 1)
             b == SubSeq(s, i + 1, n)
  <1>1. n \in Nat /\ i \in Nat /\ i <= n /\ 1 <= i  OBVIOUS
  <1>2. a \in Seq(S) /\ Len(a) = i - 1 /\ \A j \in 1..(i - 1) : a[j] = s[j]
    BY <1>1
  <1>3. b \in Seq(S) /\ Len(b) = n - i /\ \A j \in 1..(n - i) : b[j] = s[j + i]
    BY <1>1
  <1>4. RemoveAt(s, i) = a \o b  BY DEF RemoveAt
  <1> HIDE DEF a, b, n
  <1>5. a \o b \in Seq(S) /\ Len(a \o b) = (i - 1) + (n - i)
    <2>1. a \in Seq(S) /\ b \in Seq(S)  BY <1>2, <1>3
    <2>2. a \o b \in Seq(S) /\ Len(a \o b) = Len(a) + Len(b)  BY <2>1, ConcatProperties
    <2> QED  BY <1>2, <1>3, <2>2
  <1>6. ASSUME NEW j \in 1..(n - 1)  PROVE (a \o b)[j] = IF j < i THEN s[j] ELSE s[j + 1]
    <2>1. CASE j < i  BY <1>1, <1>2, <1>3, <2>1
    <2>2. CASE ~(j < i)
      <3>1. j - (i - 1) \in 1..(n - i) /\ (j - (i - 1)) + i = j + 1  BY <1>1, <2>2
      <3>2. (a \o b)[j] = b[j - (i - 1)]  BY <1>1, <1>2, <1>3, <2>2
      <3> QED  BY <1>3, <2>2, <3>1, <3>2
    <2> QED  BY <2>1, <2>2
  <1> QED  BY <1>1, <1>4, <1>5, <1>6 DEF n

LEMMA LeastIndex ==
  ASSUME NEW s \in SUBSET Nat, s # {}
  PROVE  Min(s) \in s
  <1>1. \E x \in s : \A y \in s : x <= y  BY Least
  <1> QED  BY <1>1 DEF Min

LEMMA PickIndexIs ==
  ASSUME PicksOK(picks), NEW file, PickIndex(file) # {}
  PROVE  Min(PickIndex(file)) \in 1..Len(picks) /\ picks[Min(PickIndex(file))].file = file
  <1>1. PickIndex(file) \subseteq 1..Len(picks) /\ PickIndex(file) \subseteq Nat  BY DEF PickIndex, PicksOK
  <1>2. Min(PickIndex(file)) \in PickIndex(file)  BY <1>1, LeastIndex
  <1> QED  BY <1>1, <1>2 DEF PickIndex

\* Taking a pick out leaves the others (removePick).
LEMMA RemovePickOK ==
  ASSUME PicksOK(picks), NEW file
  PROVE  PicksOK(RemovePick(file))
  <1>1. CASE PickIndex(file) = {}  BY <1>1 DEF RemovePick
  <1>2. CASE PickIndex(file) # {}
    <2> DEFINE i == Min(PickIndex(file))
               n == Len(picks)
               r == RemoveAt(picks, i)
               from(j) == IF j < i THEN j ELSE j + 1
    <2>1. i \in 1..n /\ picks \in Seq(Pick) /\ n \in Nat  BY <1>2, PickIndexIs DEF PicksOK
    <2>2. RemovePick(file) = r  BY <1>2 DEF RemovePick
    <2> HIDE DEF i
    <2>3. /\ r \in Seq(Pick) /\ Len(r) = n - 1
          /\ \A j \in 1..(n - 1) : r[j] = IF j < i THEN picks[j] ELSE picks[j + 1]
      BY <2>1, RemoveAtIs
    <2> HIDE DEF r
    <2>4. DOMAIN r = 1..(n - 1) /\ DOMAIN picks = 1..n  BY <2>1, <2>3
    <2>5. \A j \in DOMAIN r : from(j) \in DOMAIN picks /\ r[j] = picks[from(j)]  BY <2>1, <2>3, <2>4
    <2>6. \A j, k \in DOMAIN r : from(j) = from(k) => j = k  BY <2>1, <2>4
    <2> HIDE DEF from, n
    <2>7. \A j, k \in DOMAIN r : r[j].file = r[k].file => j = k  BY <2>5, <2>6 DEF PicksOK
    <2>8. \A j \in DOMAIN r : r[j].line # NoLine =>
            [file |-> r[j].file, line |-> r[j].line, side |-> "additions"] \in AllLines
      BY <2>5 DEF PicksOK
    <2> QED  BY <2>2, <2>3, <2>7, <2>8 DEF PicksOK
  <1> QED  BY <1>1, <1>2

\* A click on a line picks its file once, and a line of the old side leaves the pick without
\* one (pickLine).
LEMMA PickLineOK ==
  ASSUME PicksOK(picks), NEW l \in AllLines
  PROVE  PicksOK(PickLine(l))
  <1> DEFINE pinned == IF l.side = "deletions" THEN NoLine ELSE l.line
             n == Len(picks)
             new == [file |-> l.file, line |-> pinned]
  <1>1. picks \in Seq(Pick) /\ n \in Nat /\ DOMAIN picks = 1..n  BY DEF PicksOK
  <1>2. l.file \in AllFiles /\ l.side \in Sides /\ l = [file |-> l.file, line |-> l.line, side |-> l.side]
    BY AllLinesAre, FilesAre
  <1>3. pinned \in {k.line : k \in AllLines} \cup {NoLine}  OBVIOUS
  <1>4. pinned # NoLine => [file |-> l.file, line |-> pinned, side |-> "additions"] \in AllLines
    <2> SUFFICES ASSUME pinned # NoLine PROVE [file |-> l.file, line |-> pinned, side |-> "additions"] \in AllLines
      OBVIOUS
    <2>1. l.side = "additions" /\ pinned = l.line  BY <1>2 DEF Sides
    <2> QED  BY <1>2, <2>1
  <1>5. CASE PickIndex(l.file) = {}
    <2> DEFINE r == Append(picks, new)
    <2>1. PickLine(l) = r  BY <1>5 DEF PickLine
    <2> HIDE DEF pinned
    <2>2. new \in Pick /\ new.file = l.file /\ new.line = pinned  BY <1>2, <1>3 DEF Pick
    <2> HIDE DEF new
    <2>3. r \in Seq(Pick) /\ DOMAIN r = 1..(n + 1) /\ r[n + 1] = new /\ \A i \in 1..n : r[i] = picks[i]
      BY <1>1, <2>2
    <2>4. 1..(n + 1) = (1..n) \cup {n + 1} /\ n + 1 \notin 1..n  BY <1>1
    <2> HIDE DEF r, n
    <2>5. \A i \in 1..n : picks[i].file # l.file  BY <1>1, <1>5 DEF PickIndex
    <2>6. \A i, j \in DOMAIN r : r[i].file = r[j].file => i = j
      BY <1>1, <2>2, <2>3, <2>4, <2>5 DEF PicksOK
    <2>7. \A i \in DOMAIN r : r[i].line # NoLine =>
            [file |-> r[i].file, line |-> r[i].line, side |-> "additions"] \in AllLines
      BY <1>1, <1>4, <2>2, <2>3, <2>4 DEF PicksOK
    <2> QED  BY <2>1, <2>3, <2>6, <2>7 DEF PicksOK
  <1>6. CASE PickIndex(l.file) # {}
    <2> DEFINE m == Min(PickIndex(l.file))
               r == [picks EXCEPT ![m].line = pinned]
    <2>1. PickLine(l) = r  BY <1>6 DEF PickLine
    <2>2. m \in 1..n /\ picks[m].file = l.file  BY <1>6, PickIndexIs
    <2> HIDE DEF m, pinned
    <2>3. picks[m] \in Pick  BY <1>1, <2>2
    <2> DEFINE x == [picks[m] EXCEPT !.line = pinned]
    <2>4. x \in Pick /\ x.file = l.file /\ x.line = pinned  BY <1>3, <2>2, <2>3 DEF Pick
    <2>5. r = [picks EXCEPT ![m] = x]  OBVIOUS
    <2> HIDE DEF r, x, n
    <2>6. r \in Seq(Pick) /\ DOMAIN r = 1..n /\ \A i \in 1..n : r[i] = IF i = m THEN x ELSE picks[i]
      BY <1>1, <2>2, <2>4, <2>5
    <2>7. \A i \in 1..n : r[i].file = picks[i].file  BY <2>2, <2>4, <2>6
    <2>8. \A i, j \in DOMAIN r : r[i].file = r[j].file => i = j  BY <1>1, <2>6, <2>7 DEF PicksOK
    <2>9. \A i \in DOMAIN r : r[i].line # NoLine =>
            [file |-> r[i].file, line |-> r[i].line, side |-> "additions"] \in AllLines
      BY <1>1, <1>4, <2>4, <2>6 DEF PicksOK
    <2> QED  BY <2>1, <2>6, <2>8, <2>9 DEF PicksOK
  <1> QED  BY <1>5, <1>6

\* The link's target is a line of a diff, or none (anchorTarget).
LEMMA TargetIs ==
  ASSUME NEW tb, NEW fc \in Selected, NEW pk, PicksOK(pk)
  PROVE  Target(tb, fc, pk) \in Selected
  <1> DEFINE lined == {i \in DOMAIN pk : pk[i].line # NoLine}
  <1>1. pk \in Seq(Pick) /\ Len(pk) \in Nat /\ lined \in SUBSET (1..Len(pk))  BY DEF PicksOK
  <1>2. ASSUME lined # {}
        PROVE  [file |-> pk[Max(lined)].file, line |-> pk[Max(lined)].line, side |-> "additions"] \in AllLines
    <2> HIDE DEF lined
    <2>1. Max(lined) \in lined  BY <1>1, <1>2, MaxIs
    <2> QED  BY <2>1 DEF PicksOK, lined
  <1>3. NoLine \in Selected /\ AllLines \subseteq Selected  BY DEF Selected
  <1> QED  BY <1>2, <1>3 DEF Target

-----------------------------------------------------------------------------
(* The inductive invariant *)

\* Where a patch is there it is rendered, and nothing is before the view is mounted.
ViewFollows ==
  /\ view.of # NoPR => mounted
  /\ mounted /\ Patch(cache, pr) => view.rendered

OfPage == view.rendered => view.of = pr /\ Patch(cache, pr)

ViewInv ==
  /\ pr \in PRs /\ mounted \in BOOLEAN
  /\ cache \in [PRs -> {"none", "loading", "ready", "failed"}]
  /\ GoodView(view) /\ OfPage /\ ViewFollows

\* A digest that is awaited is that of the target's file.
AwaitedIsTarget == awaiting # NoLine => awaiting = target

LinkInv ==
  /\ tab \in {"description", "files"} /\ focus \in Selected /\ PicksOK(picks)
  /\ anchor \in Selected /\ awaiting \in Selected
  /\ hashing \subseteq AllLines /\ digests \subseteq AllFiles
  /\ AnchorIsTarget /\ AwaitedIsTarget

RestInv ==
  /\ fullscreen \in BOOLEAN /\ modal \in BOOLEAN /\ opening \in Nat /\ tmuxBusy \in BOOLEAN
  /\ fileFocus \in AllFiles \cup {NoFile}
  /\ acts \in 0..MaxActs /\ faults \in 0..MaxFaults

PageInv == ViewInv /\ LinkInv /\ RestInv

LEMMA FetchedIs ==
  ASSUME NEW p \in PRs, cache \in [PRs -> {"none", "loading", "ready", "failed"}]
  PROVE  /\ Fetched(cache, p) \in [PRs -> {"none", "loading", "ready", "failed"}]
         /\ \A q \in PRs : Patch(Fetched(cache, p), q) <=> Patch(cache, q)
  BY DEF Fetched, Patch

LEMMA InitInv ==
  ASSUME Init
  PROVE  PageInv
  <1>1. NoLine \in Selected /\ NoFile \in AllFiles \cup {NoFile}  BY DEF Selected
  <1>2. GoodView(view)
    BY <1>1 DEF Init, NoView, GoodView, ViewOK, View, Shows
  <1>3. ViewInv
    BY <1>2 DEF Init, ViewInv, OfPage, ViewFollows, NoView, Patch
  <1>4. PicksOK(picks)  BY DEF Init, PicksOK
  <1>5. target = NoLine  BY DEF Init, target, Target
  <1>6. LinkInv  BY <1>1, <1>4, <1>5 DEF Init, LinkInv, AnchorIsTarget, AwaitedIsTarget
  <1>7. RestInv
    <2>1. 0 \in 0..MaxActs /\ 0 \in 0..MaxFaults /\ 0 \in Nat  BY PRDetailAssumption
    <2> QED  BY <1>1, <2>1 DEF Init, RestInv
  <1> QED  BY <1>3, <1>6, <1>7 DEF PageInv

\* A step that leaves the page and its view alone, and what is there of the patches.
LEMMA ViewKept ==
  ASSUME ViewInv, pr' = pr, mounted' = mounted, view' = view,
         cache' = cache \/ cache' = Fetched(cache, pr)
  PROVE  ViewInv'
  <1>1. cache' \in [PRs -> {"none", "loading", "ready", "failed"}] /\ (Patch(cache', pr) <=> Patch(cache, pr))
    BY FetchedIs DEF ViewInv
  <1> QED  BY <1>1 DEF ViewInv, OfPage, ViewFollows

\* A step in the diff: of the same pull request, and as rendered as before.
LEMMA ViewMoved ==
  ASSUME ViewInv, pr' = pr, mounted' = mounted, cache' = cache \/ cache' = Fetched(cache, pr),
         GoodView(view'), SameDiff(view', view)
  PROVE  ViewInv'
  <1>1. cache' \in [PRs -> {"none", "loading", "ready", "failed"}] /\ (Patch(cache', pr) <=> Patch(cache, pr))
    BY FetchedIs DEF ViewInv
  <1> QED  BY <1>1 DEF ViewInv, OfPage, ViewFollows, SameDiff

Builds(tb, p) == (IF mounted THEN p # pr ELSE tb = "files") /\ Patch(cache, p)

\* What becomes of the view when the page is at p (Shown).
LEMMA ShownIs ==
  ASSUME ViewInv, NEW tb, NEW p \in PRs, NEW t \in Selected, NEW file
  PROVE  /\ GoodView(Shown(tb, p, t, file))
         /\ Builds(tb, p) => Shown(tb, p, t, file).of = p /\ Shown(tb, p, t, file).rendered
         /\ ~Builds(tb, p) =>
              /\ Shown(tb, p, t, file).of = view.of
              /\ Shown(tb, p, t, file).rendered => p = pr /\ view.rendered
              /\ p = pr /\ view.rendered => Shown(tb, p, t, file).rendered
  <1> DEFINE v == IF p # pr THEN Departed(view)
                  ELSE IF tb # "files" /\ view.open THEN CloseSearch(view) ELSE view
  <1>1. GoodView(view)  BY DEF ViewInv
  <1>2. /\ GoodView(v) /\ v.of = view.of
        /\ v.rendered => p = pr /\ view.rendered
        /\ p = pr /\ view.rendered => v.rendered
    <2>1. CASE p # pr  BY <1>1, <2>1, DepartedOK
    <2>2. CASE p = pr /\ tb # "files" /\ view.open  BY <1>1, <2>2, CloseSearchOK DEF SameDiff
    <2>3. CASE p = pr /\ ~(tb # "files" /\ view.open)  BY <1>1, <2>3
    <2> QED  BY <2>1, <2>2, <2>3
  <1>3. Shown(tb, p, t, file) = IF Builds(tb, p) THEN Arrived(v, p, t, file) ELSE v
    BY DEF Shown, Builds
  <1> HIDE DEF v
  <1>4. GoodView(Arrived(v, p, t, file)) /\ Arrived(v, p, t, file).of = p /\ Arrived(v, p, t, file).rendered
    BY <1>2, ArrivedOK
  <1> QED  BY <1>2, <1>3, <1>4

\* The page shows a tab of p: the view is built, or is not rendered, or stays.
LEMMA ViewShown ==
  ASSUME ViewInv, NEW tb, NEW p \in PRs, NEW t \in Selected, NEW file,
         pr' = p, mounted' = (mounted \/ tb = "files"),
         cache' = cache \/ cache' = Fetched(cache, p),
         view' = Shown(tb, p, t, file)
  PROVE  ViewInv'
  <1>1. cache' \in [PRs -> {"none", "loading", "ready", "failed"}] /\ (Patch(cache', p) <=> Patch(cache, p))
    BY FetchedIs DEF ViewInv
  <1>2. /\ GoodView(view')
        /\ Builds(tb, p) => view'.of = p /\ view'.rendered
        /\ ~Builds(tb, p) =>
             /\ view'.of = view.of
             /\ view'.rendered => p = pr /\ view.rendered
             /\ p = pr /\ view.rendered => view'.rendered
    <2> DEFINE w == view'
               x == Shown(tb, p, t, file)
    <2>1. /\ GoodView(x)
          /\ Builds(tb, p) => x.of = p /\ x.rendered
          /\ ~Builds(tb, p) =>
               /\ x.of = view.of
               /\ x.rendered => p = pr /\ view.rendered
               /\ p = pr /\ view.rendered => x.rendered
      BY ShownIs
    <2>2. w = x  OBVIOUS
    <2> HIDE DEF x, w
    <2> QED  BY <2>1, <2>2 DEF w
  <1>3. OfPage'  BY <1>1, <1>2 DEF ViewInv, OfPage, Builds
  <1>4. ViewFollows'  BY <1>1, <1>2 DEF ViewInv, OfPage, ViewFollows, Builds
  <1> QED  BY <1>1, <1>2, <1>3, <1>4 DEF ViewInv

LEMMA LoadedView ==
  ASSUME PageInv, NEW p \in PRs, Loaded(p)
  PROVE  ViewInv'
  <1>1. /\ cache \in [PRs -> {"none", "loading", "ready", "failed"}] /\ cache[p] = "loading"
        /\ cache' = [cache EXCEPT ![p] = "ready"] /\ pr' = pr /\ mounted' = mounted
        /\ GoodView(view) /\ pr \in PRs /\ mounted \in BOOLEAN /\ focus \in Selected
    BY DEF Loaded, LoadedFrame, pageVars, PageInv, ViewInv, LinkInv
  <1>2. cache' \in [PRs -> {"none", "loading", "ready", "failed"}]  BY <1>1
  <1>3. CASE mounted /\ p = pr /\ Patch(cache', p)
    <2> DEFINE w == Arrived(view, p, focus, fileFocus)
    <2>1. GoodView(w) /\ w.of = p /\ w.rendered  BY <1>1, ArrivedOK
    <2>2. view' = w  BY <1>3 DEF Loaded
    <2> HIDE DEF w
    <2> QED  BY <1>1, <1>2, <1>3, <2>1, <2>2 DEF ViewInv, OfPage, ViewFollows
  <1>4. CASE ~(mounted /\ p = pr /\ Patch(cache', p))
    <2>1. view' = view  BY <1>4 DEF Loaded
    <2>2. Patch(cache, pr) => Patch(cache', pr)  BY <1>1 DEF Patch
    <2>3. mounted /\ Patch(cache', pr) => Patch(cache, pr)  BY <1>1, <1>4 DEF Patch
    <2> QED  BY <1>1, <1>2, <2>1, <2>2, <2>3 DEF PageInv, ViewInv, OfPage, ViewFollows
  <1> QED  BY <1>3, <1>4

LEMMA LoadFailedView ==
  ASSUME PageInv, NEW p \in PRs, LoadFailed(p)
  PROVE  ViewInv'
  <1>1. /\ cache \in [PRs -> {"none", "loading", "ready", "failed"}] /\ cache[p] = "loading" /\ pr \in PRs
        /\ cache' = [cache EXCEPT ![p] = "failed"] /\ pr' = pr /\ mounted' = mounted /\ view' = view
    BY DEF LoadFailed, LoadedFrame, pageVars, PageInv, ViewInv
  <1>2. cache' \in [PRs -> {"none", "loading", "ready", "failed"}] /\ (Patch(cache', pr) <=> Patch(cache, pr))
    BY <1>1 DEF Patch
  <1> QED  BY <1>1, <1>2 DEF PageInv, ViewInv, OfPage, ViewFollows

LEMMA SetThemeView ==
  ASSUME PageInv, SetTheme
  PROVE  ViewInv'
  <1>1. /\ pr' = pr /\ mounted' = mounted /\ cache' = cache /\ view' = Themed(view)
        /\ view.of # NoPR /\ Patch(cache, pr)
    BY DEF SetTheme, ViewStep, pageVars
  <1>2. GoodView(view) /\ view.of = pr /\ pr \in PRs /\ mounted
    BY <1>1 DEF PageInv, ViewInv, ViewFollows, OfPage
  <1> DEFINE w == Themed(view)
  <1>3. GoodView(w) /\ w.of = pr /\ w.rendered  BY <1>2, ThemedOK
  <1>4. view' = w  BY <1>1
  <1> HIDE DEF w
  <1> QED  BY <1>1, <1>2, <1>3, <1>4 DEF PageInv, ViewInv, ViewFollows, OfPage

\* What the user does in the diff and in its search.
LEMMA DiffStep ==
  ASSUME PageInv, NEW w, GoodView(w), SameDiff(w, view), ViewStep(w)
  PROVE  ViewInv'
  <1>1. pr' = pr /\ mounted' = mounted /\ cache' = cache /\ view' = w
    BY DEF ViewStep, pageVars
  <1> QED  BY <1>1, ViewMoved DEF PageInv

LEMMA SearchView ==
  ASSUME PageInv, Search
  PROVE  ViewInv'
  <1>1. GoodView(view)  BY DEF PageInv, ViewInv
  <1>2. CASE Slash  BY <1>1, <1>2, OpenSearchOK, DiffStep DEF Slash
  <1>3. CASE Close  BY <1>1, <1>3, CloseSearchOK, DiffStep DEF Close
  <1>4. CASE Move(1)
    <2>1. 1 \in {-1, 1}  OBVIOUS
    <2> QED  BY <1>1, <1>4, <2>1, MoveMatchOK, DiffStep DEF Move
  <1>5. CASE Move(-1)
    <2>1. -1 \in {-1, 1}  OBVIOUS
    <2> QED  BY <1>1, <1>5, <2>1, MoveMatchOK, DiffStep DEF Move
  <1>6. ASSUME NEW query \in Queries \cup {<<>>}, Type(query)  PROVE ViewInv'
    BY <1>1, <1>6, InputOK, DiffStep DEF Type
  <1> QED  BY <1>2, <1>3, <1>4, <1>5, <1>6 DEF Search

LEMMA TmuxView ==
  ASSUME PageInv, Tmux
  PROVE  ViewInv'
  <1>1. pr' = pr /\ mounted' = mounted /\ cache' = cache /\ view' = view
    BY DEF Tmux, OpenTmuxModal, CloseTmuxModal, ConfirmTmux, TmuxOpened, TmuxFailed, RemoveInModal, pageVars
  <1> QED  BY <1>1, ViewKept DEF PageInv

LEMMA FocusView ==
  ASSUME PageInv, NEW t \in Selected, NEW file,
         pr' = pr, mounted' = TRUE, cache' = Fetched(cache, pr),
         view' = (IF mounted /\ Patch(cache, pr) THEN FocusEffect(view, t) ELSE Shown("files", pr, t, file))
                 \/ view' = (IF mounted /\ Patch(cache, pr) THEN FileFocusEffect(view, file) ELSE Shown("files", pr, t, file))
  PROVE  ViewInv'
  <1>1. GoodView(view) /\ pr \in PRs /\ mounted \in BOOLEAN /\ ViewInv  BY DEF PageInv, ViewInv
  <1>2. CASE mounted /\ Patch(cache, pr)
    <2>1. GoodView(view') /\ SameDiff(view', view)  BY <1>1, <1>2, FocusEffectOK, FileFocusEffectOK
    <2> QED  BY <1>1, <1>2, <2>1, ViewMoved
  <1>3. CASE ~(mounted /\ Patch(cache, pr))
    <2>1. view' = Shown("files", pr, t, file) /\ mounted' = (mounted \/ "files" = "files")  BY <1>3
    <2> QED  BY <1>1, <2>1, ViewShown
  <1> QED  BY <1>2, <1>3

LEMMA PageView ==
  ASSUME PageInv, Page
  PROVE  ViewInv'
  <1>1. GoodView(view) /\ ViewInv /\ pr \in PRs /\ focus \in Selected  BY DEF PageInv, ViewInv, LinkInv
  <1>2. ASSUME NEW tb \in {"description", "files"}, SetTab(tb)  PROVE ViewInv'
    <2>1. /\ pr' = pr /\ mounted' = (mounted \/ tb = "files") /\ (cache' = cache \/ cache' = Fetched(cache, pr))
          /\ view' = Shown(tb, pr, focus, fileFocus)
      BY <1>2 DEF SetTab, TabSet
    <2> QED  BY <1>1, <2>1, ViewShown
  <1>3. ASSUME NEW tb \in {"description", "files"}, NEW p \in PRs, Navigate(p, tb)  PROVE ViewInv'
    <2>1. /\ pr' = p /\ mounted' = (mounted \/ tb = "files") /\ (cache' = cache \/ cache' = Fetched(cache, p))
          /\ view' = Shown(tb, p, focus, fileFocus)
      BY <1>3 DEF Navigate, TabSet
    <2> QED  BY <1>1, <2>1, ViewShown
  <1>4. ASSUME NEW t \in AllLines, FocusLine(t)  PROVE ViewInv'
    <2>1. /\ pr' = pr /\ mounted' = TRUE /\ cache' = Fetched(cache, pr)
          /\ view' = IF mounted /\ Patch(cache, pr) THEN FocusEffect(view, t) ELSE Shown("files", pr, t, fileFocus)
      BY <1>4 DEF FocusLine, TabSet
    <2>2. t \in Selected  BY DEF Selected
    <2> QED  BY <2>1, <2>2, FocusView
  <1>5. ASSUME NEW file \in AllFiles, FocusFile(file)  PROVE ViewInv'
    <2>1. /\ pr' = pr /\ mounted' = TRUE /\ cache' = Fetched(cache, pr)
          /\ view' = IF mounted /\ Patch(cache, pr) THEN FileFocusEffect(view, file) ELSE Shown("files", pr, focus, file)
      BY <1>5 DEF FocusFile, TabSet
    <2> QED  BY <1>1, <2>1, FocusView
  <1>6. ASSUME NEW file \in AllFiles, Collapse(file)  PROVE ViewInv'
    BY <1>1, <1>6, ToggleCollapsedOK, DiffStep DEF Collapse
  <1>7. ASSUME NEW line \in AllLines, Click(line)  PROVE ViewInv'
    <2>1. pr' = pr /\ mounted' = mounted /\ cache' = cache /\ view' = Clicked(view, line)
      BY <1>7 DEF Click, pageVars
    <2> QED  BY <1>1, <2>1, ClickedOK, ViewMoved
  <1>8. CASE ToggleFullscreen
    <2>1. pr' = pr /\ mounted' = mounted /\ cache' = cache /\ view' = view  BY <1>8 DEF ToggleFullscreen
    <2> QED  BY <1>1, <2>1, ViewKept
  <1>9. CASE Prefetch
    <2>1. pr' = pr /\ mounted' = mounted /\ cache' = Fetched(cache, pr) /\ view' = view
      BY <1>9 DEF Prefetch, pageVars
    <2> QED  BY <1>1, <2>1, ViewKept
  <1>10. CASE SetTheme  BY <1>10, SetThemeView
  <1> QED  BY <1>2, <1>3, <1>4, <1>5, <1>6, <1>7, <1>8, <1>9, <1>10 DEF Page

LEMMA NextView ==
  ASSUME PageInv, [Next]_vars
  PROVE  ViewInv'
  <1>1. CASE Page  BY <1>1, PageView
  <1>2. CASE Search  BY <1>2, SearchView
  <1>3. CASE Tmux  BY <1>3, TmuxView
  <1>4. ASSUME NEW p \in PRs, Loaded(p) \/ LoadFailed(p)  PROVE ViewInv'
    BY <1>4, LoadedView, LoadFailedView
  <1>5. CASE DigestDone \/ \E t \in hashing : StaleDigest(t)
    <2>1. pr' = pr /\ mounted' = mounted /\ cache' = cache /\ view' = view
      BY <1>5 DEF DigestDone, StaleDigest, DigestFrame, pageVars
    <2> QED  BY <2>1, ViewKept DEF PageInv
  <1>6. CASE UNCHANGED vars
    <2>1. pr' = pr /\ mounted' = mounted /\ cache' = cache /\ view' = view  BY <1>6 DEF vars, pageVars
    <2> QED  BY <2>1, ViewKept DEF PageInv
  <1> QED  BY <1>1, <1>2, <1>3, <1>4, <1>5, <1>6 DEF Next

-----------------------------------------------------------------------------
(* The link follows its target *)

LEMMA TargetKept ==
  ASSUME tab' = tab, focus' = focus, picks' = picks
  PROVE  target' = target
  BY DEF target

\* Whatever changes the target: the digest under way is not that of the new one
\* (createDiffAnchor).
LEMMA AnchorStep ==
  ASSUME LinkInv, AnchorFollows, target' \in Selected
  PROVE  /\ anchor' \in Selected /\ awaiting' \in Selected
         /\ hashing' \subseteq AllLines /\ digests' \subseteq AllFiles
         /\ AnchorIsTarget' /\ AwaitedIsTarget'
  <1> DEFINE t == target'
  <1>1. t \in Selected /\ NoLine \in Selected /\ Selected = AllLines \cup {NoLine}  BY DEF Selected
  <1>2. CASE t = target
    <2>1. anchor' = anchor /\ awaiting' = awaiting /\ hashing' = hashing /\ digests' = digests
      BY <1>2 DEF AnchorFollows, anchorVars
    <2> QED  BY <1>2, <2>1 DEF LinkInv, AnchorIsTarget, AwaitedIsTarget
  <1>3. CASE t # target
    <2>1. /\ hashing' = hashing \cup ({awaiting} \ {NoLine})
          /\ awaiting' = NoLine \/ awaiting' = t
          /\ anchor' = IF awaiting' = NoLine THEN t ELSE anchor
          /\ digests' = digests
      BY <1>3 DEF AnchorFollows
    <2>2. awaiting \in Selected /\ hashing \subseteq AllLines /\ anchor \in Selected /\ digests \subseteq AllFiles
      BY DEF LinkInv
    <2>3. AnchorIsTarget' /\ AwaitedIsTarget'  BY <2>1 DEF AnchorIsTarget, AwaitedIsTarget
    <2> HIDE DEF t
    <2> QED  BY <1>1, <2>1, <2>2, <2>3
  <1> QED  BY <1>2, <1>3

LEMMA LinkStep ==
  ASSUME LinkInv, tab' \in {"description", "files"}, focus' \in Selected, PicksOK(picks'), AnchorFollows
  PROVE  LinkInv'
  <1>1. target' = Target(tab', focus', picks')  BY DEF target
  <1>2. target' \in Selected  BY <1>1, TargetIs
  <1> QED  BY <1>2, AnchorStep DEF LinkInv

LEMMA LinkKept ==
  ASSUME LinkInv, UNCHANGED <<tab, focus, picks, anchorVars>>
  PROVE  LinkInv'
  <1>1. target' = target  BY TargetKept
  <1> QED  BY <1>1 DEF LinkInv, anchorVars, AnchorIsTarget, AwaitedIsTarget

\* A digest that is awaited is the link's; one that is not only fills the map.
LEMMA DigestLink ==
  ASSUME LinkInv, DigestDone \/ \E t \in hashing : StaleDigest(t)
  PROVE  LinkInv'
  <1>1. target' = target /\ tab' = tab /\ focus' = focus /\ picks' = picks
    BY TargetKept DEF DigestDone, StaleDigest, DigestFrame, pageVars
  <1>2. NoLine \in Selected /\ Selected = AllLines \cup {NoLine}  BY DEF Selected
  <1>3. CASE DigestDone
    <2>1. /\ awaiting # NoLine /\ anchor' = awaiting /\ awaiting' = NoLine
          /\ digests' = digests \cup {awaiting.file} /\ hashing' = hashing
      BY <1>3 DEF DigestDone
    <2>2. awaiting \in AllLines /\ awaiting = target  BY <1>2, <2>1 DEF LinkInv, AwaitedIsTarget
    <2>3. awaiting.file \in AllFiles  BY <2>2, FilesAre
    <2> QED  BY <1>1, <1>2, <2>1, <2>2, <2>3 DEF LinkInv, AnchorIsTarget, AwaitedIsTarget
  <1>4. ASSUME NEW t \in hashing, StaleDigest(t)  PROVE LinkInv'
    <2>1. /\ hashing' = hashing \ {t} /\ digests' = digests \cup {t.file}
          /\ anchor' = anchor /\ awaiting' = awaiting
      BY <1>4 DEF StaleDigest
    <2>2. t.file \in AllFiles  BY FilesAre DEF LinkInv
    <2> QED  BY <1>1, <2>1, <2>2 DEF LinkInv, AnchorIsTarget, AwaitedIsTarget
  <1> QED  BY <1>3, <1>4

LEMMA TmuxLink ==
  ASSUME LinkInv, Tmux
  PROVE  LinkInv'
  <1>1. PicksOK(picks) /\ tab \in {"description", "files"} /\ focus \in Selected  BY DEF LinkInv
  <1>2. CASE OpenTmuxModal \/ CloseTmuxModal \/ ConfirmTmux \/ TmuxFailed
    BY <1>2, LinkKept DEF OpenTmuxModal, CloseTmuxModal, ConfirmTmux, TmuxFailed, pageVars
  <1>3. CASE TmuxOpened
    <2>1. PicksOK(<<>>)  BY DEF PicksOK
    <2>2. tab' = tab /\ focus' = focus /\ picks' = <<>> /\ AnchorFollows  BY <1>3 DEF TmuxOpened, pageVars
    <2> QED  BY <1>1, <2>1, <2>2, LinkStep
  <1>4. ASSUME NEW file \in AllFiles, RemoveInModal(file)  PROVE LinkInv'
    <2>1. PicksOK(RemovePick(file))  BY <1>1, RemovePickOK
    <2>2. tab' = tab /\ focus' = focus /\ picks' = RemovePick(file) /\ AnchorFollows
      BY <1>4 DEF RemoveInModal, pageVars
    <2> QED  BY <1>1, <2>1, <2>2, LinkStep
  <1> QED  BY <1>2, <1>3, <1>4 DEF Tmux

LEMMA PageLink ==
  ASSUME LinkInv, Page
  PROVE  LinkInv'
  <1>1. PicksOK(picks) /\ tab \in {"description", "files"} /\ focus \in Selected  BY DEF LinkInv
  <1>2. ASSUME NEW tb \in {"description", "files"}, SetTab(tb) \/ \E p \in PRs : Navigate(p, tb)  PROVE LinkInv'
    <2>1. tab' = tb /\ focus' = focus /\ picks' = picks /\ AnchorFollows  BY <1>2 DEF SetTab, Navigate, TabSet
    <2> QED  BY <1>1, <2>1, LinkStep
  <1>3. ASSUME NEW t \in AllLines, FocusLine(t)  PROVE LinkInv'
    <2>1. tab' = "files" /\ focus' = t /\ picks' = picks /\ AnchorFollows  BY <1>3 DEF FocusLine, TabSet
    <2>2. t \in Selected  BY DEF Selected
    <2> QED  BY <1>1, <2>1, <2>2, LinkStep
  <1>4. ASSUME NEW file \in AllFiles, FocusFile(file)  PROVE LinkInv'
    <2>1. tab' = "files" /\ focus' = focus /\ picks' = picks /\ AnchorFollows  BY <1>4 DEF FocusFile, TabSet
    <2> QED  BY <1>1, <2>1, LinkStep
  <1>5. ASSUME NEW file \in AllFiles, Collapse(file)  PROVE LinkInv'
    BY <1>5, LinkKept DEF Collapse, ViewStep, pageVars
  <1>6. ASSUME NEW line \in AllLines, Click(line)  PROVE LinkInv'
    <2>1. PicksOK(RemovePick(view.selectedFile)) /\ PicksOK(PickLine(line))  BY <1>1, RemovePickOK, PickLineOK
    <2>2. /\ tab' = tab /\ focus' = focus /\ AnchorFollows
          /\ picks' = RemovePick(view.selectedFile) \/ picks' = PickLine(line)
      BY <1>6 DEF Click, pageVars
    <2>3. PicksOK(picks')  BY <2>1, <2>2
    <2> QED  BY <1>1, <2>2, <2>3, LinkStep
  <1>7. CASE ToggleFullscreen \/ Prefetch \/ SetTheme
    BY <1>7, LinkKept DEF ToggleFullscreen, Prefetch, SetTheme, ViewStep, pageVars
  <1> QED  BY <1>2, <1>3, <1>4, <1>5, <1>6, <1>7 DEF Page

LEMMA NextLink ==
  ASSUME LinkInv, [Next]_vars
  PROVE  LinkInv'
  <1>1. CASE Page  BY <1>1, PageLink
  <1>2. CASE Tmux  BY <1>2, TmuxLink
  <1>3. CASE DigestDone \/ \E t \in hashing : StaleDigest(t)  BY <1>3, DigestLink
  <1>4. CASE Search
    BY <1>4, LinkKept DEF Search, Slash, Close, Move, Type, ViewStep, pageVars
  <1>5. ASSUME NEW p \in PRs, Loaded(p) \/ LoadFailed(p)  PROVE LinkInv'
    BY <1>5, LinkKept DEF Loaded, LoadFailed, LoadedFrame, pageVars
  <1>6. CASE UNCHANGED vars  BY <1>6, LinkKept DEF vars, pageVars
  <1> QED  BY <1>1, <1>2, <1>3, <1>4, <1>5, <1>6 DEF Next

-----------------------------------------------------------------------------
(* The rest of the page *)

LEMMA RestKept ==
  ASSUME RestInv, UNCHANGED <<fullscreen, tmuxVars, fileFocus>>, Act \/ Fault \/ UNCHANGED <<acts, faults>>
  PROVE  RestInv'
  BY PRDetailAssumption DEF RestInv, tmuxVars, Act, Fault

LEMMA NextRest ==
  ASSUME RestInv, [Next]_vars
  PROVE  RestInv'
  <1>1. CASE DigestDone \/ \E t \in hashing : StaleDigest(t)
    BY <1>1, RestKept DEF DigestDone, StaleDigest, DigestFrame, pageVars
  <1>2. CASE Search \/ SetTheme \/ \E file \in AllFiles : Collapse(file)
    BY <1>2, RestKept DEF Search, Slash, Close, Move, Type, SetTheme, Collapse, ViewStep, pageVars
  <1>3. ASSUME NEW p \in PRs, Loaded(p) \/ LoadFailed(p)  PROVE RestInv'
    BY <1>3, RestKept DEF Loaded, LoadFailed, LoadedFrame, pageVars
  <1>4. CASE UNCHANGED vars  BY <1>4, RestKept DEF vars, pageVars
  <1>5. ASSUME Act \/ Fault \/ UNCHANGED <<acts, faults>>  PROVE acts' \in 0..MaxActs /\ faults' \in 0..MaxFaults
    BY <1>5, PRDetailAssumption DEF RestInv, Act, Fault
  <1>6. CASE Tmux
    <2>1. Act \/ Fault \/ UNCHANGED <<acts, faults>>
      BY <1>6 DEF Tmux, OpenTmuxModal, CloseTmuxModal, ConfirmTmux, TmuxOpened, TmuxFailed, RemoveInModal
    <2>2. fullscreen' = fullscreen /\ fileFocus' = fileFocus
      BY <1>6 DEF Tmux, OpenTmuxModal, CloseTmuxModal, ConfirmTmux, TmuxOpened, TmuxFailed, RemoveInModal, pageVars
    <2>3. modal' \in BOOLEAN /\ opening' \in Nat /\ tmuxBusy' \in BOOLEAN
      <3>1. modal \in BOOLEAN /\ opening \in Nat /\ tmuxBusy \in BOOLEAN  BY DEF RestInv
      <3>2. CASE OpenTmuxModal \/ CloseTmuxModal  BY <3>1, <3>2 DEF OpenTmuxModal, CloseTmuxModal
      <3>3. CASE ConfirmTmux  BY <3>1, <3>3 DEF ConfirmTmux
      <3>4. CASE TmuxOpened \/ TmuxFailed
        <4>1. opening - 1 \in Nat  BY <3>1, <3>4 DEF TmuxOpened, TmuxFailed
        <4> QED  BY <3>1, <3>4, <4>1 DEF TmuxOpened, TmuxFailed
      <3>5. ASSUME NEW file \in AllFiles, RemoveInModal(file)
            PROVE  modal' \in BOOLEAN /\ opening' \in Nat /\ tmuxBusy' \in BOOLEAN
        BY <3>1, <3>5 DEF RemoveInModal, tmuxVars
      <3> QED  BY <1>6, <3>2, <3>3, <3>4, <3>5 DEF Tmux
    <2> QED  BY <1>5, <2>1, <2>2, <2>3 DEF RestInv
  <1>7. CASE Page
    <2>1. ASSUME NEW tb \in {"description", "files"}, SetTab(tb) \/ \E p \in PRs : Navigate(p, tb)  PROVE RestInv'
      BY <1>5, <2>1 DEF SetTab, Navigate, TabSet, tmuxVars, RestInv
    <2>2. ASSUME NEW t \in AllLines, FocusLine(t)  PROVE RestInv'
      BY <1>5, <2>2 DEF FocusLine, TabSet, tmuxVars, RestInv
    <2>3. ASSUME NEW file \in AllFiles, FocusFile(file)  PROVE RestInv'
      BY <1>5, <2>3 DEF FocusFile, TabSet, tmuxVars, RestInv
    <2>4. ASSUME NEW line \in AllLines, Click(line)  PROVE RestInv'
      BY <2>4, RestKept DEF Click, pageVars
    <2>5. CASE ToggleFullscreen  BY <1>5, <2>5 DEF ToggleFullscreen, tmuxVars, RestInv
    <2>6. CASE Prefetch  BY <2>6, RestKept DEF Prefetch, pageVars
    <2> QED  BY <1>2, <1>7, <2>1, <2>2, <2>3, <2>4, <2>5, <2>6 DEF Page
  <1> QED  BY <1>1, <1>2, <1>3, <1>4, <1>6, <1>7 DEF Next


-----------------------------------------------------------------------------
(* The theorems *)

LEMMA Invariance ==
  Spec => []PageInv
  <1>1. Init => PageInv  BY InitInv
  <1>2. PageInv /\ [Next]_vars => PageInv'
    <2> SUFFICES ASSUME PageInv, [Next]_vars PROVE PageInv'
      OBVIOUS
    <2>1. ViewInv'  BY NextView
    <2>2. LinkInv'  BY NextLink DEF PageInv
    <2>3. RestInv'  BY NextRest DEF PageInv
    <2> QED  BY <2>1, <2>2, <2>3 DEF PageInv
  <1> QED  BY <1>1, <1>2, PTL DEF Spec

\* The page, its view, its picks and its calls keep their types, and a file is picked at most
\* once, however the clicks, the modal and the navigations mix (PRDetail.tsx, DiffView.tsx).
THEOREM PageTyped == Spec => []TypeOK
  <1>1. PageInv => TypeOK
    BY DEF PageInv, ViewInv, LinkInv, RestInv, GoodView, ViewOK, PicksOK, TypeOK
  <1> QED  BY <1>1, Invariance, PTL

\* The component outlives the pull request it was mounted for: a view that is rendered is of a
\* diff that was fetched, and it is that of the page; one that is left standing without it, under
\* the skeleton or an error, holds no selection of the search (DiffView.tsx, the effects on
\* owner, repo and prNumber and on patchData).
THEOREM RenderedDiffIsOfThePage == Spec => []RenderedIsOfPage
  <1>1. PageInv => RenderedIsOfPage
    BY DEF PageInv, ViewInv, OfPage, GoodView, Shows, RenderedIsOfPage
  <1> QED  BY <1>1, Invariance, PTL

\* Whatever is typed, stepped to, loaded, themed or clicked, a selection the search made is that
\* of the match its counter shows (DiffView.tsx, the search effect and currentIndex).
THEOREM SearchSelectsWhatItCounts == Spec => []SearchShowsItsMatch
  <1>1. PageInv => SearchShowsItsMatch
    BY DEF PageInv, ViewInv, GoodView, Shows, SearchShowsItsMatch
  <1> QED  BY <1>1, Invariance, PTL

\* For every diff and every text that is searched for: a match is at a line number of its side
\* where the text stands, and no occurrence is left out but one that overlaps a match
\* (search.ts, searchDiff).
THEOREM SearchFindsTheText == Spec => []MatchesAreInFiles
  <1>1. ASSUME PageInv  PROVE MatchesAreInFiles
    <2> DEFINE q == view.query
               p == view.of
    <2>1. p \in PRs \cup {NoPR} /\ q \in Queries \cup {<<>>}
      BY <1>1 DEF PageInv, ViewInv, GoodView, ViewOK, View
    <2>2. q \in Texts
      <3>1. Queries \subseteq Texts /\ <<>> \in Texts  BY DiffsAssumption DEF Texts
      <3> QED  BY <2>1, <3>1
    <2>3. CASE p = NoPR
      <3>1. Matches(view) = <<>>  BY <2>3 DEF Matches
      <3>2. Range(<<>>) = {}  BY DEF Range
      <3> QED  BY <2>3, <3>1, <3>2 DEF MatchesAreInFiles
    <2>4. CASE p # NoPR
      <3>1. p \in PRs  BY <2>1, <2>4
      <3>2. Matches(view) = SearchDiff(DiffOf[p], q)  BY <2>1, <2>4 DEF Matches, MatchesIn
      <3> DEFINE found == Range(SearchDiff(DiffOf[p], q))
                 lines == Contents[p]
      <3>3. \A m \in found : \E c \in lines : Position(c) = Position(m) /\ IsAt(c.text, q, m.column)
        BY <2>2, <3>1, SearchDiffIs
      <3>4. q # <<>> =>
              \A c \in lines : \A i \in 1..Len(c.text) : IsAt(c.text, q, i) =>
                \E m \in found : Position(c) = Position(m) /\ m.column <= i /\ i < m.column + Len(q)
        BY <2>2, <3>1, SearchDiffIs
      <3> QED  BY <2>4, <3>2, <3>3, <3>4 DEF MatchesAreInFiles
    <2> QED  BY <2>3, <2>4
  <1> QED  BY <1>1, Invariance, PTL

\* The link to GitHub never stays behind: once no digest is awaited it is of the line that is
\* focused, or else picked last, though digests end in any order (github.ts, createDiffAnchor).
THEOREM LinkIsOfTheTarget == Spec => []AnchorIsTarget
  <1>1. PageInv => AnchorIsTarget  BY DEF PageInv, LinkInv
  <1> QED  BY <1>1, Invariance, PTL
=============================================================================
