----------------------------- MODULE ReadProofs -----------------------------
(***************************************************************************)
(* Proofs about the reading side: find_free_slots and search_events        *)
(* (CalendarReads) and the pure algorithms (Algorithms), which share the   *)
(* lemmas on folds and sorts.                                              *)
(*                                                                         *)
(* First come the operators of FreeSlots, for all inputs.  A fold over a   *)
(* sequence is shown to be a trace of its step (FoldTrace, from a set form *)
(* of induction), a sort to be a list by rank (Ranks); with these the      *)
(* lemmas follow the computation: Merges, Inverts, Clips, Cuts, and        *)
(* SlotsAvoidBusy and SlotsAreExact put them together.                     *)
(*                                                                         *)
(* Then the inductive invariant of the calls: an index that was handed out *)
(* is being read or has its result, so that a call that finds all workers  *)
(* idle has all results (AllFinal), from which SlotsAreFree and            *)
(* SearchAnswer derive what the answers say.  The algorithms of the mail   *)
(* reader, of the expansion and of the contact search follow, and the walk *)
(* over the days of a window closes the module.                            *)
(***************************************************************************)
EXTENDS CalendarReads, Algorithms, DayWalk, WellFoundedInduction, FiniteSetTheorems, TLAPS

-----------------------------------------------------------------------------
(* Induction, in the form of sets, and the folds of the model as traces. *)

\* A set of natural numbers has a least element.
LEMMA LeastElement ==
  ASSUME NEW T, T \subseteq Nat, T # {}
  PROVE  \E x \in T : \A y \in T : x <= y
<1> DEFINE R == OpToRel(<, Nat)
<1>1. IsWellFoundedOn(R, Nat)
  BY NatLessThanWellFounded
<1>2. PICK x \in T : \A y \in T : ~(<<y, x>> \in R)
  <2> HIDE DEF R
  <2> QED BY <1>1, WFMin
<1>3. \A y \in T : ~(y < x)
  BY <1>2 DEF OpToRel
<1> QED BY <1>3

\* Induction over the natural numbers.
LEMMA Induction ==
  ASSUME NEW S, 0 \in S, \A n \in Nat : n \in S => n + 1 \in S
  PROVE  Nat \subseteq S
<1> SUFFICES ASSUME Nat \ S # {} PROVE FALSE
  OBVIOUS
<1>1. PICK x \in Nat \ S : \A y \in Nat \ S : x <= y
  BY LeastElement
<1>2. x # 0 /\ x - 1 \in Nat /\ ~(x <= x - 1)
  OBVIOUS
<1> QED BY <1>1, <1>2

\* Max of a set of indexes.
LEMMA MaxIndex ==
  ASSUME NEW n \in Nat, NEW s \in SUBSET (1..n), s # {}
  PROVE  Max(s) \in s /\ \A y \in s : Max(s) >= y
<1> DEFINE T == {n - y : y \in s}
<1>1. T \subseteq Nat /\ T # {}
  <2>1. \A y \in s : n - y \in Nat
    OBVIOUS
  <2> QED BY <2>1
<1>2. PICK m \in T : \A y \in T : m <= y
  BY <1>1, LeastElement
<1>3. PICK x \in s : m = n - x
  BY <1>2
<1>4. ASSUME NEW y \in s PROVE x >= y
  <2>1. n - y \in T
    OBVIOUS
  <2>2. n - x <= n - y /\ x \in Int /\ y \in Int
    BY <1>2, <1>3, <2>1
  <2> QED BY <2>2
<1> QED BY <1>3, <1>4 DEF Max

\* A fold over n elements, with values in V: the step for each element, a solution
\* of the recursion over the sets of indexes (as far as its values are in V), and
\* the values one element after the other.
Steps(n, V) == [(1..n) \X V -> V]

Solves(it, n, V, base, F) ==
  /\ it[{}] = base
  /\ \A s \in SUBSET (1..n) : s # {} /\ it[s \ {Max(s)}] \in V =>
       it[s] = F[<<Max(s), it[s \ {Max(s)}]>>]

Trace(n, V, base, F) ==
  {g \in [0..n -> V] : g[0] = base /\ \A k \in 1..n : g[k] = F[<<k, g[k - 1]>>]}

\* The recursion over the sets of indexes that FoldLeft is defined by has a
\* solution.
LEMMA FoldExists ==
  ASSUME NEW V, NEW n \in Nat, NEW base \in V, NEW F \in Steps(n, V)
  PROVE  \E it \in [SUBSET (1..n) -> V] : Solves(it, n, V, base, F)
<1> USE DEF Steps
<1> DEFINE P(k) == \E it \in [SUBSET (1..k) -> V] : \A s \in SUBSET (1..k) :
                     it[s] = IF s = {} THEN base ELSE F[<<Max(s), it[s \ {Max(s)}]>>]
           S == {k \in Nat : k <= n => P(k)}
<1>1. 0 \in S
  <2> DEFINE it == [s \in SUBSET (1..0) |-> base]
  <2>1. it \in [SUBSET (1..0) -> V]
    OBVIOUS
  <2>2. 1..0 = {}
    OBVIOUS
  <2>3. ASSUME NEW s \in SUBSET (1..0) PROVE s = {} /\ it[s] = base
    BY <2>2
  <2> HIDE DEF it
  <2>4. P(0)
    BY <2>1, <2>3
  <2> QED BY <2>4
<1> HIDE DEF P
<1>2. ASSUME NEW k \in Nat, k \in S PROVE k + 1 \in S
  <2> SUFFICES ASSUME k + 1 <= n PROVE P(k + 1)
    OBVIOUS
  <2>1. P(k)
    BY <1>2
  <2>2. PICK it \in [SUBSET (1..k) -> V] : \A s \in SUBSET (1..k) :
          it[s] = IF s = {} THEN base ELSE F[<<Max(s), it[s \ {Max(s)}]>>]
    BY <2>1 DEF P
  <2> DEFINE nu == [s \in SUBSET (1..(k + 1)) |->
                      IF k + 1 \in s THEN F[<<k + 1, it[s \ {k + 1}]>>] ELSE it[s]]
  <2>3. \A s \in SUBSET (1..(k + 1)) : s \ {k + 1} \in SUBSET (1..k)
    OBVIOUS
  <2>4. nu \in [SUBSET (1..(k + 1)) -> V]
    BY <2>3
  <2>5. ASSUME NEW s \in SUBSET (1..(k + 1))
        PROVE  nu[s] = IF s = {} THEN base ELSE F[<<Max(s), nu[s \ {Max(s)}]>>]
    <3>1. CASE k + 1 \in s
      <4>1. Max(s) = k + 1
        <5>1. k + 1 \in Nat /\ s # {}
          BY <3>1
        <5>2. Max(s) \in s /\ \A y \in s : Max(s) >= y
          BY <5>1, MaxIndex
        <5>3. Max(s) \in 1..(k + 1) /\ Max(s) >= k + 1
          BY <3>1, <5>2
        <5> QED BY <5>3
      <4>2. nu[s \ {k + 1}] = it[s \ {k + 1}]
        BY <2>3
      <4> QED BY <3>1, <4>1, <4>2
    <3>2. CASE k + 1 \notin s
      <4>1. s \in SUBSET (1..k)
        BY <3>2
      <4>2. CASE s = {}
        BY <2>2, <4>1, <4>2
      <4>3. CASE s # {}
        <5>1. Max(s) \in s
          BY <4>1, <4>3, MaxIndex
        <5>2. s \ {Max(s)} \in SUBSET (1..k) /\ k + 1 \notin s \ {Max(s)}
          BY <3>2, <4>1
        <5>3. nu[s \ {Max(s)}] = it[s \ {Max(s)}]
          BY <5>2
        <5> QED BY <2>2, <3>2, <4>1, <4>3, <5>3
      <4> QED BY <4>2, <4>3
    <3> QED BY <3>1, <3>2
  <2> HIDE DEF nu
  <2> QED BY <2>4, <2>5 DEF P
<1>3. Nat \subseteq S
  <2> HIDE DEF S
  <2> QED BY <1>1, <1>2, Induction
<1>4. P(n)
  BY <1>3
<1>5. PICK it \in [SUBSET (1..n) -> V] : \A s \in SUBSET (1..n) :
        it[s] = IF s = {} THEN base ELSE F[<<Max(s), it[s \ {Max(s)}]>>]
  BY <1>4 DEF P
<1> QED BY <1>5 DEF Solves

\* Any solution of that recursion walks the indexes in order.
LEMMA FoldTrace ==
  ASSUME NEW V, NEW n \in Nat, NEW base \in V, NEW F \in Steps(n, V),
         NEW it, Solves(it, n, V, base, F)
  PROVE  \E g \in Trace(n, V, base, F) : g[n] = it[1..n]
<1> USE DEF Steps, Solves
<1> DEFINE S == {k \in Nat : k <= n => /\ it[1..k] \in V
                                       /\ k > 0 => it[1..k] = F[<<k, it[1..(k - 1)]>>]}
<1>1. 0 \in S
  <2>1. 1..0 = {}
    OBVIOUS
  <2> QED BY <2>1
<1>2. ASSUME NEW k \in Nat, k \in S PROVE k + 1 \in S
  <2> SUFFICES ASSUME k + 1 <= n
               PROVE  /\ it[1..(k + 1)] \in V
                      /\ it[1..(k + 1)] = F[<<k + 1, it[1..((k + 1) - 1)]>>]
    OBVIOUS
  <2> DEFINE s == 1..(k + 1)
  <2>1. s \in SUBSET (1..n) /\ s # {} /\ k + 1 \in s
    OBVIOUS
  <2>2. Max(s) = k + 1
    <3>1. Max(s) \in s /\ \A y \in s : Max(s) >= y
      BY <2>1, MaxIndex
    <3> QED BY <2>1, <3>1
  <2>3. s \ {k + 1} = 1..k /\ (k + 1) - 1 = k
    OBVIOUS
  <2>4. it[1..k] \in V
    BY <1>2
  <2>5. it[s] = F[<<k + 1, it[1..k]>>]
    BY <2>1, <2>2, <2>3, <2>4
  <2> QED BY <2>1, <2>3, <2>4, <2>5
<1>3. Nat \subseteq S
  <2> HIDE DEF S
  <2> QED BY <1>1, <1>2, Induction
<1> DEFINE g == [k \in 0..n |-> it[1..k]]
<1>4. ASSUME NEW k \in 0..n
      PROVE  it[1..k] \in V /\ (k > 0 => it[1..k] = F[<<k, it[1..(k - 1)]>>])
  <2>1. k \in S /\ k <= n
    BY <1>3
  <2> QED BY <2>1
<1>5. g \in [0..n -> V]
  BY <1>4
<1>6. g[0] = base /\ g[n] = it[1..n]
  <2>1. 1..0 = {}
    OBVIOUS
  <2> QED BY <2>1
<1>7. ASSUME NEW k \in 1..n PROVE g[k] = F[<<k, g[k - 1]>>]
  <2>1. k \in 0..n /\ k - 1 \in 0..n /\ k > 0
    OBVIOUS
  <2> QED BY <1>4, <2>1
<1> HIDE DEF g
<1> QED BY <1>5, <1>6, <1>7 DEF Trace

Interval == [start : Int, end : Int]

\* Merging keeps sequences of intervals.
LEMMA MergeType ==
  ASSUME NEW out \in Seq(Interval), NEW cur \in Interval
  PROVE  MergeInto(out, cur) \in Seq(Interval)
<1>1. CASE out # <<>> /\ cur.start <= Last(out).end
  <2>1. Last(out) \in Interval /\ Front(out) \in Seq(Interval)
    BY <1>1 DEF Last, Front
  <2>2. [Last(out) EXCEPT !.end = IF cur.end > @ THEN cur.end ELSE @] \in Interval
    BY <2>1 DEF Interval
  <2> QED BY <1>1, <2>1, <2>2 DEF MergeInto
<1>2. CASE ~(out # <<>> /\ cur.start <= Last(out).end)
  BY <1>2 DEF MergeInto
<1> QED BY <1>1, <1>2

\* mergeIntervals goes through the sorted intervals one by one.
LEMMA MergeTrace ==
  ASSUME NEW q \in Seq(Interval)
  PROVE  \E g \in [0..Len(q) -> Seq(Interval)] :
           /\ g[0] = <<>> /\ g[Len(q)] = FoldLeft(MergeInto, <<>>, q)
           /\ \A k \in 1..Len(q) : g[k] = MergeInto(g[k - 1], q[k])
<1> DEFINE n == Len(q)
           V == Seq(Interval)
           base == <<>>
           F == [p \in (1..n) \X V |-> MergeInto(p[2], q[p[1]])]
           Q(x) == x = [s \in SUBSET (DOMAIN q) |->
                          IF s = {} THEN base ELSE MergeInto(x[s \ {Max(s)}], q[Max(s)])]
           it == CHOOSE x : Q(x)
<1>1. n \in Nat /\ DOMAIN q = 1..n /\ base \in V
  OBVIOUS
<1>2. F \in Steps(n, V)
  <2>1. ASSUME NEW p \in (1..n) \X V PROVE MergeInto(p[2], q[p[1]]) \in V
    <3>1. p[2] \in V /\ p[1] \in 1..n /\ q[p[1]] \in Interval
      OBVIOUS
    <3> QED BY <3>1, MergeType
  <2> QED BY <2>1 DEF Steps
<1>3. \A k \in 1..n, v \in V : F[<<k, v>>] = MergeInto(v, q[k])
  OBVIOUS
<1> HIDE DEF V, F, n, base
<1>4. \E x : Q(x)
  <2>1. PICK x \in [SUBSET (1..n) -> V] : Solves(x, n, V, base, F)
    BY <1>1, <1>2, FoldExists
  <2>2. ASSUME NEW s \in SUBSET (1..n)
        PROVE  x[s] = IF s = {} THEN base ELSE MergeInto(x[s \ {Max(s)}], q[Max(s)])
    <3>1. CASE s = {}
      BY <2>1, <3>1 DEF Solves
    <3>2. CASE s # {}
      <4>1. Max(s) \in 1..n
        BY <1>1, <3>2, MaxIndex
      <4>2. s \ {Max(s)} \in SUBSET (1..n)
        OBVIOUS
      <4> QED BY <1>3, <2>1, <3>2, <4>1, <4>2 DEF Solves
    <3> QED BY <3>1, <3>2
  <2> QED BY <1>1, <2>2
<1>5. Q(it)
  BY <1>4
<1>6. FoldLeft(MergeInto, <<>>, q) = it[1..n]
  BY <1>1 DEF FoldLeft, base, MapThenFoldSet
<1> HIDE DEF it
<1>7. it[{}] = base
  BY <1>1, <1>5
<1>8. ASSUME NEW s \in SUBSET (1..n), s # {}, it[s \ {Max(s)}] \in V
      PROVE  it[s] = F[<<Max(s), it[s \ {Max(s)}]>>]
  <2>1. Max(s) \in 1..n
    BY <1>1, <1>8, MaxIndex
  <2> QED BY <1>1, <1>3, <1>5, <1>8, <2>1
<1>9. PICK g \in Trace(n, V, base, F) : g[n] = it[1..n]
  <2>1. Solves(it, n, V, base, F)
    BY <1>7, <1>8 DEF Solves
  <2> QED BY <1>1, <1>2, <2>1, FoldTrace
<1>10. ASSUME NEW k \in 1..n PROVE g[k] = MergeInto(g[k - 1], q[k])
  <2>1. k - 1 \in 0..n
    BY <1>1
  <2> QED BY <1>3, <1>9, <2>1 DEF Trace
<1> QED BY <1>6, <1>9, <1>10 DEF n, V, base, Trace

-----------------------------------------------------------------------------
(* Sorting by rank. *)

Below(x, S, R) == {y \in S : <<y, x>> \in R}

StrictTotal(R, S) ==
  /\ \A x \in S : <<x, x>> \notin R
  /\ \A x, y, z \in S : <<x, y>> \in R /\ <<y, z>> \in R => <<x, z>> \in R
  /\ \A x, y \in S : x = y \/ <<x, y>> \in R \/ <<y, x>> \in R

\* In a finite set with a strict total order every rank below its size occurs
\* once, and ranks follow the order.
LEMMA Ranks ==
  ASSUME NEW S, IsFiniteSet(S), NEW R, StrictTotal(R, S)
  PROVE  /\ Cardinality(S) \in Nat
         /\ \A x \in S : Cardinality(Below(x, S, R)) \in 0..(Cardinality(S) - 1)
         /\ \A x, y \in S : <<x, y>> \in R <=>
              Cardinality(Below(x, S, R)) < Cardinality(Below(y, S, R))
         /\ \A k \in 1..Cardinality(S) : \E x \in S : Cardinality(Below(x, S, R)) = k - 1
<1> DEFINE rank(x) == Cardinality(Below(x, S, R))
           n == Cardinality(S)
<1>1. n \in Nat
  BY FS_CardinalityType
<1>2. ASSUME NEW T \in SUBSET S, NEW U \in SUBSET T, NEW x \in T, x \notin U
      PROVE  Cardinality(U) < Cardinality(T) /\ Cardinality(U) \in Nat /\ Cardinality(T) \in Nat
  <2>1. IsFiniteSet(T)
    BY FS_Subset
  <2>2. IsFiniteSet(U) /\ Cardinality(U) <= Cardinality(T)
        /\ (Cardinality(T) = Cardinality(U) => T = U)
    BY <2>1, FS_Subset
  <2>3. Cardinality(U) \in Nat /\ Cardinality(T) \in Nat
    BY <2>1, <2>2, FS_CardinalityType
  <2> QED BY <1>2, <2>2, <2>3
<1>3. ASSUME NEW x \in S PROVE rank(x) \in 0..(n - 1)
  <2>1. Below(x, S, R) \in SUBSET S /\ x \notin Below(x, S, R)
    BY DEF Below, StrictTotal
  <2>2. rank(x) < n /\ rank(x) \in Nat
    BY <1>2, <2>1
  <2> QED BY <1>1, <2>2
<1>4. ASSUME NEW x \in S, NEW y \in S, <<x, y>> \in R PROVE rank(x) < rank(y)
  <2>1. /\ Below(y, S, R) \in SUBSET S /\ Below(x, S, R) \in SUBSET Below(y, S, R)
        /\ x \in Below(y, S, R) /\ x \notin Below(x, S, R)
    BY <1>4 DEF Below, StrictTotal
  <2> QED BY <1>2, <2>1
<1>5. ASSUME NEW x \in S, NEW y \in S, rank(x) < rank(y) PROVE <<x, y>> \in R
  <2>1. x # y /\ ~(rank(y) < rank(x))
    BY <1>3, <1>5
  <2> QED BY <1>4, <2>1 DEF StrictTotal
<1>6. ASSUME NEW k \in 1..n PROVE \E x \in S : rank(x) = k - 1
  <2> DEFINE f == [x \in S |-> rank(x) + 1]
  <2>1. f \in [S -> 1..n]
    BY <1>1, <1>3
  <2>2. ASSUME NEW x \in S, NEW y \in S, f[x] = f[y] PROVE x = y
    <3>1. rank(x) = rank(y) /\ rank(x) \in Int /\ rank(y) \in Int
      BY <1>3, <2>2
    <3>2. ~(rank(x) < rank(y)) /\ ~(rank(y) < rank(x))
      BY <3>1
    <3> QED BY <1>4, <3>2 DEF StrictTotal
  <2>3. DOMAIN f = S
    OBVIOUS
  <2> HIDE DEF f
  <2>5. f \in Injection(S, 1..n)
    BY <2>1, <2>2, <2>3 DEF Injection, IsInjective
  <2>6. IsFiniteSet(1..n) /\ Cardinality(1..n) = n
    BY <1>1, FS_Interval
  <2>7. f \in Surjection(S, 1..n)
    BY <2>5, <2>6, FS_Injection
  <2>8. PICK x \in S : f[x] = k
    BY <2>7 DEF Surjection
  <2>9. rank(x) + 1 = k /\ rank(x) \in Int
    BY <1>3, <2>8 DEF f
  <2> QED BY <2>9
<1> QED BY <1>1, <1>3, <1>4, <1>5, <1>6

\* A function on an initial segment is a sequence.
LEMMA FunctionIsSeq ==
  ASSUME NEW S, NEW n \in Nat, NEW q \in [1..n -> S]
  PROVE  q \in Seq(S) /\ Len(q) = n
OBVIOUS

LEMMA JoinedSet ==
  ASSUME NEW S, NEW a \in Seq(S), NEW b \in Seq(S)
  PROVE  ToSet(a \o b) = ToSet(a) \cup ToSet(b) /\ ToSet(a) \subseteq S /\ ToSet(b) \subseteq S
<1>0. (\A i \in 1..Len(a) : a[i] \in S) /\ (\A i \in 1..Len(b) : b[i] \in S)
  OBVIOUS
<1> DEFINE la == Len(a)
           lb == Len(b)
<1>1. /\ la \in Nat /\ lb \in Nat /\ DOMAIN (a \o b) = 1..(la + lb)
      /\ DOMAIN a = 1..la /\ DOMAIN b = 1..lb
      /\ \A i \in 1..la : (a \o b)[i] = a[i]
      /\ \A i \in 1..(la + lb) : i > la => (a \o b)[i] = b[i - la]
  OBVIOUS
<1>2. ASSUME NEW i \in 1..lb PROVE la + i \in 1..(la + lb) /\ (a \o b)[la + i] = b[i]
  <2>1. la + i \in 1..(la + lb) /\ la + i > la /\ (la + i) - la = i
    BY <1>1
  <2> QED BY <1>1, <2>1
<1>3. \A i \in 1..la : i \in 1..(la + lb)
  BY <1>1
<1>4. \A i \in 1..(la + lb) : i \in 1..la \/ (i > la /\ i - la \in 1..lb)
  BY <1>1
<1> DEFINE c == a \o b
<1> HIDE DEF la, lb, c
<1>5. ToSet(c) = {c[i] : i \in 1..(la + lb)} /\ ToSet(a) = {a[i] : i \in 1..la} /\ ToSet(b) = {b[i] : i \in 1..lb}
  BY <1>1 DEF ToSet, c
<1>6. ToSet(a) \subseteq S /\ ToSet(b) \subseteq S
  BY <1>0, <1>5 DEF la, lb
<1>7. ToSet(c) = ToSet(a) \cup ToSet(b)
  BY <1>1, <1>2, <1>3, <1>4, <1>5 DEF c
<1> QED BY <1>6, <1>7 DEF c

\* What a list of a finite set in order is.
Lists(q, S) == q \in Seq(S) /\ Len(q) = Cardinality(S) /\ \A x \in S : \E i \in 1..Len(q) : q[i] = x

\* The sort of mergeIntervals.
LEMMA EarlierSorts ==
  ASSUME NEW S \in SUBSET Interval, IsFiniteSet(S)
  PROVE  /\ Lists(InOrder(S, Earlier), S)
         /\ \A i, j \in 1..Cardinality(S) : i < j =>
              Earlier(InOrder(S, Earlier)[i], InOrder(S, Earlier)[j])
<1> DEFINE R == {p \in S \X S : Earlier(p[1], p[2])}
           q == InOrder(S, Earlier)
           n == Cardinality(S)
<1>1. \A x, y \in S : <<x, y>> \in R <=> Earlier(x, y)
  OBVIOUS
<1>2. StrictTotal(R, S)
  <2>1. \A x \in S : x.start \in Int /\ x.end \in Int
    BY DEF Interval
  <2>2. \A x, y \in S : x.start = y.start /\ x.end = y.end => x = y
    BY DEF Interval
  <2> HIDE DEF R
  <2> QED BY <1>1, <2>1, <2>2 DEF StrictTotal, Earlier
<1> HIDE DEF R
<1>3. \A x \in S : {y \in S : Earlier(y, x)} = Below(x, S, R)
  BY <1>1 DEF Below
<1>4. /\ n \in Nat
      /\ \A x \in S : Cardinality(Below(x, S, R)) \in 0..(n - 1)
      /\ \A x, y \in S : <<x, y>> \in R <=>
           Cardinality(Below(x, S, R)) < Cardinality(Below(y, S, R))
      /\ \A k \in 1..n : \E x \in S : Cardinality(Below(x, S, R)) = k - 1
  BY <1>2, Ranks
<1>5. q = [k \in 1..n |-> CHOOSE x \in S : Cardinality({y \in S : Earlier(y, x)}) = k - 1]
  BY DEF InOrder
<1>6. ASSUME NEW k \in 1..n PROVE q[k] \in S /\ Cardinality(Below(q[k], S, R)) = k - 1
  <2>1. \E x \in S : Cardinality({y \in S : Earlier(y, x)}) = k - 1
    BY <1>3, <1>4
  <2>2. q[k] = CHOOSE x \in S : Cardinality({y \in S : Earlier(y, x)}) = k - 1
    BY <1>5
  <2>3. q[k] \in S /\ Cardinality({y \in S : Earlier(y, q[k])}) = k - 1
    BY <2>1, <2>2
  <2> QED BY <1>3, <2>3
<1>7. q \in Seq(S) /\ Len(q) = n
  <2>1. q = [k \in 1..n |-> q[k]]
    BY <1>5
  <2> HIDE DEF q
  <2>2. q \in [1..n -> S]
    BY <1>6, <2>1
  <2> QED BY <1>4, <2>2, FunctionIsSeq
<1> HIDE DEF q
<1>8. ASSUME NEW x \in S PROVE \E i \in 1..n : q[i] = x
  <2> DEFINE i == Cardinality(Below(x, S, R)) + 1
  <2>1. i \in 1..n /\ Cardinality(Below(x, S, R)) = i - 1
    BY <1>4
  <2>2. q[i] \in S /\ Cardinality(Below(q[i], S, R)) = Cardinality(Below(x, S, R))
    BY <1>6, <2>1
  <2>3. <<q[i], x>> \notin R /\ <<x, q[i]>> \notin R
    BY <1>4, <2>1, <2>2
  <2>4. q[i] = x
    BY <1>2, <2>2, <2>3 DEF StrictTotal
  <2> HIDE DEF i
  <2> QED BY <2>1, <2>4
<1>9. ASSUME NEW i \in 1..n, NEW j \in 1..n, i < j PROVE Earlier(q[i], q[j])
  <2>1. Cardinality(Below(q[i], S, R)) < Cardinality(Below(q[j], S, R))
    BY <1>4, <1>6, <1>9
  <2> QED BY <1>1, <1>4, <1>6, <2>1
<1> QED BY <1>7, <1>8, <1>9 DEF Lists, q

-----------------------------------------------------------------------------
(* mergeIntervals. *)

Proper == {x \in Interval : x.start < x.end}
In(t, x) == x.start <= t /\ t < x.end
InSome(t, out) == \E i \in 1..Len(out) : In(t, out[i])
Separated(out) == \A i, j \in 1..Len(out) : i < j => out[i].end < out[j].start

\* One step of the merge: what is covered grows by the interval that is merged,
\* and the intervals stay apart and in order.
LEMMA MergeStep ==
  ASSUME NEW out \in Seq(Proper), Separated(out), NEW cur \in Proper,
         out # <<>> => Last(out).start <= cur.start
  PROVE  /\ MergeInto(out, cur) \in Seq(Proper) /\ Separated(MergeInto(out, cur))
         /\ MergeInto(out, cur) # <<>> /\ Last(MergeInto(out, cur)).start <= cur.start
         /\ \A t \in Int : InSome(t, MergeInto(out, cur)) <=> InSome(t, out) \/ In(t, cur)
<1> DEFINE new == MergeInto(out, cur)
           n == Len(out)
<1>1. /\ n \in Nat /\ cur.start \in Int /\ cur.end \in Int /\ cur.start < cur.end
      /\ \A i \in 1..n : /\ out[i] \in Proper /\ out[i].start \in Int /\ out[i].end \in Int
                         /\ out[i].start < out[i].end
  BY DEF Proper, Interval
<1>2. CASE out # <<>> /\ cur.start <= Last(out).end
  <2> DEFINE last == [out[n] EXCEPT !.end = IF cur.end > @ THEN cur.end ELSE @]
  <2>1. n \in 1..n /\ Last(out) = out[n]
    BY <1>2 DEF Last
  <2>2. /\ last \in Proper /\ last.start = out[n].start
        /\ last.end = IF cur.end > out[n].end THEN cur.end ELSE out[n].end
    BY <1>1, <2>1 DEF Proper, Interval
  <2> HIDE DEF last
  <2>3. new = Append(SubSeq(out, 1, n - 1), last)
    BY <1>2, <2>1 DEF MergeInto, Front, last
  <2>4. /\ new \in Seq(Proper) /\ Len(new) = n /\ new[n] = last
        /\ \A i \in 1..(n - 1) : new[i] = out[i]
    <3> DEFINE front == SubSeq(out, 1, n - 1)
    <3>1. /\ front \in Seq(Proper) /\ Len(front) = n - 1
          /\ \A i \in 1..(n - 1) : front[i] = out[i]
      <4>1. n - 1 \in Nat /\ n - 1 <= n
        BY <1>1, <2>1
      <4>2. \A i \in 1..(n - 1) : i \in 1..n
        BY <1>1
      <4>3. front = [i \in 1..(n - 1) |-> out[i]]
        BY <1>1, <4>1
      <4>4. front \in [1..(n - 1) -> Proper]
        BY <1>1, <4>2, <4>3
      <4> QED BY <4>1, <4>3, <4>4, FunctionIsSeq
    <3> HIDE DEF front, new
    <3> QED BY <1>1, <2>1, <2>2, <2>3, <3>1 DEF front
  <2> HIDE DEF new
  <2>5. out[n].start <= cur.start /\ cur.start <= out[n].end
    BY <1>2, <2>1
  <2>6. Separated(new)
    <3> SUFFICES ASSUME NEW i \in 1..n, NEW j \in 1..n, i < j
                 PROVE  new[i].end < new[j].start
      BY <2>4 DEF Separated
    <3>1. new[i] = out[i] /\ new[j].start = out[j].start
      BY <1>1, <2>2, <2>4
    <3> QED BY <3>1 DEF Separated
  <2>7. ASSUME NEW t \in Int PROVE InSome(t, new) <=> InSome(t, out) \/ In(t, cur)
    <3>1. In(t, last) <=> In(t, out[n]) \/ In(t, cur)
      BY <1>1, <2>1, <2>2, <2>5 DEF In
    <3>2. InSome(t, new) <=> In(t, last) \/ \E i \in 1..(n - 1) : In(t, out[i])
      BY <1>1, <2>1, <2>4 DEF InSome
    <3>3. InSome(t, out) <=> In(t, out[n]) \/ \E i \in 1..(n - 1) : In(t, out[i])
      BY <1>1, <2>1 DEF InSome
    <3> QED BY <3>1, <3>2, <3>3
  <2>8. new # <<>> /\ Last(new).start <= cur.start
    BY <2>1, <2>2, <2>4, <2>5 DEF Last
  <2> QED BY <2>4, <2>6, <2>7, <2>8 DEF new
<1>3. CASE ~(out # <<>> /\ cur.start <= Last(out).end)
  <2>1. new = Append(out, cur)
    BY <1>3 DEF MergeInto
  <2>2. /\ new \in Seq(Proper) /\ Len(new) = n + 1 /\ new[n + 1] = cur
        /\ \A i \in 1..n : new[i] = out[i]
    BY <1>1, <2>1
  <2> HIDE DEF new
  <2>3. ASSUME NEW i \in 1..n PROVE out[i].end < cur.start
    <3>1. out # <<>> /\ n \in 1..n /\ Last(out) = out[n] /\ out[n].end < cur.start
      BY <1>1, <1>3 DEF Last
    <3>2. i < n => out[i].end < out[n].start
      BY <3>1 DEF Separated
    <3> QED BY <1>1, <3>1, <3>2
  <2>4. Separated(new)
    <3> SUFFICES ASSUME NEW i \in 1..(n + 1), NEW j \in 1..(n + 1), i < j
                 PROVE  new[i].end < new[j].start
      BY <2>2 DEF Separated
    <3>1. i \in 1..n /\ new[i] = out[i]
      BY <1>1, <2>2
    <3>2. CASE j = n + 1
      BY <2>2, <2>3, <3>1, <3>2
    <3>3. CASE j # n + 1
      <4>1. j \in 1..n
        BY <1>1, <3>3
      <4>2. new[j] = out[j]
        BY <2>2, <4>1
      <4> QED BY <3>1, <4>1, <4>2 DEF Separated
    <3> QED BY <3>2, <3>3
  <2>5. ASSUME NEW t \in Int PROVE InSome(t, new) <=> InSome(t, out) \/ In(t, cur)
    BY <1>1, <2>2 DEF InSome
  <2>6. new # <<>> /\ Last(new).start <= cur.start
    BY <1>1, <2>2 DEF Last
  <2> QED BY <2>2, <2>4, <2>5, <2>6 DEF new
<1> QED BY <1>2, <1>3

\* The merged intervals are apart, in order, and cover the same instants.
LEMMA Merges ==
  ASSUME NEW S \in SUBSET Proper, IsFiniteSet(S)
  PROVE  /\ MergeIntervals(S) \in Seq(Proper) /\ Separated(MergeIntervals(S))
         /\ \A t \in Int : InSome(t, MergeIntervals(S)) <=> \E x \in S : In(t, x)
<1> DEFINE q == InOrder(S, Earlier)
           n == Len(q)
<1>1. S \in SUBSET Interval
  BY DEF Proper
<1>2. /\ q \in Seq(S) /\ n = Cardinality(S) /\ \A x \in S : \E i \in 1..n : q[i] = x
      /\ \A i, j \in 1..n : i < j => Earlier(q[i], q[j])
  BY <1>1, EarlierSorts DEF Lists
<1> HIDE DEF q
<1>3. q \in Seq(Interval) /\ n \in Nat /\ \A i \in 1..n : q[i] \in S /\ q[i] \in Proper
  BY <1>1, <1>2
<1>4. PICK g \in [0..n -> Seq(Interval)] :
        /\ g[0] = <<>> /\ g[n] = FoldLeft(MergeInto, <<>>, q)
        /\ \A k \in 1..n : g[k] = MergeInto(g[k - 1], q[k])
  BY <1>3, MergeTrace
<1> DEFINE P(k) == /\ g[k] \in Seq(Proper) /\ Separated(g[k])
                   /\ k > 0 => g[k] # <<>> /\ Last(g[k]).start <= q[k].start
                   /\ k = 0 => g[k] = <<>>
                   /\ \A t \in Int : InSome(t, g[k]) <=> \E i \in 1..k : In(t, q[i])
           K == {k \in Nat : k <= n => P(k)}
<1>5. 0 \in K
  <2>1. P(0)
    BY <1>4 DEF Separated, InSome
  <2> QED BY <2>1
<1>6. ASSUME NEW k \in Nat, k \in K PROVE k + 1 \in K
  <2> SUFFICES ASSUME k + 1 <= n PROVE P(k + 1)
    OBVIOUS
  <2>1. P(k)
    BY <1>6
  <2>2. k + 1 \in 1..n /\ g[k + 1] = MergeInto(g[k], q[k + 1]) /\ q[k + 1] \in Proper
    <3>1. k + 1 \in 1..n /\ (k + 1) - 1 = k
      BY <1>3
    <3>2. g[k + 1] = MergeInto(g[(k + 1) - 1], q[k + 1]) /\ q[k + 1] \in Proper
      BY <1>3, <1>4, <3>1, Zenon
    <3> QED BY <3>1, <3>2
  <2>3. g[k] # <<>> => Last(g[k]).start <= q[k + 1].start
    <3> SUFFICES ASSUME k > 0 PROVE Last(g[k]).start <= q[k + 1].start
      BY <2>1
    <3>1. g[k] # <<>> /\ Last(g[k]).start <= q[k].start /\ g[k] \in Seq(Proper)
      BY <2>1
    <3>2. Last(g[k]) \in Proper
      BY <3>1 DEF Last
    <3>3. k \in 1..n /\ q[k] \in Proper /\ Earlier(q[k], q[k + 1])
      BY <1>2, <1>3, <2>2
    <3> HIDE DEF P
    <3> QED BY <2>2, <3>1, <3>2, <3>3 DEF Earlier, Proper, Interval
  <2>4. g[k] \in Seq(Proper) /\ Separated(g[k])
        /\ \A t \in Int : InSome(t, g[k]) <=> \E i \in 1..k : In(t, q[i])
    BY <2>1
  <2>5. /\ g[k + 1] \in Seq(Proper) /\ Separated(g[k + 1])
        /\ g[k + 1] # <<>> /\ Last(g[k + 1]).start <= q[k + 1].start
        /\ \A t \in Int : InSome(t, g[k + 1]) <=> InSome(t, g[k]) \/ In(t, q[k + 1])
    BY <2>2, <2>3, <2>4, MergeStep
  <2>6. ASSUME NEW t \in Int
        PROVE  InSome(t, g[k + 1]) <=> \E i \in 1..(k + 1) : In(t, q[i])
    <3>1. 1..(k + 1) = (1..k) \cup {k + 1}
      OBVIOUS
    <3>2. InSome(t, g[k + 1]) <=> (\E i \in 1..k : In(t, q[i])) \/ In(t, q[k + 1])
      BY <2>4, <2>5
    <3> QED BY <3>1, <3>2
  <2> QED BY <2>5, <2>6
<1>7. Nat \subseteq K
  <2> HIDE DEF K
  <2> QED BY <1>5, <1>6, Induction
<1>8. P(n)
  <2> HIDE DEF P, n
  <2>1. n \in {k \in Nat : k <= n => P(k)}
    BY <1>3, <1>7
  <2>2. n <= n => P(n)
    BY <2>1
  <2> QED BY <1>3, <2>2
<1>9. MergeIntervals(S) = g[n]
  BY <1>4 DEF MergeIntervals, q
<1>10. ASSUME NEW t \in Int PROVE InSome(t, g[n]) <=> \E x \in S : In(t, x)
  BY <1>2, <1>3, <1>8
<1> QED BY <1>8, <1>9, <1>10

-----------------------------------------------------------------------------
(* invertBusy. *)

Walks == [free : SUBSET Interval, cursor : Int]

LEMMA WalkType ==
  ASSUME NEW acc \in Walks, NEW b \in Interval, NEW from \in Int, NEW to \in Int
  PROVE  Walk(acc, b, from, to) \in Walks
<1>1. /\ acc.free \in SUBSET Interval /\ acc.cursor \in Int /\ b.start \in Int /\ b.end \in Int
      /\ [start |-> acc.cursor, end |-> b.start] \in Interval
  BY DEF Walks, Interval
<1> DEFINE gap == [start |-> acc.cursor, end |-> b.start]
           free == IF b.start > acc.cursor THEN acc.free \cup {gap} ELSE acc.free
           cursor == IF b.end > acc.cursor THEN b.end ELSE acc.cursor
<1>2. free \in SUBSET Interval /\ cursor \in Int
  BY <1>1
<1>3. Walk(acc, b, from, to) = acc \/ Walk(acc, b, from, to) = [free |-> free, cursor |-> cursor]
  BY DEF Walk
<1> HIDE DEF free, cursor
<1> QED BY <1>2, <1>3 DEF Walks

\* The walk over q, with what invertBusy makes of its end.
WalkOver(g, q, from, to) ==
  /\ g \in [0..Len(q) -> Walks]
  /\ g[0] = [free |-> {}, cursor |-> from]
  /\ \A k \in 1..Len(q) : g[k] = Walk(g[k - 1], q[k], from, to)
  /\ InvertBusy(from, to, q) =
       g[Len(q)].free \cup IF g[Len(q)].cursor < to
                           THEN {[start |-> g[Len(q)].cursor, end |-> to]} ELSE {}

\* invertBusy goes through the merged intervals one by one.
LEMMA WalkTrace ==
  ASSUME NEW q \in Seq(Interval), NEW from \in Int, NEW to \in Int
  PROVE  \E g : WalkOver(g, q, from, to)
<1> DEFINE n == Len(q)
           V == Walks
           base == [free |-> {}, cursor |-> from]
           F == [p \in (1..n) \X V |-> Walk(p[2], q[p[1]], from, to)]
           Q(x) == x = [s \in SUBSET (DOMAIN q) |->
                          IF s = {} THEN base ELSE Walk(x[s \ {Max(s)}], q[Max(s)], from, to)]
           it == CHOOSE x : Q(x)
<1>1. n \in Nat /\ DOMAIN q = 1..n /\ base \in V
  BY DEF Walks
<1>2. F \in Steps(n, V)
  <2>1. ASSUME NEW p \in (1..n) \X V PROVE Walk(p[2], q[p[1]], from, to) \in V
    <3>1. p[2] \in V /\ p[1] \in 1..n /\ q[p[1]] \in Interval
      OBVIOUS
    <3> QED BY <3>1, WalkType
  <2> QED BY <2>1 DEF Steps
<1>3. \A k \in 1..n, v \in V : F[<<k, v>>] = Walk(v, q[k], from, to)
  OBVIOUS
<1> HIDE DEF V, F, n, base
<1>4. \E x : Q(x)
  <2>1. PICK x \in [SUBSET (1..n) -> V] : Solves(x, n, V, base, F)
    BY <1>1, <1>2, FoldExists
  <2>2. ASSUME NEW s \in SUBSET (1..n)
        PROVE  x[s] = IF s = {} THEN base ELSE Walk(x[s \ {Max(s)}], q[Max(s)], from, to)
    <3>1. CASE s = {}
      BY <2>1, <3>1 DEF Solves
    <3>2. CASE s # {}
      <4>1. Max(s) \in 1..n
        BY <1>1, <3>2, MaxIndex
      <4>2. s \ {Max(s)} \in SUBSET (1..n)
        OBVIOUS
      <4> QED BY <1>3, <2>1, <3>2, <4>1, <4>2 DEF Solves
    <3> QED BY <3>1, <3>2
  <2> QED BY <1>1, <2>2
<1>5. Q(it)
  BY <1>4
<1>6. InvertBusy(from, to, q) =
        it[1..n].free \cup IF it[1..n].cursor < to
                           THEN {[start |-> it[1..n].cursor, end |-> to]} ELSE {}
  BY <1>1 DEF InvertBusy, FoldLeft, base, MapThenFoldSet
<1> HIDE DEF it
<1>7. it[{}] = base
  BY <1>1, <1>5
<1>8. ASSUME NEW s \in SUBSET (1..n), s # {}, it[s \ {Max(s)}] \in V
      PROVE  it[s] = F[<<Max(s), it[s \ {Max(s)}]>>]
  <2>1. Max(s) \in 1..n
    BY <1>1, <1>8, MaxIndex
  <2> QED BY <1>1, <1>3, <1>5, <1>8, <2>1
<1>9. PICK g \in Trace(n, V, base, F) : g[n] = it[1..n]
  <2>1. Solves(it, n, V, base, F)
    BY <1>7, <1>8 DEF Solves
  <2> QED BY <1>1, <1>2, <2>1, FoldTrace
<1>10. ASSUME NEW k \in 1..n PROVE g[k] = Walk(g[k - 1], q[k], from, to)
  <2>1. k - 1 \in 0..n
    BY <1>1
  <2> QED BY <1>3, <1>9, <2>1 DEF Trace
<1>11. g \in [0..n -> V] /\ g[0] = base
  BY <1>9 DEF Trace
<1> QED BY <1>6, <1>9, <1>10, <1>11 DEF n, V, base, WalkOver

Apart(a, b) == a.end <= b.start \/ b.end <= a.start

\* What the walk has found when it has passed the first k busy intervals.
Walked(acc, k, q, from, to) ==
  /\ IsFiniteSet(acc.free) /\ acc.cursor >= from
  /\ k = 0 => acc.free = {}
  /\ \A w \in acc.free : /\ w \in Proper /\ from <= w.start /\ w.end <= to
                         /\ k > 0 => w.end <= q[k].start
                         /\ \A i \in 1..k : Apart(w, q[i])
  /\ \A i \in 1..k : q[i].end <= acc.cursor \/ q[i].start >= to
  /\ \A t \in from..(to - 1) : t < acc.cursor => \/ \E w \in acc.free : In(t, w)
                                                 \/ \E i \in 1..k : In(t, q[i])

LEMMA WalkStep ==
  ASSUME NEW from \in Int, NEW to \in Int, NEW q \in Seq(Proper), Separated(q),
         NEW k \in Nat, k + 1 <= Len(q), NEW acc \in Walks, Walked(acc, k, q, from, to)
  PROVE  Walked(Walk(acc, q[k + 1], from, to), k + 1, q, from, to)
<1> DEFINE b == q[k + 1]
           new == Walk(acc, b, from, to)
           gap == [start |-> acc.cursor, end |-> b.start]
<1>1. /\ Len(q) \in Nat /\ k + 1 \in 1..Len(q) /\ acc.cursor \in Int
      /\ \A i \in 1..Len(q) : /\ q[i] \in Proper /\ q[i].start \in Int /\ q[i].end \in Int
                              /\ q[i].start < q[i].end
  BY DEF Proper, Interval, Walks
<1>2. \A w \in Proper : w.start \in Int /\ w.end \in Int /\ w.start < w.end
  BY DEF Proper, Interval
<1>3. 1..(k + 1) = (1..k) \cup {k + 1} /\ \A i \in 1..k : i \in 1..Len(q) /\ i < k + 1
  BY <1>1
<1>4. \A i \in 1..k : q[i].end < b.start
  BY <1>1, <1>3 DEF Separated
<1>5. ASSUME NEW w \in acc.free PROVE k > 0 /\ w.end <= q[k].start /\ w.end <= b.start /\ Apart(w, b)
  <2>1. k > 0 /\ w \in Proper /\ w.end <= q[k].start /\ k \in 1..k
    BY DEF Walked
  <2>2. q[k].end < b.start /\ q[k].start < q[k].end /\ q[k].start \in Int /\ q[k].end \in Int
    BY <1>1, <1>3, <1>4, <2>1
  <2> QED BY <1>1, <1>2, <2>1, <2>2 DEF Apart
<1>6. CASE b.end <= from \/ b.start >= to
  <2>1. new = acc
    BY <1>6 DEF Walk
  <2>2. b.end <= acc.cursor \/ b.start >= to
    BY <1>1, <1>6 DEF Walked
  <2> HIDE DEF b, new
  <2>3. \A i \in 1..(k + 1) : q[i].end <= acc.cursor \/ q[i].start >= to
    BY <1>3, <2>2 DEF Walked, b
  <2>4. \A w \in acc.free : \A i \in 1..(k + 1) : Apart(w, q[i])
    BY <1>3, <1>5 DEF Walked, b
  <2>5. \A w \in acc.free : w.end <= q[k + 1].start
    BY <1>5 DEF b
  <2>6. \A t \in from..(to - 1) : t < acc.cursor => \/ \E w \in acc.free : In(t, w)
                                                    \/ \E i \in 1..(k + 1) : In(t, q[i])
    BY <1>3 DEF Walked
  <2>7. Walked(acc, k + 1, q, from, to)
    BY <2>3, <2>4, <2>5, <2>6 DEF Walked
  <2> QED BY <2>1, <2>7 DEF new, b
<1>7. CASE ~(b.end <= from \/ b.start >= to)
  <2> DEFINE free == IF b.start > acc.cursor THEN acc.free \cup {gap} ELSE acc.free
             cursor == IF b.end > acc.cursor THEN b.end ELSE acc.cursor
  <2>1. new = [free |-> free, cursor |-> cursor]
    BY <1>7 DEF Walk
  <2>2. /\ cursor \in Int /\ acc.cursor <= cursor /\ b.end <= cursor /\ from <= cursor
        /\ acc.cursor >= from
    BY <1>1 DEF Walked
  <2>3. ASSUME b.start > acc.cursor
        PROVE  /\ gap \in Proper /\ from <= gap.start /\ gap.end <= to /\ gap.end <= b.start
               /\ Apart(gap, b) /\ \A i \in 1..k : Apart(gap, q[i])
    <3>1. gap \in Proper /\ gap.start = acc.cursor /\ gap.end = b.start
      BY <1>1, <2>3 DEF Proper, Interval
    <3> HIDE DEF gap, b
    <3>2. from <= gap.start /\ gap.end <= to /\ gap.end <= b.start /\ b.start \in Int
      BY <1>1, <1>7, <2>2, <3>1 DEF b
    <3>3. ASSUME NEW i \in 1..k PROVE Apart(gap, q[i])
      <4>1. q[i].end <= acc.cursor \/ q[i].start >= to
        BY DEF Walked
      <4>2. q[i].start \in Int /\ q[i].end \in Int
        BY <1>1, <1>3
      <4> QED BY <3>1, <3>2, <4>1, <4>2 DEF Apart
    <3> QED BY <3>1, <3>2, <3>3 DEF Apart
  <2> HIDE DEF gap, cursor
  <2>4. IsFiniteSet(free)
    BY FS_AddElement DEF Walked
  <2>5. ASSUME NEW w \in free
        PROVE  /\ w \in Proper /\ from <= w.start /\ w.end <= to /\ w.end <= b.start
               /\ \A i \in 1..k : Apart(w, q[i])
               /\ Apart(w, b)
    <3>1. CASE w \in acc.free
      BY <1>5, <3>1 DEF Walked
    <3>2. CASE w \notin acc.free
      <4>1. b.start > acc.cursor /\ w = gap
        BY <3>2
      <4> QED BY <2>3, <4>1
    <3> QED BY <3>1, <3>2
  <2> HIDE DEF free, new, b
  <2>6. ASSUME NEW i \in 1..k PROVE q[i].end <= cursor \/ q[i].start >= to
    <3>1. q[i].end <= acc.cursor \/ q[i].start >= to
      BY DEF Walked
    <3>2. q[i].end \in Int
      BY <1>1, <1>3
    <3> QED BY <1>1, <2>2, <3>1, <3>2
  <2>7. \A i \in 1..(k + 1) : q[i].end <= cursor \/ q[i].start >= to
    BY <1>3, <2>2, <2>6 DEF b
  <2>8. \A w \in free : \A i \in 1..(k + 1) : Apart(w, q[i])
    BY <1>3, <2>5 DEF b
  <2>9. new.free = free /\ new.cursor = cursor
    BY <2>1
  <2>10. k + 1 # 0
    OBVIOUS
  <2>11. ASSUME NEW t \in from..(to - 1), t < cursor
         PROVE  (\E w \in free : In(t, w)) \/ \E i \in 1..(k + 1) : In(t, q[i])
    <3>1. CASE t < acc.cursor
      <4>1. acc.free \subseteq free
        BY DEF free
      <4> QED BY <1>3, <3>1, <4>1 DEF Walked
    <3>2. CASE ~(t < acc.cursor) /\ t < b.start
      <4>1. b.start > acc.cursor /\ gap.start = acc.cursor /\ gap.end = b.start
        BY <1>1, <3>2 DEF b, gap
      <4>2. gap \in free
        BY <4>1 DEF free
      <4> QED BY <1>1, <3>2, <4>1, <4>2 DEF In
    <3>3. CASE ~(t < acc.cursor) /\ ~(t < b.start)
      <4>1. In(t, b)
        BY <1>1, <2>11, <3>3 DEF In, cursor, b
      <4> QED BY <1>3, <4>1 DEF b
    <3> QED BY <3>1, <3>2, <3>3
  <2>12. \A w \in new.free : /\ w \in Proper /\ from <= w.start /\ w.end <= to
                             /\ w.end <= q[k + 1].start
                             /\ \A i \in 1..(k + 1) : Apart(w, q[i])
    BY <2>5, <2>8, <2>9 DEF b
  <2>13. \A t \in from..(to - 1) : t < new.cursor => \/ \E w \in new.free : In(t, w)
                                                     \/ \E i \in 1..(k + 1) : In(t, q[i])
    BY <2>9, <2>11
  <2>14. IsFiniteSet(new.free) /\ new.cursor >= from
         /\ \A i \in 1..(k + 1) : q[i].end <= new.cursor \/ q[i].start >= to
    BY <2>2, <2>4, <2>7, <2>9
  <2> HIDE DEF In, Apart
  <2>15. Walked(new, k + 1, q, from, to)
    BY <2>10, <2>12, <2>13, <2>14 DEF Walked
  <2> QED BY <2>15 DEF new, b
<1> QED BY <1>6, <1>7

\* The free windows are finitely many, within the range, apart from every busy
\* interval, and cover the rest of the range.
LEMMA Inverts ==
  ASSUME NEW from \in Int, NEW to \in Int, NEW q \in Seq(Proper), Separated(q)
  PROVE  /\ IsFiniteSet(InvertBusy(from, to, q))
         /\ \A w \in InvertBusy(from, to, q) :
              /\ w \in Proper /\ from <= w.start /\ w.end <= to
              /\ \A i \in 1..Len(q) : Apart(w, q[i])
         /\ \A t \in from..(to - 1) :
              InSome(t, q) \/ \E w \in InvertBusy(from, to, q) : In(t, w)
<1> DEFINE n == Len(q)
<1>1. n \in Nat /\ q \in Seq(Interval)
  BY DEF Proper
<1>2. PICK g : WalkOver(g, q, from, to)
  BY <1>1, WalkTrace
<1>2a. /\ g \in [0..n -> Walks] /\ g[0] = [free |-> {}, cursor |-> from]
       /\ \A k \in 1..n : g[k] = Walk(g[k - 1], q[k], from, to)
       /\ InvertBusy(from, to, q) =
            g[n].free \cup IF g[n].cursor < to
                           THEN {[start |-> g[n].cursor, end |-> to]} ELSE {}
  BY <1>2, Zenon DEF WalkOver
<1> HIDE DEF n
<1> DEFINE K == {k \in Nat : k <= n => Walked(g[k], k, q, from, to)}
<1>3. 0 \in K
  <2>1. g[0].free = {} /\ g[0].cursor = from
    BY <1>2a
  <2>2. Walked(g[0], 0, q, from, to)
    BY <2>1, FS_EmptySet DEF Walked
  <2> QED BY <2>2
<1>4. ASSUME NEW k \in Nat, k \in K PROVE k + 1 \in K
  <2> SUFFICES ASSUME k + 1 <= n PROVE Walked(g[k + 1], k + 1, q, from, to)
    OBVIOUS
  <2>1. k <= n /\ k \in 0..n /\ k + 1 \in 1..n /\ (k + 1) - 1 = k
    BY <1>1
  <2>2. Walked(g[k], k, q, from, to) /\ g[k] \in Walks
    BY <1>2a, <1>4, <2>1
  <2>3. g[k + 1] = Walk(g[k], q[k + 1], from, to)
    BY <1>2a, <2>1
  <2> QED BY <2>2, <2>3, WalkStep DEF n
<1>5. Nat \subseteq K
  <2> HIDE DEF K
  <2> QED BY <1>3, <1>4, Induction
<1>6. Walked(g[n], n, q, from, to)
  <2>1. n \in {k \in Nat : k <= n => Walked(g[k], k, q, from, to)}
    BY <1>1, <1>5
  <2>2. n <= n => Walked(g[n], n, q, from, to)
    BY <2>1
  <2> QED BY <1>1, <2>2
<1> DEFINE last == [start |-> g[n].cursor, end |-> to]
<1>7. g[n].cursor \in Int
  BY <1>1, <1>2a DEF Walks
<1>8. ASSUME g[n].cursor < to
      PROVE  /\ last \in Proper /\ from <= last.start /\ last.end <= to
             /\ \A i \in 1..n : Apart(last, q[i])
  <2>1. last \in Proper /\ last.start = g[n].cursor /\ last.end = to
    BY <1>7, <1>8 DEF Proper, Interval
  <2> QED BY <1>6, <2>1 DEF Walked, Apart
<1> HIDE DEF last
<1>9. InvertBusy(from, to, q) = g[n].free \cup IF g[n].cursor < to THEN {last} ELSE {}
  BY <1>2a DEF last
<1>10. IsFiniteSet(InvertBusy(from, to, q))
  <2>1. IsFiniteSet(g[n].free) /\ IsFiniteSet(g[n].free \cup {last})
    BY <1>6, FS_AddElement DEF Walked
  <2>2. InvertBusy(from, to, q) = g[n].free \/ InvertBusy(from, to, q) = g[n].free \cup {last}
    BY <1>9
  <2> QED BY <2>1, <2>2
<1>11. ASSUME NEW w \in InvertBusy(from, to, q)
       PROVE  /\ w \in Proper /\ from <= w.start /\ w.end <= to
              /\ \A i \in 1..n : Apart(w, q[i])
  <2>1. CASE w \in g[n].free
    BY <1>6, <2>1 DEF Walked
  <2>2. CASE w \notin g[n].free
    <3>1. g[n].cursor < to /\ w = last
      BY <1>9, <2>2
    <3> QED BY <1>8, <3>1
  <2> QED BY <2>1, <2>2
<1>12. ASSUME NEW t \in from..(to - 1)
       PROVE  InSome(t, q) \/ \E w \in InvertBusy(from, to, q) : In(t, w)
  <2>1. CASE t < g[n].cursor
    BY <1>6, <1>9, <2>1 DEF Walked, InSome, n
  <2>2. CASE ~(t < g[n].cursor)
    <3>1. g[n].cursor < to /\ In(t, last)
      BY <1>7, <2>2 DEF In, last
    <3> QED BY <1>9, <3>1
  <2> QED BY <2>1, <2>2
<1> QED BY <1>10, <1>11, <1>12 DEF n

-----------------------------------------------------------------------------
(* clipWorkingHours. *)

\* The image of a finite set.
LEMMA ImageFinite ==
  ASSUME NEW S, IsFiniteSet(S), NEW f, DOMAIN f = S
  PROVE  IsFiniteSet({f[x] : x \in S})
<1> DEFINE T == {f[x] : x \in S}
           h == [x \in S |-> f[x]]
<1>1. h \in Surjection(S, T)
  BY DEF Surjection
<1> HIDE DEF h, T
<1>2. IsFiniteSet(T)
  BY <1>1, FS_Surjection
<1> QED BY <1>2 DEF T

\* The options of a computation that was not refused, as the handler passes them.
Options ==
  {a \in SlotOptions :
     /\ OptionsValid(a)
     /\ \A d \in CivilDays : WallClock[d][0] <= a.to => d + 2 \in CivilDays}

\* The segment of a day of the walk is an interval.
LEMMA SegmentType ==
  ASSUME NEW a \in Options, NEW d \in CivilDays, d + 2 \in CivilDays
  PROVE  Segment(d, a) \in Interval
<1>1. /\ a.hourStart \in 0..DayMinutes /\ a.hourEnd \in 0..DayMinutes /\ DayMinutes \in Nat \ {0}
  BY WallClockAssumption DEF Options, SlotOptions, OptionsValid
<1>2. d \in Int /\ d + 1 \in CivilDays /\ d + 2 \in CivilDays /\ (d + 1) + 1 = d + 2
  <2>1. d + 2 \in CivilDays /\ d \in Int
    BY WallClockAssumption
  <2>2. PICK first \in CivilDays, last \in CivilDays : CivilDays = first..last
    BY WallClockAssumption
  <2>3. first \in Int /\ last \in Int /\ d \in first..last /\ d + 2 \in first..last
    BY <2>1, <2>2, WallClockAssumption
  <2>4. d + 1 \in first..last
    BY <2>3
  <2> QED BY <2>1, <2>2, <2>4
<1>3. ASSUME NEW x \in CivilDays, NEW m \in 0..(DayMinutes - 1) PROVE WallClock[x][m] \in Int
  BY WallClockAssumption
<1>4. ASSUME NEW x \in {d, d + 1}, NEW m \in 0..DayMinutes PROVE LocalTimeOnDay(x, m) \in Int
  <2>1. x \in CivilDays /\ x + 1 \in CivilDays /\ 0 \in 0..(DayMinutes - 1)
    BY <1>1, <1>2
  <2>2. CASE m >= DayMinutes
    BY <1>3, <2>1, <2>2 DEF LocalTimeOnDay
  <2>3. CASE ~(m >= DayMinutes)
    <3>1. m \in 0..(DayMinutes - 1)
      BY <1>1, <2>3
    <3> QED BY <1>3, <2>1, <2>3, <3>1 DEF LocalTimeOnDay
  <2> QED BY <2>2, <2>3
<1>5. WallClock[d][0] \in Int /\ WallClock[d + 1][0] \in Int
  <2>1. 0 \in 0..(DayMinutes - 1)
    BY <1>1
  <2> QED BY <1>2, <1>3, <2>1
<1>6. CASE ~UsesHours(a)
  BY <1>5, <1>6 DEF Segment, Interval
<1>7. CASE UsesHours(a)
  <2>1. (IF Overnight(a) THEN d + 1 ELSE d) \in {d, d + 1}
    OBVIOUS
  <2>2. LocalTimeOnDay(d, a.hourStart) \in Int
    BY <1>1, <1>4
  <2>3. LocalTimeOnDay(IF Overnight(a) THEN d + 1 ELSE d, a.hourEnd) \in Int
    BY <1>1, <1>4, <2>1
  <2> QED BY <1>7, <2>2, <2>3 DEF Segment, Interval
<1> QED BY <1>6, <1>7

\* The clipped windows are apart and in order, and cover the instants of the free
\* ones that are in the segment of a day walked for them.
LEMMA Clips ==
  ASSUME NEW a \in Options, NEW free \in SUBSET Proper, IsFiniteSet(free),
         \A w \in free : w.end <= a.to
  PROVE  /\ ClipWorkingHours(free, a) \in Seq(Proper) /\ Separated(ClipWorkingHours(free, a))
         /\ \A t \in Int : InSome(t, ClipWorkingHours(free, a)) <=>
              \E w \in free : \E d \in DaysWalked(w, a) : In(t, w) /\ In(t, Segment(d, a))
<1> DEFINE parts(w) == {Intersect(w, Segment(d, a)) : d \in DaysWalked(w, a)}
           All == UNION {parts(w) : w \in free}
           X == {i \in All : i.end > i.start}
<1>1. ASSUME NEW w \in free, NEW d \in DaysWalked(w, a)
      PROVE  /\ Intersect(w, Segment(d, a)) \in Interval
             /\ \A t \in Int : In(t, Intersect(w, Segment(d, a))) <=> In(t, w) /\ In(t, Segment(d, a))
  <2>1. d \in CivilDays /\ WallClock[d][0] <= w.end /\ w.end <= a.to
    BY DEF DaysWalked
  <2>2. w.start \in Int /\ w.end \in Int /\ a.to \in Int
    BY DEF Proper, Interval, Options, SlotOptions
  <2>3. WallClock[d][0] \in Int
    <3>1. 0 \in 0..(DayMinutes - 1)
      BY WallClockAssumption
    <3> QED BY <2>1, <3>1, WallClockAssumption
  <2>4. Segment(d, a) \in Interval
    <3>1. d + 2 \in CivilDays
      BY <2>1, <2>2, <2>3 DEF Options
    <3> QED BY <2>1, <3>1, SegmentType
  <2>5. Segment(d, a).start \in Int /\ Segment(d, a).end \in Int
    BY <2>4 DEF Interval
  <2>6. Intersect(w, Segment(d, a)) \in Interval
    BY <2>2, <2>5 DEF Intersect, Interval
  <2> DEFINE g == Segment(d, a)
  <2>7. ASSUME NEW t \in Int PROVE In(t, Intersect(w, g)) <=> In(t, w) /\ In(t, g)
    <3>1. g.start \in Int /\ g.end \in Int
      BY <2>5
    <3> HIDE DEF g
    <3> QED BY <2>2, <3>1 DEF Intersect, In
  <2> QED BY <2>6, <2>7
<1>2. ASSUME NEW w \in free PROVE IsFiniteSet(parts(w))
  <2>1. IsFiniteSet(CivilDays)
    <3>1. PICK first \in CivilDays, last \in CivilDays : CivilDays = first..last
      BY WallClockAssumption
    <3>2. first \in Int /\ last \in Int
      BY WallClockAssumption
    <3>3. IsFiniteSet(first..last)
      BY <3>2, FS_Interval
    <3> QED BY <3>1, <3>3
  <2>2. DaysWalked(w, a) \in SUBSET CivilDays
    BY DEF DaysWalked
  <2>3. IsFiniteSet(DaysWalked(w, a))
    BY <2>1, <2>2, FS_Subset
  <2> DEFINE f == [d \in DaysWalked(w, a) |-> Intersect(w, Segment(d, a))]
  <2>4. IsFiniteSet({f[d] : d \in DaysWalked(w, a)})
    <3>1. DOMAIN f = DaysWalked(w, a)
      OBVIOUS
    <3> HIDE DEF f
    <3> QED BY <2>3, <3>1, ImageFinite
  <2>5. {f[d] : d \in DaysWalked(w, a)} = parts(w)
    OBVIOUS
  <2> QED BY <2>4, <2>5
<1>3. IsFiniteSet({parts(w) : w \in free})
  <2> DEFINE f == [w \in free |-> parts(w)]
  <2>1. IsFiniteSet({f[w] : w \in free})
    <3>1. DOMAIN f = free
      OBVIOUS
    <3> HIDE DEF f
    <3> QED BY <3>1, ImageFinite
  <2>2. {f[w] : w \in free} = {parts(w) : w \in free}
    OBVIOUS
  <2> QED BY <2>1, <2>2
<1>4. IsFiniteSet(All)
  <2> DEFINE G == {parts(w) : w \in free}
  <2>1. \A T \in G : IsFiniteSet(T)
    BY <1>2
  <2> HIDE DEF G
  <2>2. IsFiniteSet(UNION G)
    BY <1>3, <2>1, FS_UNION DEF G
  <2> QED BY <2>2 DEF G
<1>5. ASSUME NEW x \in X
      PROVE  x \in Proper /\ \E w \in free : \E d \in DaysWalked(w, a) : x = Intersect(w, Segment(d, a))
  <2>1. PICK w \in free : x \in parts(w)
    OBVIOUS
  <2>2. PICK d \in DaysWalked(w, a) : x = Intersect(w, Segment(d, a))
    BY <2>1
  <2>3. x \in Interval /\ x.end > x.start
    BY <1>1, <2>2
  <2>4. x \in Proper
    BY <2>3 DEF Proper, Interval
  <2> QED BY <2>2, <2>4
<1>5a. ASSUME NEW w \in free, NEW d \in DaysWalked(w, a), NEW t \in Int, In(t, w), In(t, Segment(d, a))
       PROVE  \E x \in X : In(t, x)
  <2> DEFINE x == Intersect(w, Segment(d, a))
  <2>1. x \in Interval /\ In(t, x)
    BY <1>1, <1>5a
  <2>2. x \in parts(w) /\ x \in All
    OBVIOUS
  <2> HIDE DEF x, All
  <2>3. x.end > x.start
    BY <2>1 DEF In, Interval
  <2> QED BY <2>1, <2>2, <2>3
<1>6. IsFiniteSet(X)
  <2>1. X \in SUBSET All
    OBVIOUS
  <2> HIDE DEF X, All
  <2> QED BY <1>4, <2>1, FS_Subset
<1>7. ClipWorkingHours(free, a) = MergeIntervals(X)
  BY DEF ClipWorkingHours
<1> HIDE DEF X
<1>8. X \in SUBSET Proper
  BY <1>5
<1>9. /\ MergeIntervals(X) \in Seq(Proper) /\ Separated(MergeIntervals(X))
      /\ \A t \in Int : InSome(t, MergeIntervals(X)) <=> \E x \in X : In(t, x)
  BY <1>6, <1>8, Merges
<1>10. ASSUME NEW t \in Int
       PROVE  (\E x \in X : In(t, x)) <=>
                \E w \in free : \E d \in DaysWalked(w, a) : In(t, w) /\ In(t, Segment(d, a))
  BY <1>1, <1>5, <1>5a
<1> QED BY <1>7, <1>9, <1>10

-----------------------------------------------------------------------------
(* The slots. *)

\* Slot s, of length dur, lies within window w.
Within(s, w, dur) == w.start <= s.start /\ s.end = s.start + dur /\ s.end <= w.end

\* The slots of a sequence follow each other.
InSuccession(q) == \A i, j \in 1..Len(q) : i < j => q[i].end <= q[j].start

\* Wherever window w has room for a slot, a slot of q has begun and not ended.
Fills(q, w, dur) == \A t \in Int : w.start <= t /\ t + dur <= w.end => InSome(t, q)

LEMMA SlotsWithin ==
  ASSUME NEW w \in Proper, NEW dur \in Int, dur > 0
  PROVE  /\ SlotsOf(w, dur) \in Seq(Interval)
         /\ \A i \in 1..Len(SlotsOf(w, dur)) : Within(SlotsOf(w, dur)[i], w, dur)
         /\ InSuccession(SlotsOf(w, dur)) /\ Fills(SlotsOf(w, dur), w, dur)
<1> DEFINE len == w.end - w.start
           n == len \div dur
           q == SlotsOf(w, dur)
<1>1. w.start \in Int /\ w.end \in Int /\ len \in Nat
  BY DEF Proper, Interval
<1> HIDE DEF len
<1>2. n \in Nat /\ n * dur <= len /\ len < (n + 1) * dur
  BY <1>1
<1>3. q = [i \in 1..n |-> [start |-> w.start + (i - 1) * dur, end |-> w.start + i * dur]]
  BY DEF SlotsOf, len
<1> HIDE DEF n
<1>4. ASSUME NEW i \in 1..n
      PROVE  /\ (i - 1) * dur \in Int /\ i * dur \in Int /\ 0 <= (i - 1) * dur
             /\ (i - 1) * dur + dur = i * dur /\ i * dur <= n * dur /\ n * dur \in Int
  <2>1. i \in Int /\ n \in Int /\ i - 1 \in Nat /\ n - i \in Nat
    BY <1>2
  <2>2. (i - 1) * dur \in Int /\ i * dur \in Int /\ n * dur \in Int /\ (i - 1) * dur + dur = i * dur
    BY <2>1
  <2>3. \A x \in Nat : 0 <= x * dur
    OBVIOUS
  <2>4. 0 <= (i - 1) * dur /\ 0 <= (n - i) * dur
    BY <2>1, <2>3
  <2>5. (n - i) * dur = n * dur - i * dur
    BY <2>1
  <2> QED BY <2>2, <2>4, <2>5
<1> HIDE DEF q
<1>5. ASSUME NEW i \in 1..n
      PROVE  /\ q[i] = [start |-> w.start + (i - 1) * dur, end |-> w.start + i * dur]
             /\ q[i].start = w.start + (i - 1) * dur /\ q[i].end = w.start + i * dur
             /\ q[i] \in Interval /\ Within(q[i], w, dur)
  <2>1. q[i] = [start |-> w.start + (i - 1) * dur, end |-> w.start + i * dur]
    BY <1>3
  <2> DEFINE x == (i - 1) * dur
             y == i * dur
  <2>2. /\ x \in Int /\ y \in Int /\ 0 <= x /\ x + dur = y /\ y <= len
    BY <1>1, <1>2, <1>4
  <2>3. q[i] = [start |-> w.start + x, end |-> w.start + y]
    BY <2>1
  <2> HIDE DEF x, y
  <2>4. w.end = w.start + len
    BY <1>1 DEF len
  <2>5. q[i] \in Interval /\ q[i].start = w.start + x /\ q[i].end = w.start + y
    BY <1>1, <2>2, <2>3 DEF Interval
  <2>6. Within(q[i], w, dur)
    BY <1>1, <2>2, <2>4, <2>5 DEF Within
  <2> QED BY <2>1, <2>5, <2>6 DEF x, y
<1>6. q \in [1..n -> Interval]
  BY <1>3, <1>5
<1>7. q \in Seq(Interval) /\ Len(q) = n
  BY <1>2, <1>6, FunctionIsSeq
<1>8. ASSUME NEW i \in 1..n, NEW j \in 1..n, i < j PROVE q[i].end <= q[j].start
  <2>1. i \in Int /\ j \in Int /\ (j - 1) - i \in Nat
    BY <1>2, <1>8
  <2>2. \A x \in Nat : 0 <= x * dur
    OBVIOUS
  <2>3. 0 <= ((j - 1) - i) * dur
    BY <2>1, <2>2
  <2>4. ((j - 1) - i) * dur = (j - 1) * dur - i * dur
    BY <2>1
  <2>5. (j - 1) * dur \in Int /\ i * dur \in Int
    BY <2>1
  <2>6. q[i].end = w.start + i * dur /\ q[j].start = w.start + (j - 1) * dur
    BY <1>5, Zenon
  <2> QED BY <1>1, <2>3, <2>4, <2>5, <2>6
<1>9. ASSUME NEW t \in Int, w.start <= t, t + dur <= w.end PROVE \E i \in 1..n : In(t, q[i])
  <2> DEFINE x == t - w.start
             k == x \div dur
  <2>1. x \in Nat /\ t = w.start + x /\ x + dur <= len
    BY <1>1, <1>9 DEF len
  <2> HIDE DEF x
  <2>2. k \in Nat /\ k * dur <= x /\ x < (k + 1) * dur
    BY <2>1
  <2> HIDE DEF k
  <2>3. /\ k * dur \in Int /\ (k + 1) * dur \in Int /\ (n + 1) * dur \in Int
        /\ (k + 1) * dur = k * dur + dur
    BY <1>2, <2>2
  <2>4. (k + 1) * dur < (n + 1) * dur
    BY <1>1, <1>2, <2>1, <2>2, <2>3
  <2>5. k + 1 < n + 1
    <3> SUFFICES ASSUME k - n \in Nat PROVE FALSE
      BY <1>2, <2>2
    <3>1. \A y \in Nat : 0 <= y * dur
      OBVIOUS
    <3>2. 0 <= (k - n) * dur
      BY <3>1
    <3>3. (k - n) * dur = (k + 1) * dur - (n + 1) * dur
      BY <1>2, <2>2
    <3> QED BY <2>3, <2>4, <3>2, <3>3
  <2>6. k + 1 \in 1..n /\ (k + 1) - 1 = k
    BY <1>2, <2>2, <2>5
  <2>7. q[k + 1].start = w.start + k * dur /\ q[k + 1].end = w.start + (k + 1) * dur
    <3>1. q[k + 1].start = w.start + ((k + 1) - 1) * dur /\ q[k + 1].end = w.start + (k + 1) * dur
      BY <1>5, <2>6, Zenon
    <3> QED BY <2>6, <3>1, Zenon
  <2>8. In(t, q[k + 1])
    BY <1>1, <2>1, <2>2, <2>3, <2>7 DEF In
  <2> QED BY <2>6, <2>8
<1>10. InSuccession(q) /\ Fills(q, w, dur)
  BY <1>7, <1>8, <1>9 DEF InSuccession, Fills, InSome
<1> QED BY <1>5, <1>7, <1>10 DEF q

\* The slots of the first windows, one window more at each step.
CutOver(g, q, dur) ==
  /\ g \in [0..Len(q) -> Seq(Interval)]
  /\ g[0] = <<>>
  /\ \A k \in 1..Len(q) : g[k] = g[k - 1] \o SlotsOf(q[k], dur)
  /\ CutIntoSlots(q, dur) = g[Len(q)]

LEMMA CutTrace ==
  ASSUME NEW q \in Seq(Proper), NEW dur \in Int, dur > 0
  PROVE  \E g : CutOver(g, q, dur)
<1> DEFINE n == Len(q)
           V == Seq(Interval)
           base == <<>>
           F == [p \in (1..n) \X V |-> p[2] \o SlotsOf(q[p[1]], dur)]
           Q(x) == x = [s \in SUBSET (DOMAIN q) |->
                          IF s = {} THEN base ELSE x[s \ {Max(s)}] \o SlotsOf(q[Max(s)], dur)]
           it == CHOOSE x : Q(x)
<1>1. n \in Nat /\ DOMAIN q = 1..n /\ base \in V
  OBVIOUS
<1>2. F \in Steps(n, V)
  <2>1. ASSUME NEW p \in (1..n) \X V PROVE p[2] \o SlotsOf(q[p[1]], dur) \in V
    <3>1. p[2] \in V /\ p[1] \in 1..n /\ q[p[1]] \in Proper
      OBVIOUS
    <3>2. SlotsOf(q[p[1]], dur) \in Seq(Interval)
      BY <3>1, SlotsWithin
    <3> QED BY <3>1, <3>2
  <2> QED BY <2>1 DEF Steps
<1>3. \A k \in 1..n, v \in V : F[<<k, v>>] = v \o SlotsOf(q[k], dur)
  OBVIOUS
<1> HIDE DEF V, F, n, base
<1>4. \E x : Q(x)
  <2>1. PICK x \in [SUBSET (1..n) -> V] : Solves(x, n, V, base, F)
    BY <1>1, <1>2, FoldExists
  <2>2. ASSUME NEW s \in SUBSET (1..n)
        PROVE  x[s] = IF s = {} THEN base ELSE x[s \ {Max(s)}] \o SlotsOf(q[Max(s)], dur)
    <3>1. CASE s = {}
      BY <2>1, <3>1 DEF Solves
    <3>2. CASE s # {}
      <4>1. Max(s) \in 1..n
        BY <1>1, <3>2, MaxIndex
      <4>2. s \ {Max(s)} \in SUBSET (1..n)
        OBVIOUS
      <4> QED BY <1>3, <2>1, <3>2, <4>1, <4>2 DEF Solves
    <3> QED BY <3>1, <3>2
  <2> QED BY <1>1, <2>2
<1>5. Q(it)
  BY <1>4
<1>6. CutIntoSlots(q, dur) = it[1..n]
  BY <1>1 DEF CutIntoSlots, FoldLeft, base, MapThenFoldSet
<1> HIDE DEF it
<1>7. it[{}] = base
  BY <1>1, <1>5
<1>8. ASSUME NEW s \in SUBSET (1..n), s # {}, it[s \ {Max(s)}] \in V
      PROVE  it[s] = F[<<Max(s), it[s \ {Max(s)}]>>]
  <2>1. Max(s) \in 1..n
    BY <1>1, <1>8, MaxIndex
  <2> QED BY <1>1, <1>3, <1>5, <1>8, <2>1
<1>9. PICK g \in Trace(n, V, base, F) : g[n] = it[1..n]
  <2>1. Solves(it, n, V, base, F)
    BY <1>7, <1>8 DEF Solves
  <2> QED BY <1>1, <1>2, <2>1, FoldTrace
<1>10. ASSUME NEW k \in 1..n PROVE g[k] = g[k - 1] \o SlotsOf(q[k], dur)
  <2>1. k - 1 \in 0..n
    BY <1>1
  <2> QED BY <1>3, <1>9, <2>1 DEF Trace
<1>11. g \in [0..n -> V] /\ g[0] = base
  BY <1>9 DEF Trace
<1> QED BY <1>6, <1>9, <1>10, <1>11 DEF n, V, base, CutOver

\* Every slot lies within a window and has the requested length; the slots follow
\* each other and leave no room in the windows.
LEMMA Cuts ==
  ASSUME NEW q \in Seq(Proper), Separated(q), NEW dur \in Int, dur > 0
  PROVE  /\ CutIntoSlots(q, dur) \in Seq(Interval)
         /\ \A i \in 1..Len(CutIntoSlots(q, dur)) :
              \E j \in 1..Len(q) : Within(CutIntoSlots(q, dur)[i], q[j], dur)
         /\ InSuccession(CutIntoSlots(q, dur))
         /\ \A j \in 1..Len(q) : Fills(CutIntoSlots(q, dur), q[j], dur)
<1> DEFINE n == Len(q)
<1>1. n \in Nat
  OBVIOUS
<1>2. PICK g : CutOver(g, q, dur)
  BY CutTrace
<1>3. /\ g \in [0..n -> Seq(Interval)] /\ g[0] = <<>>
      /\ \A k \in 1..n : g[k] = g[k - 1] \o SlotsOf(q[k], dur)
      /\ CutIntoSlots(q, dur) = g[n]
  BY <1>2, Zenon DEF CutOver
<1> DEFINE P(k) == /\ \A i \in 1..Len(g[k]) : \E j \in 1..k : Within(g[k][i], q[j], dur)
                   /\ InSuccession(g[k])
                   /\ \A j \in 1..k : Fills(g[k], q[j], dur)
           K == {k \in Nat : k <= n => P(k)}
<1> HIDE DEF n
<1>4. 0 \in K
  <2>1. Len(g[0]) = 0
    BY <1>3
  <2> QED BY <2>1 DEF InSuccession
<1>5. ASSUME NEW k \in Nat, k \in K PROVE k + 1 \in K
  <2> SUFFICES ASSUME k + 1 <= n PROVE P(k + 1)
    OBVIOUS
  <2>1. k <= n /\ k \in 0..n /\ k + 1 \in 1..n /\ (k + 1) - 1 = k
    BY <1>1
  <2>2. P(k)
    BY <1>5, <2>1
  <2> DEFINE old == g[k]
             add == SlotsOf(q[k + 1], dur)
             new == g[k + 1]
  <2>3. new = old \o add /\ old \in Seq(Interval)
    BY <1>3, <2>1
  <2>4. q[k + 1] \in Proper
    BY <2>1 DEF n
  <2>5. /\ add \in Seq(Interval) /\ \A i \in 1..Len(add) : Within(add[i], q[k + 1], dur)
        /\ InSuccession(add) /\ Fills(add, q[k + 1], dur)
    BY <2>4, SlotsWithin
  <2>6. /\ \A i \in 1..Len(old) : \E j \in 1..k : Within(old[i], q[j], dur)
        /\ InSuccession(old) /\ \A j \in 1..k : Fills(old, q[j], dur)
    BY <2>2
  <2> HIDE DEF P, K, old, add, new
  <2>7. /\ Len(old) \in Nat /\ Len(add) \in Nat /\ Len(new) = Len(old) + Len(add)
        /\ \A i \in 1..Len(old) : i \in 1..Len(new) /\ new[i] = old[i]
        /\ \A i \in 1..Len(add) : Len(old) + i \in 1..Len(new) /\ new[Len(old) + i] = add[i]
        /\ \A i \in 1..Len(new) : i \in 1..Len(old) \/ i - Len(old) \in 1..Len(add)
        /\ \A i \in 1..Len(new) : i - Len(old) \in 1..Len(add) => new[i] = add[i - Len(old)]
    BY <2>3, <2>5
  <2>8. ASSUME NEW i \in 1..Len(new) PROVE \E j \in 1..(k + 1) : Within(new[i], q[j], dur)
    <3>1. CASE i \in 1..Len(old)
      <4>1. PICK j \in 1..k : Within(old[i], q[j], dur)
        BY <2>6, <3>1
      <4> QED BY <2>7, <3>1, <4>1
    <3>2. CASE i - Len(old) \in 1..Len(add)
      <4>1. k + 1 \in 1..(k + 1)
        OBVIOUS
      <4> QED BY <2>5, <2>7, <3>2, <4>1
    <3> QED BY <2>7, <3>1, <3>2
  <2>9. ASSUME NEW i \in 1..Len(new), NEW j \in 1..Len(new), i < j PROVE new[i].end <= new[j].start
    <3>1. CASE j \in 1..Len(old)
      <4>1. i \in 1..Len(old)
        BY <2>7, <2>9, <3>1
      <4> QED BY <2>6, <2>7, <2>9, <3>1, <4>1 DEF InSuccession
    <3>2. CASE i - Len(old) \in 1..Len(add)
      <4>1. j - Len(old) \in 1..Len(add) /\ i - Len(old) < j - Len(old)
        BY <2>7, <2>9, <3>2
      <4> QED BY <2>5, <2>7, <3>2, <4>1 DEF InSuccession
    <3>3. CASE i \in 1..Len(old) /\ j - Len(old) \in 1..Len(add)
      <4>1. PICK h \in 1..k : Within(old[i], q[h], dur)
        BY <2>6, <3>3
      <4>2. h \in 1..n /\ h < k + 1
        BY <1>1, <2>1
      <4>3. /\ q[h].end < q[k + 1].start /\ q[h] \in Proper
        BY <2>1, <4>2 DEF Separated, n
      <4>4. new[i] = old[i] /\ new[j] = add[j - Len(old)] /\ Within(new[j], q[k + 1], dur)
        BY <2>5, <2>7, <3>3
      <4>5. new[i] \in Interval /\ new[j] \in Interval
        BY <2>3, <2>5, <3>3, <4>4
      <4>6. /\ new[i].end \in Int /\ new[j].start \in Int
            /\ q[h].end \in Int /\ q[k + 1].start \in Int
        BY <2>4, <4>3, <4>5 DEF Proper, Interval
      <4>7. new[i].end <= q[h].end /\ q[k + 1].start <= new[j].start
        BY <4>1, <4>4 DEF Within
      <4> QED BY <4>3, <4>6, <4>7
    <3> QED BY <2>7, <3>1, <3>2, <3>3
  <2>10. ASSUME NEW j \in 1..(k + 1) PROVE Fills(new, q[j], dur)
    <3> SUFFICES ASSUME NEW t \in Int, q[j].start <= t, t + dur <= q[j].end PROVE InSome(t, new)
      BY DEF Fills
    <3>1. CASE j = k + 1
      <4>1. PICK i \in 1..Len(add) : In(t, add[i])
        BY <2>5, <3>1 DEF Fills, InSome
      <4> QED BY <2>7, <4>1 DEF InSome
    <3>2. CASE j # k + 1
      <4>1. j \in 1..k
        BY <3>2
      <4>2. PICK i \in 1..Len(old) : In(t, old[i])
        BY <2>6, <4>1 DEF Fills, InSome
      <4> QED BY <2>7, <4>2 DEF InSome
    <3> QED BY <3>1, <3>2
  <2>11. InSuccession(new)
    BY <2>9 DEF InSuccession
  <2> QED BY <2>8, <2>10, <2>11 DEF P, new
<1>6. Nat \subseteq K
  <2> HIDE DEF K
  <2> QED BY <1>4, <1>5, Induction
<1>7. P(n)
  <2> HIDE DEF P
  <2>1. n \in {k \in Nat : k <= n => P(k)}
    BY <1>1, <1>6
  <2>2. n <= n => P(n)
    BY <2>1
  <2> QED BY <1>1, <2>2
<1>8. g[n] \in Seq(Interval)
  BY <1>1, <1>3
<1> QED BY <1>3, <1>7, <1>8 DEF n

\* An event with its instants or its days.
Dated(e) == /\ e.start \in Int /\ e.end \in Int
            /\ e.allDay => e.start \in CivilDays /\ e.end \in CivilDays

\* The busy intervals of finitely many events are finitely many, and cover what
\* the events do.
LEMMA BusyType ==
  ASSUME NEW E, IsFiniteSet(E), NEW a \in Options, \A e \in E : Dated(e)
  PROVE  /\ BusyFromEvents(E, a) \in SUBSET Proper /\ IsFiniteSet(BusyFromEvents(E, a))
         /\ \A t \in Int : (\E b \in BusyFromEvents(E, a) : In(t, b)) <=>
              \E e \in E : CountsAsBusy(e, a) /\ In(t, BusyInterval(e, a))
<1> DEFINE C == {x \in E : CountsAsBusy(x, a)}
           f == [e \in C |-> BusyInterval(e, a)]
           T == {f[e] : e \in C}
           B == {b \in T : b.end > b.start}
<1>1. BusyFromEvents(E, a) = B
  BY DEF BusyFromEvents
<1>2. IsFiniteSet(C)
  <2>1. C \in SUBSET E
    OBVIOUS
  <2> HIDE DEF C
  <2> QED BY <2>1, FS_Subset
<1>3. ASSUME NEW e \in C PROVE f[e] \in Interval
  <2>1. e.start \in Int /\ e.end \in Int /\ a.before \in Nat /\ a.after \in Nat
    BY DEF Dated, Options, SlotOptions
  <2>2. 0 \in 0..(DayMinutes - 1)
    BY WallClockAssumption
  <2>3. e.allDay => WallClock[e.start][0] \in Int /\ WallClock[e.end][0] \in Int
    <3>1. e.allDay => e.start \in CivilDays /\ e.end \in CivilDays
      BY DEF Dated
    <3> QED BY <2>2, <3>1, WallClockAssumption
  <2>4. f[e] = BusyInterval(e, a)
    OBVIOUS
  <2> HIDE DEF f, C
  <2> QED BY <2>1, <2>3, <2>4 DEF BusyInterval, Interval
<1>4. IsFiniteSet(T)
  <2>1. DOMAIN f = C
    OBVIOUS
  <2> HIDE DEF f, C
  <2> QED BY <1>2, <2>1, ImageFinite
<1>5. B \in SUBSET Proper
  <2>1. \A b \in T : b \in Interval /\ b.start \in Int /\ b.end \in Int
    BY <1>3 DEF Interval
  <2> HIDE DEF T
  <2> QED BY <2>1 DEF Proper
<1>6. IsFiniteSet(B)
  <2>1. B \in SUBSET T
    OBVIOUS
  <2> HIDE DEF B, T
  <2> QED BY <1>4, <2>1, FS_Subset
<1>7. ASSUME NEW t \in Int
      PROVE  (\E b \in B : In(t, b)) <=> \E e \in E : CountsAsBusy(e, a) /\ In(t, BusyInterval(e, a))
  <2>1. \A e \in C : f[e] = BusyInterval(e, a) /\ f[e] \in T
    OBVIOUS
  <2>2. ASSUME NEW e \in C, In(t, f[e]) PROVE f[e].end > f[e].start
    BY <1>3, <2>2 DEF In, Interval
  <2> HIDE DEF f
  <2> QED BY <2>1, <2>2
<1> QED BY <1>1, <1>5, <1>6, <1>7

\* The slots are of the requested length, within the range, and clear of every busy
\* interval.
LEMMA SlotsAvoidBusy ==
  ASSUME NEW a \in Options, NEW busy \in SUBSET Proper, IsFiniteSet(busy)
  PROVE  \A s \in ToSet(FindFreeSlots(busy, a)) :
           /\ s \in Interval /\ s.end = s.start + a.dur /\ a.from <= s.start /\ s.end <= a.to
           /\ \A b \in busy : ~(s.start < b.end /\ b.start < s.end)
<1> DEFINE m == MergeIntervals(busy)
           free == InvertBusy(a.from, a.to, m)
           q == ClipWorkingHours(free, a)
           cut == CutIntoSlots(q, a.dur)
           k == IF Len(cut) < a.limit THEN Len(cut) ELSE a.limit
<1>1. a.from \in Int /\ a.to \in Int /\ a.dur \in Int /\ a.dur > 0 /\ a.limit \in Nat
  BY DEF Options, SlotOptions, OptionsValid
<1>2. FindFreeSlots(busy, a) = SubSeq(cut, 1, k)
  BY DEF FindFreeSlots
<1>3. /\ m \in Seq(Proper) /\ Separated(m)
      /\ \A t \in Int : InSome(t, m) <=> \E x \in busy : In(t, x)
  BY Merges
<1> HIDE DEF m
<1>4. /\ IsFiniteSet(free) /\ free \in SUBSET Proper
      /\ \A w \in free : /\ w \in Proper /\ a.from <= w.start /\ w.end <= a.to
                        /\ \A i \in 1..Len(m) : Apart(w, m[i])
  BY <1>1, <1>3, Inverts
<1> HIDE DEF free
<1>5. /\ q \in Seq(Proper) /\ Separated(q)
      /\ \A t \in Int : InSome(t, q) => \E w \in free : In(t, w)
  BY <1>4, Clips
<1> HIDE DEF q
<1>6. /\ cut \in Seq(Interval)
      /\ \A i \in 1..Len(cut) : \E j \in 1..Len(q) : Within(cut[i], q[j], a.dur)
  BY <1>1, <1>5, Cuts
<1> HIDE DEF cut
<1> SUFFICES ASSUME NEW s \in ToSet(FindFreeSlots(busy, a))
             PROVE  /\ s \in Interval /\ s.end = s.start + a.dur
                    /\ a.from <= s.start /\ s.end <= a.to
                    /\ \A b \in busy : ~(s.start < b.end /\ b.start < s.end)
  OBVIOUS
<1>7. PICK i \in 1..Len(cut) : s = cut[i]
  <2>1. k \in Nat /\ k <= Len(cut) /\ Len(cut) \in Nat
    BY <1>1, <1>6
  <2> HIDE DEF k
  <2>2. SubSeq(cut, 1, k) = [i \in 1..k |-> cut[i]]
    BY <1>6, <2>1
  <2>3. PICK i \in 1..k : s = cut[i]
    BY <1>2, <2>2 DEF ToSet
  <2>4. i \in 1..Len(cut)
    BY <2>1
  <2> QED BY <2>3, <2>4
<1>8. PICK j \in 1..Len(q) : Within(s, q[j], a.dur)
  BY <1>6, <1>7
<1>9. /\ s \in Interval /\ s.start \in Int /\ s.end \in Int /\ s.start < s.end
      /\ s.end = s.start + a.dur
  <2>1. s \in Interval
    BY <1>6, <1>7
  <2>2. s.start \in Int /\ s.end \in Int
    BY <2>1 DEF Interval
  <2>3. s.end = s.start + a.dur
    BY <1>8 DEF Within
  <2> QED BY <1>1, <2>1, <2>2, <2>3
<1>10. ASSUME NEW t \in Int, In(t, s)
       PROVE  /\ a.from <= t /\ t < a.to
              /\ \A b \in busy : ~In(t, b)
  <2>1. q[j] \in Proper /\ q[j].start \in Int /\ q[j].end \in Int
    BY <1>5 DEF Proper, Interval
  <2>2. In(t, q[j])
    BY <1>8, <1>9, <1>10, <2>1 DEF In, Within
  <2>3. InSome(t, q)
    BY <2>2 DEF InSome
  <2>4. PICK w \in free : In(t, w)
    BY <1>5, <2>3
  <2>5. w.start \in Int /\ w.end \in Int
    BY <1>4 DEF Proper, Interval
  <2>6. a.from <= t /\ t < a.to
    BY <1>1, <1>4, <2>4, <2>5 DEF In
  <2>7. ~InSome(t, m)
    <3> SUFFICES ASSUME NEW n \in 1..Len(m), In(t, m[n]) PROVE FALSE
      BY DEF InSome
    <3>1. m[n].start \in Int /\ m[n].end \in Int
      BY <1>3 DEF Proper, Interval
    <3>2. Apart(w, m[n])
      BY <1>4
    <3> QED BY <2>4, <2>5, <3>1, <3>2 DEF In, Apart
  <2> QED BY <1>3, <2>6, <2>7
<1>11. In(s.start, s) /\ In(s.end - 1, s) /\ s.end - 1 \in Int
  BY <1>9 DEF In
<1>12. a.from <= s.start /\ s.end <= a.to
  BY <1>1, <1>9, <1>10, <1>11
<1>13. ASSUME NEW b \in busy, s.start < b.end, b.start < s.end PROVE FALSE
  <2>1. b.start \in Int /\ b.end \in Int /\ b.start < b.end
    BY DEF Proper, Interval
  <2>2. CASE b.start <= s.start
    <3>1. In(s.start, b)
      BY <1>13, <2>1, <2>2 DEF In
    <3> QED BY <1>9, <1>10, <1>11, <3>1
  <2>3. CASE b.start > s.start
    <3>1. In(b.start, b) /\ In(b.start, s)
      BY <1>9, <1>13, <2>1, <2>3 DEF In
    <3> QED BY <1>10, <2>1, <3>1
  <2> QED BY <1>9, <2>1, <2>2, <2>3
<1> QED BY <1>9, <1>12, <1>13

-----------------------------------------------------------------------------
(* The slots against the definition of what is available. *)

\* The midnights of the days are in the order of the days.
LEMMA DaysInOrder ==
  ASSUME MidnightsInOrder, NEW x \in CivilDays, NEW y \in CivilDays, x <= y
  PROVE  WallClock[x][0] <= WallClock[y][0]
<1>1. PICK first \in CivilDays, last \in CivilDays : CivilDays = first..last
  BY WallClockAssumption
<1>2. first \in Int /\ last \in Int /\ x \in Int /\ y \in Int /\ 0 \in 0..(DayMinutes - 1)
  BY WallClockAssumption
<1>3. \A d \in CivilDays : WallClock[d][0] \in Int
  BY <1>2, WallClockAssumption
<1> DEFINE S == {n \in Nat : x + n \in CivilDays => WallClock[x][0] <= WallClock[x + n][0]}
<1>4. 0 \in S
  BY <1>2, <1>3
<1>5. ASSUME NEW n \in Nat, n \in S PROVE n + 1 \in S
  <2> SUFFICES ASSUME x + (n + 1) \in CivilDays PROVE WallClock[x][0] <= WallClock[x + (n + 1)][0]
    OBVIOUS
  <2>1. x + n \in CivilDays /\ (x + n) + 1 = x + (n + 1)
    BY <1>1, <1>2
  <2>2. WallClock[x + n][0] <= WallClock[x + (n + 1)][0]
    BY <1>2, <2>1 DEF MidnightsInOrder
  <2> QED BY <1>3, <1>5, <2>1, <2>2
<1>6. Nat \subseteq S
  <2> HIDE DEF S
  <2> QED BY <1>4, <1>5, Induction
<1>7. y - x \in S /\ x + (y - x) = y
  BY <1>2, <1>6
<1> QED BY <1>7

\* time.In: an instant that is not before all days is on one of them.
LEMMA LastDay ==
  ASSUME NEW t \in Int, NEW d \in CivilDays, WallClock[d][0] <= t
  PROVE  \E z \in CivilDays : /\ WallClock[z][0] <= t
                              /\ \A y \in CivilDays : WallClock[y][0] <= t => y <= z
<1>1. PICK first \in CivilDays, last \in CivilDays : CivilDays = first..last
  BY WallClockAssumption
<1>2. first \in Int /\ last \in Int /\ CivilDays \subseteq Int
  BY WallClockAssumption
<1> DEFINE T == {last - x : x \in {y \in CivilDays : WallClock[y][0] <= t}}
<1>3. T \subseteq Nat /\ T # {}
  BY <1>1, <1>2
<1>4. PICK m \in T : \A n \in T : m <= n
  BY <1>3, LeastElement
<1>5. PICK x \in CivilDays : WallClock[x][0] <= t /\ m = last - x
  BY <1>4
<1>6. ASSUME NEW y \in CivilDays, WallClock[y][0] <= t PROVE y <= x
  <2>1. last - y \in T
    BY <1>6
  <2>2. last - x <= last - y
    BY <1>4, <1>5, <2>1
  <2> QED BY <1>2, <2>2
<1> QED BY <1>5, <1>6

LEMMA DayOfInstant ==
  ASSUME NEW t \in Int, NEW d \in CivilDays, WallClock[d][0] <= t
  PROVE  DayOf(t) \in CivilDays /\ WallClock[DayOf(t)][0] <= t
BY LastDay DEF DayOf

\* The segment of a day begins on that day and ends on it, an overnight one on the
\* next.
LEMMA SegmentBounds ==
  ASSUME MidnightsInOrder, NEW a \in Options, NEW d \in CivilDays, d + 2 \in CivilDays
  PROVE  /\ d + 1 \in CivilDays
         /\ WallClock[d][0] <= Segment(d, a).start
         /\ Segment(d, a).end <= WallClock[IF Overnight(a) THEN d + 2 ELSE d + 1][0]
<1>1. /\ a.hourStart \in 0..DayMinutes /\ a.hourEnd \in 0..DayMinutes /\ DayMinutes \in Nat \ {0}
      /\ 0 \in 0..(DayMinutes - 1)
  BY WallClockAssumption DEF Options, SlotOptions, OptionsValid
<1>2. d \in Int /\ d + 1 \in CivilDays /\ (d + 1) + 1 = d + 2
  <2>1. PICK first \in CivilDays, last \in CivilDays : CivilDays = first..last
    BY WallClockAssumption
  <2>2. first \in Int /\ last \in Int /\ d \in first..last /\ d + 2 \in first..last
    BY <2>1, WallClockAssumption
  <2>3. d + 1 \in first..last
    BY <2>2
  <2> QED BY <2>1, <2>2, <2>3
<1>3. \A x \in CivilDays : WallClock[x][0] \in Int
  BY <1>1, WallClockAssumption
<1>4. ASSUME NEW x \in {d, d + 1}, NEW m \in 0..DayMinutes
      PROVE  WallClock[x][0] <= LocalTimeOnDay(x, m) /\ LocalTimeOnDay(x, m) <= WallClock[x + 1][0]
  <2>1. x \in CivilDays /\ x + 1 \in CivilDays
    BY <1>2
  <2>2. CASE m >= DayMinutes
    <3>1. LocalTimeOnDay(x, m) = WallClock[x + 1][0]
      BY <2>2 DEF LocalTimeOnDay
    <3>2. WallClock[x][0] <= WallClock[x + 1][0]
      BY <1>1, <2>1 DEF MidnightsInOrder
    <3> QED BY <1>3, <2>1, <3>1, <3>2
  <2>3. CASE ~(m >= DayMinutes)
    <3>1. m \in 0..(DayMinutes - 1) /\ LocalTimeOnDay(x, m) = WallClock[x][m]
      BY <1>1, <2>3 DEF LocalTimeOnDay
    <3> QED BY <2>1, <3>1 DEF MidnightsInOrder
  <2> QED BY <2>2, <2>3
<1>5. CASE ~UsesHours(a)
  <2>1. ~Overnight(a) /\ Segment(d, a) = [start |-> WallClock[d][0], end |-> WallClock[d + 1][0]]
    BY <1>5 DEF Segment, Overnight
  <2> QED BY <1>2, <1>3, <2>1
<1>6. CASE UsesHours(a)
  <2> DEFINE e == IF Overnight(a) THEN d + 1 ELSE d
  <2>1. Segment(d, a).start = LocalTimeOnDay(d, a.hourStart) /\ Segment(d, a).end = LocalTimeOnDay(e, a.hourEnd)
    BY <1>6 DEF Segment
  <2>2. e \in {d, d + 1} /\ e + 1 = IF Overnight(a) THEN d + 2 ELSE d + 1
    BY <1>2
  <2> HIDE DEF e
  <2>3. LocalTimeOnDay(e, a.hourEnd) <= WallClock[e + 1][0]
    BY <1>1, <1>4, <2>2
  <2>4. WallClock[d][0] <= LocalTimeOnDay(d, a.hourStart)
    BY <1>1, <1>4
  <2> QED BY <1>2, <2>1, <2>2, <2>3, <2>4
<1> QED BY <1>2, <1>5, <1>6

\* The windows that findFreeSlots cuts into slots cover exactly the available
\* instants.
LEMMA WindowsAreExact ==
  ASSUME MidnightsInOrder, NEW a \in Options, \E d \in CivilDays : WallClock[d][0] <= a.from,
         NEW E, IsFiniteSet(E), \A e \in E : Dated(e), NEW q,
         q = ClipWorkingHours(InvertBusy(a.from, a.to, MergeIntervals(BusyFromEvents(E, a))), a)
  PROVE  /\ q \in Seq(Proper) /\ Separated(q)
         /\ \A t \in Int : InSome(t, q) <=> Available(t, E, a)
<1> DEFINE busy == BusyFromEvents(E, a)
           m == MergeIntervals(busy)
           free == InvertBusy(a.from, a.to, m)
<1>1. a.from \in Int /\ a.to \in Int /\ a.before \in Nat /\ a.after \in Nat
  BY DEF Options, SlotOptions
<1>2. /\ busy \in SUBSET Proper /\ IsFiniteSet(busy)
      /\ \A t \in Int : (\E b \in busy : In(t, b)) <=>
           \E e \in E : CountsAsBusy(e, a) /\ In(t, BusyInterval(e, a))
  BY BusyType
<1>3. q = ClipWorkingHours(free, a)
  OBVIOUS
<1> HIDE DEF busy
<1>4. /\ m \in Seq(Proper) /\ Separated(m)
      /\ \A t \in Int : InSome(t, m) <=> \E x \in busy : In(t, x)
  BY <1>2, Merges
<1> HIDE DEF m
<1>5. /\ IsFiniteSet(free) /\ free \in SUBSET Proper
      /\ \A w \in free : /\ w \in Proper /\ a.from <= w.start /\ w.end <= a.to
                        /\ \A i \in 1..Len(m) : Apart(w, m[i])
      /\ \A t \in a.from..(a.to - 1) : InSome(t, m) \/ \E w \in free : In(t, w)
  BY <1>1, <1>4, Inverts
<1> HIDE DEF free
<1>6. /\ q \in Seq(Proper) /\ Separated(q)
      /\ \A t \in Int : InSome(t, q) <=>
           \E w \in free : \E d \in DaysWalked(w, a) : In(t, w) /\ In(t, Segment(d, a))
  BY <1>3, <1>5, Clips
<1>7. \A w \in free : w.start \in Int /\ w.end \in Int
  BY <1>5 DEF Proper, Interval
<1>8. \A x \in CivilDays : WallClock[x][0] \in Int
  <2>1. 0 \in 0..(DayMinutes - 1)
    BY WallClockAssumption
  <2> QED BY <2>1, WallClockAssumption
<1>9. ASSUME NEW t \in Int
      PROVE  InSome(t, m) <=> \E e \in E : /\ CountsAsBusy(e, a)
                                           /\ LET start == IF e.allDay THEN WallClock[e.start][0] ELSE e.start
                                                  end   == IF e.allDay THEN WallClock[e.end][0] ELSE e.end
                                              IN  start - a.before <= t /\ t < end + a.after
  BY <1>2, <1>4 DEF In, BusyInterval
<1>10. ASSUME NEW t \in Int, InSome(t, q) PROVE Available(t, E, a)
  <2>1. PICK w \in free : \E d \in DaysWalked(w, a) : In(t, w) /\ In(t, Segment(d, a))
    BY <1>6, <1>10
  <2>2. PICK d \in DaysWalked(w, a) : In(t, w) /\ In(t, Segment(d, a))
    BY <2>1
  <2>3. /\ d \in CivilDays /\ WallClock[d][0] <= w.end /\ w.end <= a.to
        /\ a.days # {} => d \in a.days
    BY <1>5 DEF DaysWalked
  <2>4. d + 2 \in CivilDays
    BY <1>1, <1>7, <1>8, <2>3 DEF Options
  <2>5. a.from <= t /\ t < a.to
    BY <1>1, <1>5, <1>7, <2>2 DEF In
  <2>6. ~InSome(t, m)
    <3> SUFFICES ASSUME NEW n \in 1..Len(m), In(t, m[n]) PROVE FALSE
      BY DEF InSome
    <3>1. m[n].start \in Int /\ m[n].end \in Int
      BY <1>4 DEF Proper, Interval
    <3>2. Apart(w, m[n])
      BY <1>5
    <3> QED BY <1>7, <2>2, <3>1, <3>2 DEF In, Apart
  <2> QED BY <1>9, <2>2, <2>3, <2>4, <2>5, <2>6 DEF Available, In
<1>11. ASSUME NEW t \in Int, Available(t, E, a) PROVE InSome(t, q)
  <2>1. t \in a.from..(a.to - 1) /\ ~InSome(t, m)
    BY <1>1, <1>9, <1>11 DEF Available
  <2>2. PICK d \in CivilDays : /\ d + 2 \in CivilDays /\ (a.days # {} => d \in a.days)
                               /\ In(t, Segment(d, a))
    BY <1>11 DEF Available, In
  <2>3. PICK w \in free : In(t, w)
    BY <1>5, <2>1
  <2> DEFINE D == DayOf(w.start)
             e == IF Overnight(a) THEN d + 2 ELSE d + 1
  <2>4. D \in CivilDays /\ WallClock[D][0] <= w.start
    <3>1. PICK x \in CivilDays : WallClock[x][0] <= a.from
      OBVIOUS
    <3>2. WallClock[x][0] <= w.start
      BY <1>1, <1>5, <1>7, <1>8, <3>1
    <3> QED BY <1>7, <3>2, DayOfInstant
  <2>5. /\ d + 1 \in CivilDays /\ WallClock[d][0] <= Segment(d, a).start
        /\ Segment(d, a).end <= WallClock[e][0]
    BY <2>2, SegmentBounds
  <2>6. Segment(d, a).start \in Int /\ Segment(d, a).end \in Int
    BY <2>2, SegmentType DEF Interval
  <2>7. WallClock[d][0] <= w.end
    BY <1>7, <1>8, <2>2, <2>3, <2>5, <2>6 DEF In
  <2>8. d \in Int /\ D \in Int /\ e \in CivilDays /\ e \in Int
    BY <2>2, <2>4, <2>5, WallClockAssumption
  <2> HIDE DEF D
  <2>9. ~(e <= D)
    <3> SUFFICES ASSUME e <= D PROVE FALSE
      OBVIOUS
    <3> HIDE DEF e
    <3>1. WallClock[e][0] <= WallClock[D][0]
      BY <2>4, <2>8, DaysInOrder
    <3> QED BY <1>7, <1>8, <2>2, <2>3, <2>4, <2>5, <2>6, <2>8, <3>1 DEF In
  <2>10. d >= D - (IF Overnight(a) THEN 1 ELSE 0)
    BY <2>8, <2>9
  <2>11. d \in DaysWalked(w, a)
    BY <2>2, <2>7, <2>10 DEF DaysWalked, D
  <2> QED BY <1>6, <2>2, <2>3, <2>11
<1> QED BY <1>6, <1>10, <1>11

\* findFreeSlots offers what is available, and all of it up to its limit.
LEMMA SlotsAreExact ==
  ASSUME MidnightsInOrder, NEW a \in Options, \E d \in CivilDays : WallClock[d][0] <= a.from,
         NEW E, IsFiniteSet(E), \A e \in E : Dated(e)
  PROVE  SlotsAreRight(FindFreeSlots(BusyFromEvents(E, a), a), E, a)
<1> DEFINE q == ClipWorkingHours(InvertBusy(a.from, a.to, MergeIntervals(BusyFromEvents(E, a))), a)
           cut == CutIntoSlots(q, a.dur)
           k == IF Len(cut) < a.limit THEN Len(cut) ELSE a.limit
           slotsOut == SubSeq(cut, 1, k)
<1>1. a.from \in Int /\ a.to \in Int /\ a.dur \in Int /\ a.dur > 0 /\ a.limit \in Nat
  BY DEF Options, SlotOptions, OptionsValid
<1>2. FindFreeSlots(BusyFromEvents(E, a), a) = slotsOut
  BY DEF FindFreeSlots
<1>3. /\ q \in Seq(Proper) /\ Separated(q)
      /\ \A t \in Int : InSome(t, q) <=> Available(t, E, a)
  BY WindowsAreExact
<1> HIDE DEF q
<1>4. /\ cut \in Seq(Interval)
      /\ \A i \in 1..Len(cut) : \E j \in 1..Len(q) : Within(cut[i], q[j], a.dur)
      /\ InSuccession(cut)
      /\ \A j \in 1..Len(q) : Fills(cut, q[j], a.dur)
  BY <1>1, <1>3, Cuts
<1> HIDE DEF cut
<1>5. k \in Nat /\ k <= Len(cut) /\ k <= a.limit /\ Len(cut) \in Nat /\ (k < a.limit => k = Len(cut))
  BY <1>1, <1>4
<1> HIDE DEF k
<1>6. /\ slotsOut = [i \in 1..k |-> cut[i]] /\ Len(slotsOut) = k /\ DOMAIN slotsOut = 1..k
      /\ \A i \in 1..k : i \in 1..Len(cut) /\ slotsOut[i] = cut[i]
  BY <1>4, <1>5
<1> HIDE DEF slotsOut
<1>7. \A j \in 1..Len(q) : q[j] \in Proper /\ q[j].start \in Int /\ q[j].end \in Int
  BY <1>3 DEF Proper, Interval
<1>7a. ASSUME NEW i \in 1..Len(cut) PROVE cut[i].start \in Int /\ cut[i].end \in Int
  <2>1. cut[i] \in Interval
    BY <1>4
  <2> QED BY <2>1 DEF Interval
<1>8. ASSUME NEW i \in 1..k
      PROVE  /\ cut[i].end - cut[i].start = a.dur
             /\ \A t \in cut[i].start..(cut[i].end - 1) : Available(t, E, a)
             /\ \A j \in 1..k : j < i => cut[j].end <= cut[i].start
  <2>1. PICK j \in 1..Len(q) : Within(cut[i], q[j], a.dur)
    BY <1>4, <1>6
  <2>2. cut[i].start \in Int /\ cut[i].end \in Int
    BY <1>6, <1>7a
  <2>3. ASSUME NEW t \in cut[i].start..(cut[i].end - 1) PROVE Available(t, E, a)
    <3>1. In(t, q[j]) /\ t \in Int
      BY <1>7, <2>1, <2>2 DEF In, Within
    <3> QED BY <1>3, <3>1 DEF InSome
  <2>4. cut[i].end - cut[i].start = a.dur
    BY <1>1, <2>1, <2>2 DEF Within
  <2> QED BY <1>4, <1>6, <2>3, <2>4 DEF InSuccession
<1>9. ASSUME k < a.limit, NEW t \in a.from..(a.to - a.dur),
             \A x \in t..(t + a.dur - 1) : Available(x, E, a)
      PROVE  \E i \in 1..k : cut[i].start < t + a.dur /\ t < cut[i].end
  <2>1. t \in Int /\ \A x \in t..(t + a.dur - 1) : x \in Int /\ InSome(x, q)
    BY <1>1, <1>3, <1>9
  <2>2. t \in t..(t + a.dur - 1)
    BY <1>1, <2>1
  <2>3. PICK j \in 1..Len(q) : In(t, q[j])
    BY <2>1, <2>2 DEF InSome
  <2>4. t + a.dur <= q[j].end
    <3> SUFFICES ASSUME q[j].end < t + a.dur PROVE FALSE
      BY <1>1, <1>7, <2>1
    <3>1. q[j].end \in t..(t + a.dur - 1)
      BY <1>1, <1>7, <2>1, <2>3 DEF In
    <3>2. PICK h \in 1..Len(q) : In(q[j].end, q[h])
      BY <2>1, <3>1 DEF InSome
    <3>3. h < j => q[h].end < q[j].start
      BY <1>3 DEF Separated
    <3>4. j < h => q[j].end < q[h].start
      BY <1>3 DEF Separated
    <3>5. h = j \/ h < j \/ j < h
      BY <1>3
    <3>6. q[j].start < q[j].end
      BY <1>7 DEF Proper
    <3> QED BY <1>7, <3>2, <3>3, <3>4, <3>5, <3>6 DEF In
  <2>5. PICK i \in 1..Len(cut) : In(t, cut[i])
    BY <1>4, <2>1, <2>3, <2>4 DEF Fills, InSome, In
  <2>6. cut[i].start \in Int /\ cut[i].end \in Int
    BY <1>7a
  <2>7. i \in 1..k /\ cut[i].start < t + a.dur /\ t < cut[i].end
    BY <1>1, <1>5, <1>9, <2>1, <2>5, <2>6 DEF In
  <2> QED BY <2>7
<1>10. SlotsAreRight(slotsOut, E, a)
  BY <1>5, <1>6, <1>8, <1>9 DEF SlotsAreRight
<1> QED BY <1>2, <1>10

-----------------------------------------------------------------------------
(* The selection of calendars, and the events of a read. *)

Calendars == ToSet(CalendarList)

\* A selection is a sequence of calendars.
LEMMA SelectionType ==
  ASSUME NEW t
  PROVE  DefaultSelection(t) \in Seq(Calendars)
<1> DEFINE q == CalendarList
           n == Len(q)
           V == Seq(Calendars)
           base == <<>>
           F == [p \in (1..n) \X V |-> KeepAllowed(p[2], q[p[1]])]
           Q(x) == x = [s \in SUBSET (DOMAIN q) |->
                          IF s = {} THEN base ELSE KeepAllowed(x[s \ {Max(s)}], q[Max(s)])]
           it == CHOOSE x : Q(x)
<1>0. q \in Seq(Calendars)
  BY ReadsAssumption DEF Calendars
<1> HIDE DEF q
<1>1. n \in Nat /\ DOMAIN q = 1..n /\ base \in V
  BY <1>0
<1>2. F \in Steps(n, V)
  <2>1. ASSUME NEW p \in (1..n) \X V PROVE KeepAllowed(p[2], q[p[1]]) \in V
    <3>1. p[2] \in V /\ p[1] \in 1..n /\ q[p[1]] \in Calendars
      BY <1>0
    <3> QED BY <3>1 DEF KeepAllowed
  <2> QED BY <2>1 DEF Steps
<1>3. \A k \in 1..n, v \in V : F[<<k, v>>] = KeepAllowed(v, q[k])
  OBVIOUS
<1> HIDE DEF V, F, n, base
<1>4. \E x : Q(x)
  <2>1. PICK x \in [SUBSET (1..n) -> V] : Solves(x, n, V, base, F)
    BY <1>1, <1>2, FoldExists
  <2>2. ASSUME NEW s \in SUBSET (1..n)
        PROVE  x[s] = IF s = {} THEN base ELSE KeepAllowed(x[s \ {Max(s)}], q[Max(s)])
    <3>1. CASE s = {}
      BY <2>1, <3>1 DEF Solves
    <3>2. CASE s # {}
      <4>1. Max(s) \in 1..n
        BY <1>1, <3>2, MaxIndex
      <4>2. s \ {Max(s)} \in SUBSET (1..n)
        OBVIOUS
      <4> QED BY <1>3, <2>1, <3>2, <4>1, <4>2 DEF Solves
    <3> QED BY <3>1, <3>2
  <2> QED BY <1>1, <2>2
<1>5. Q(it)
  BY <1>4
<1>6. FoldLeft(KeepAllowed, <<>>, q) = it[1..n]
  BY <1>1 DEF FoldLeft, base, MapThenFoldSet
<1> HIDE DEF it
<1>7. it[{}] = base
  BY <1>1, <1>5
<1>8. ASSUME NEW s \in SUBSET (1..n), s # {}, it[s \ {Max(s)}] \in V
      PROVE  it[s] = F[<<Max(s), it[s \ {Max(s)}]>>]
  <2>1. Max(s) \in 1..n
    BY <1>1, <1>8, MaxIndex
  <2> QED BY <1>1, <1>3, <1>5, <1>8, <2>1
<1>9. PICK g \in Trace(n, V, base, F) : g[n] = it[1..n]
  <2>1. Solves(it, n, V, base, F)
    BY <1>7, <1>8 DEF Solves
  <2> QED BY <1>1, <1>2, <2>1, FoldTrace
<1>10. g[n] \in V
  BY <1>1, <1>9 DEF Trace
<1> QED BY <1>0, <1>6, <1>9, <1>10 DEF DefaultSelection, V, q

\* The sort of search_events.
LEMMA RowsSort ==
  ASSUME NEW S \in SUBSET Event, IsFiniteSet(S),
         \A e, f \in S : e # f => e.uid # f.uid \/ UtcSpan(e).start # UtcSpan(f).start
  PROVE  Lists(InOrder(S, RowBefore), S)
<1> DEFINE R == {p \in S \X S : RowBefore(p[1], p[2])}
           q == InOrder(S, RowBefore)
           n == Cardinality(S)
<1>1. \A x, y \in S : <<x, y>> \in R <=> RowBefore(x, y)
  OBVIOUS
<1>2. StrictTotal(R, S)
  <2>1. ASSUME NEW x \in S PROVE x.uid \in Int /\ UtcSpan(x).start \in Int
    <3>1. x.uid \in Int /\ x.start \in Int /\ DayMinutes \in Int
      BY WallClockAssumption DEF Event
    <3>2. x.start * DayMinutes \in Int
      BY <3>1
    <3> QED BY <3>1, <3>2 DEF UtcSpan
  <2> HIDE DEF R
  <2> QED BY <1>1, <2>1 DEF StrictTotal, RowBefore
<1> HIDE DEF R
<1>3. \A x \in S : {y \in S : RowBefore(y, x)} = Below(x, S, R)
  BY <1>1 DEF Below
<1>4. /\ n \in Nat
      /\ \A x \in S : Cardinality(Below(x, S, R)) \in 0..(n - 1)
      /\ \A x, y \in S : <<x, y>> \in R <=>
           Cardinality(Below(x, S, R)) < Cardinality(Below(y, S, R))
      /\ \A k \in 1..n : \E x \in S : Cardinality(Below(x, S, R)) = k - 1
  BY <1>2, Ranks
<1>5. q = [k \in 1..n |-> CHOOSE x \in S : Cardinality({y \in S : RowBefore(y, x)}) = k - 1]
  BY DEF InOrder
<1>6. ASSUME NEW k \in 1..n PROVE q[k] \in S /\ Cardinality(Below(q[k], S, R)) = k - 1
  <2>1. \E x \in S : Cardinality({y \in S : RowBefore(y, x)}) = k - 1
    BY <1>3, <1>4
  <2>2. q[k] = CHOOSE x \in S : Cardinality({y \in S : RowBefore(y, x)}) = k - 1
    BY <1>5
  <2>3. q[k] \in S /\ Cardinality({y \in S : RowBefore(y, q[k])}) = k - 1
    BY <2>1, <2>2
  <2> QED BY <1>3, <2>3
<1>7. q \in Seq(S) /\ Len(q) = n
  <2>1. q = [k \in 1..n |-> q[k]]
    BY <1>5
  <2> HIDE DEF q
  <2>2. q \in [1..n -> S]
    BY <1>6, <2>1
  <2> QED BY <1>4, <2>2, FunctionIsSeq
<1> HIDE DEF q
<1>8. ASSUME NEW x \in S PROVE \E i \in 1..n : q[i] = x
  <2> DEFINE i == Cardinality(Below(x, S, R)) + 1
  <2>1. i \in 1..n /\ Cardinality(Below(x, S, R)) = i - 1
    BY <1>4
  <2>2. q[i] \in S /\ Cardinality(Below(q[i], S, R)) = Cardinality(Below(x, S, R))
    BY <1>6, <2>1
  <2>3. <<q[i], x>> \notin R /\ <<x, q[i]>> \notin R
    BY <1>4, <2>1, <2>2
  <2>4. q[i] = x
    BY <1>2, <2>2, <2>3 DEF StrictTotal
  <2> HIDE DEF i
  <2> QED BY <2>1, <2>4
<1> QED BY <1>7, <1>8 DEF Lists, q

\* A row of a part of a sequence is a row of the sequence.
LEMMA RowsType ==
  ASSUME NEW S, NEW q \in Seq(S), NEW from \in Nat \ {0}, NEW to \in Nat
  PROVE  /\ Rows(q, from, to) \in Seq(S)
         /\ from = 1 /\ Len(q) <= to => Rows(q, from, to) = q
<1> DEFINE m == IF to < Len(q) THEN to ELSE Len(q)
<1>1. m \in Nat /\ m <= Len(q) /\ Len(q) \in Nat
  OBVIOUS
<1>2. Rows(q, from, to) = SubSeq(q, from, m)
  BY DEF Rows
<1>3. SubSeq(q, from, m) \in Seq(S)
  BY <1>1
<1>4. ASSUME from = 1, Len(q) <= to PROVE SubSeq(q, from, m) = q
  <2>1. m = Len(q)
    BY <1>1, <1>4
  <2> QED BY <1>4, <2>1
<1> QED BY <1>2, <1>3, <1>4

-----------------------------------------------------------------------------
(* The inductive invariant. *)

Tools == {"search", "slots"}
ArgsOf(t) == IF t = "search" THEN SearchArgs ELSE SlotArgs

Call == [pc : {"new", "listing", "reading", "done"}, tool : Tools \cup {"none"},
         args : {<<>>} \cup SearchArgs \cup SlotArgs, explicit : BOOLEAN,
         sel : Seq(Calendars), next : Nat]
Worker == [pc : {"idle", "limit", "acquire", "attempt"}, index : Nat, tries : Nat]
Codes == FatalCodes \cup {"none", "timeout", "rate_limited", "unavailable", "internal_error"}
Result == [error : Codes, events : SUBSET Event, truncated : BOOLEAN, skipped : SUBSET Event]

Shape ==
  /\ world \in Worlds
  /\ call \in [Calls -> Call]
  /\ worker \in [Calls -> [1..Workers -> Worker]]
  /\ results \in [Calls -> Seq(Result)]
  /\ DOMAIN reply = Calls
  /\ slots \in 0..ReadSlots /\ others \in Nat

Attempts == {p \in Calls \X (1..Workers) : worker[p[1]][p[2]].pc = "attempt"}

\* A read slot for each running attempt.
SlotInv == IsFiniteSet(Attempts) /\ slots = others + Cardinality(Attempts)

\* What a call has at each of its steps.
PhaseInv(c) ==
  /\ Len(results[c]) = Len(call[c].sel)
  /\ call[c].pc \in {"listing", "reading"} => call[c].tool \in Tools /\ call[c].args \in ArgsOf(call[c].tool)
  /\ call[c].pc \in {"new", "listing"} => call[c].sel = <<>>
  /\ call[c].pc = "reading" => call[c].next \in 1..(Len(call[c].sel) + 1)

\* A worker is busy with the list, or with an index that was handed out.
BusyInv(c) ==
  \A w \in 1..Workers : Busy(c, w) =>
    \/ call[c].pc = "listing" /\ w = 1 /\ worker[c][w].index = Listing
    \/ call[c].pc = "reading" /\ worker[c][w].index \in 1..(call[c].next - 1)

\* r may be the result of the i-th read: its events are in the calendar, and it has
\* all that were sent with their data unless it says otherwise.
ReadResult(c, i, r) ==
  /\ r.events \subseteq EventsOf(call[c].sel[i], QueryRange(c)) \ r.skipped
  /\ r.error = "none" /\ ~r.truncated =>
       r.events = EventsOf(call[c].sel[i], QueryRange(c)) \ r.skipped

\* An index that was handed out is being read, or has its result.
ResultInv(c) ==
  call[c].pc = "reading" =>
    \A i \in 1..Len(call[c].sel) :
      /\ results[c][i].events \subseteq EventsOf(call[c].sel[i], QueryRange(c))
      /\ \/ i >= call[c].next
         \/ \E w \in 1..Workers : Busy(c, w) /\ worker[c][w].index = i
         \/ ReadResult(c, i, results[c][i])

\* What the properties say of one answer.
BusyFor(e, a) ==
  /\ e.opaque
  /\ e.allDay => a.allDayBusy /\ Overlaps(e, [from |-> a.from - a.after, to |-> a.to + a.before])
  /\ CivilSpan(e).start - a.before < CivilSpan(e).end + a.after

FreeOf(k, read, offered) ==
  \A s \in ToSet(offered), i \in DOMAIN k.sel :
    \A e \in world[k.sel[i]] \ read[i].skipped :
      BusyFor(e, k.args) => ~Touches(s, CivilSpan(e), k.args)

HonestOf(k, read, r) ==
  LET a   == k.args
      range == [from |-> a.from, to |-> a.to]
      sent  == UNION {EventsOf(k.sel[i], range) \ read[i].skipped : i \in DOMAIN k.sel}
      all == {e \in sent : e.match}
      complete == ~r.partial /\ ~r.expansion
  IN  /\ ToSet(r.rows) \subseteq all
      /\ complete => r.total = Cardinality(all)
      /\ complete /\ ~r.truncated =>
           r.rows = Rows(InOrder(all, RowBefore), a.offset + 1, a.offset + a.limit)

ReplyInv(c) ==
  /\ AnswerKind(c, "slots") => FreeOf(call[c], results[c], reply[c].slots)
  /\ AnswerKind(c, "events") => HonestOf(call[c], results[c], reply[c])

CallInv(c) == PhaseInv(c) /\ BusyInv(c) /\ ResultInv(c) /\ ReplyInv(c)

IndInv == Shape /\ SlotInv /\ \A c \in Calls : CallInv(c)

-----------------------------------------------------------------------------
(* The answers. *)

\* When all reads are done, every result is final.
LEMMA AllFinal ==
  ASSUME IndInv, NEW c \in Calls, AllRead(c)
  PROVE  /\ Len(results[c]) = Len(call[c].sel) /\ Len(call[c].sel) \in Nat
         /\ call[c].tool \in Tools /\ call[c].args \in ArgsOf(call[c].tool)
         /\ \A i \in 1..Len(call[c].sel) : /\ results[c][i] \in Result
                                          /\ call[c].sel[i] \in Calendars
                                          /\ ReadResult(c, i, results[c][i])
<1>1. call[c] \in Call /\ results[c] \in Seq(Result) /\ CallInv(c) /\ call[c].pc = "reading"
  BY DEF IndInv, Shape, AllRead
<1>2. call[c].sel \in Seq(Calendars) /\ call[c].next \in Nat
  BY <1>1 DEF Call
<1>3. /\ Len(results[c]) = Len(call[c].sel) /\ Len(call[c].sel) \in Nat
      /\ call[c].tool \in Tools /\ call[c].args \in ArgsOf(call[c].tool)
  BY <1>1, <1>2 DEF CallInv, PhaseInv
<1>4. ASSUME NEW i \in 1..Len(call[c].sel)
      PROVE  /\ results[c][i] \in Result /\ call[c].sel[i] \in Calendars
             /\ ReadResult(c, i, results[c][i])
  <2>1. ~(i >= call[c].next)
    BY <1>2, <1>3 DEF AllRead
  <2>2. ~\E w \in 1..Workers : Busy(c, w) /\ worker[c][w].index = i
    BY DEF AllRead
  <2>3. ReadResult(c, i, results[c][i])
    BY <1>1, <2>1, <2>2 DEF CallInv, ResultInv
  <2> QED BY <1>1, <1>2, <1>3, <2>3
<1> QED BY <1>3, <1>4

\* The events of a read are finitely many events of the world.
LEMMA EventsFinite ==
  ASSUME world \in Worlds, NEW cal \in Calendars, NEW range
  PROVE  /\ IsFiniteSet(EventsOf(cal, range)) /\ EventsOf(cal, range) \subseteq world[cal]
         /\ EventsOf(cal, range) \subseteq Event
<1>1. IsFiniteSet(world[cal]) /\ world[cal] \subseteq Event
  BY WorldsAssumption DEF Calendars
<1>2. EventsOf(cal, range) \in SUBSET world[cal]
  BY DEF EventsOf
<1>3. IsFiniteSet(EventsOf(cal, range))
  BY <1>1, <1>2, FS_Subset
<1> QED BY <1>1, <1>2, <1>3

\* find_free_slots puts the reads together: what it offers is free.
LEMMA SlotsAreFree ==
  ASSUME IndInv, NEW c \in Calls, AllRead(c), call[c].tool # "search",
         SlotsReply(c).kind = "slots"
  PROVE  FreeOf(call[c], results[c], SlotsReply(c).slots)
<1> DEFINE a == call[c].args
           n == Len(call[c].sel)
           all == UNION {results[c][i].events : i \in DOMAIN results[c]}
           busy == BusyFromEvents(all, a)
<1>1. /\ Len(results[c]) = n /\ n \in Nat /\ a \in SlotArgs
      /\ \A i \in 1..n : /\ results[c][i] \in Result /\ call[c].sel[i] \in Calendars
                        /\ ReadResult(c, i, results[c][i])
  <2>1. call[c].args \in ArgsOf(call[c].tool)
    BY AllFinal
  <2> QED BY <2>1, AllFinal DEF ArgsOf
<1>2. world \in Worlds /\ results[c] \in Seq(Result) /\ call[c].sel \in Seq(Calendars)
  BY DEF IndInv, Shape, Call
<1>3. DOMAIN results[c] = 1..n /\ DOMAIN call[c].sel = 1..n
  BY <1>1, <1>2
<1>4. IncompleteReads(c) = {} /\ OptionsValid(a) /\ SlotsReply(c).slots = FindFreeSlots(busy, a)
  <2>1. \A code : Failure(code).kind # "slots"
    BY DEF Failure
  <2> QED BY <2>1 DEF SlotsReply
<1>5. a \in Options
  BY <1>1, <1>4, ArgsAssumption DEF Options
<1>6. ASSUME NEW i \in 1..n
      PROVE  results[c][i].events = EventsOf(call[c].sel[i], QueryRange(c)) \ results[c][i].skipped
  <2>1. results[c][i].error = "none" /\ ~results[c][i].truncated
    <3>1. i \notin IncompleteReads(c)
      BY <1>4
    <3>2. ~(results[c][i].error # "none" \/ results[c][i].truncated)
      BY <1>3, <3>1 DEF IncompleteReads
    <3> QED BY <3>2
  <2> QED BY <1>1, <2>1 DEF ReadResult
<1>7. all = UNION {EventsOf(call[c].sel[i], QueryRange(c)) \ results[c][i].skipped : i \in 1..n}
  BY <1>3, <1>6
<1>8. /\ all \in SUBSET Event /\ IsFiniteSet(all)
      /\ \A e \in all : e.allDay => {e.start, e.end} \subseteq CivilDays
  <2> DEFINE f == [i \in 1..n |-> EventsOf(call[c].sel[i], QueryRange(c))]
             G == {f[i] : i \in 1..n}
  <2>1. IsFiniteSet(G)
    <3>1. IsFiniteSet(1..n) /\ DOMAIN f = 1..n
      BY <1>1, FS_Interval
    <3> HIDE DEF f
    <3> QED BY <3>1, ImageFinite
  <2>2. ASSUME NEW i \in 1..n
        PROVE  /\ IsFiniteSet(f[i]) /\ f[i] \subseteq Event
               /\ \A e \in f[i] : e.allDay => {e.start, e.end} \subseteq CivilDays
    <3>1. /\ IsFiniteSet(f[i]) /\ f[i] \subseteq Event /\ f[i] \subseteq world[call[c].sel[i]]
      BY <1>1, <1>2, EventsFinite
    <3>2. \A e \in world[call[c].sel[i]] : e.allDay => {e.start, e.end} \subseteq CivilDays
      BY <1>1, <1>2, WorldsAssumption DEF Calendars
    <3> QED BY <3>1, <3>2
  <2>3. all \in SUBSET UNION G
    BY <1>7
  <2> HIDE DEF f, all
  <2>4. \A T \in G : IsFiniteSet(T)
    BY <2>2
  <2>5. IsFiniteSet(UNION G)
    <3> HIDE DEF G
    <3> QED BY <2>1, <2>4, FS_UNION
  <2>6. IsFiniteSet(all)
    <3> HIDE DEF G
    <3> QED BY <2>3, <2>5, FS_Subset
  <2> QED BY <2>2, <2>3, <2>6
<1>9. busy \in SUBSET Proper /\ IsFiniteSet(busy)
  <2> HIDE DEF all, a
  <2>1. \A e \in all : Dated(e)
    BY <1>8 DEF Dated, Event
  <2> QED BY <1>5, <1>8, <2>1, BusyType
<1>10. ASSUME NEW s \in ToSet(SlotsReply(c).slots), NEW i \in DOMAIN call[c].sel,
              NEW e \in world[call[c].sel[i]] \ results[c][i].skipped,
              BusyFor(e, a), Touches(s, CivilSpan(e), a)
       PROVE  FALSE
  <2> DEFINE cal == call[c].sel[i]
  <2>1. i \in 1..n /\ cal = call[c].sel[i] /\ e \in world[cal]
    BY <1>3
  <2>2. /\ s \in Interval /\ a.from <= s.start /\ s.end <= a.to
        /\ \A b \in busy : ~(s.start < b.end /\ b.start < s.end)
    <3> HIDE DEF busy, a
    <3> QED BY <1>4, <1>5, <1>9, SlotsAvoidBusy
  <2>3. /\ s.start \in Int /\ s.end \in Int /\ a.from \in Int /\ a.to \in Int
        /\ a.before \in Nat /\ a.after \in Nat
    BY <1>5, <2>2 DEF Interval, Options, SlotOptions
  <2> DEFINE start == CivilSpan(e).start
             end == CivilSpan(e).end
  <2>4. e \in Event /\ e.start \in Int /\ e.end \in Int /\ start \in Int /\ end \in Int
    <3>1. world[cal] \subseteq Event /\ (e.allDay => {e.start, e.end} \subseteq CivilDays)
      BY <1>1, <1>2, <2>1, WorldsAssumption DEF Calendars
    <3>2. e \in Event /\ e.start \in Int /\ e.end \in Int
      BY <3>1 DEF Event
    <3>3. \A d \in CivilDays : WallClock[d][0] \in Int
      BY WallClockAssumption
    <3> QED BY <3>1, <3>2, <3>3 DEF CivilSpan
  <2>5. s.start < end + a.after /\ start - a.before < s.end
    BY <1>10 DEF Touches
  <2>6. e \in all
    <3>1. QueryRange(c) = [from |-> a.from - a.after, to |-> a.to + a.before]
      BY DEF QueryRange
    <3>2. start < a.to + a.before /\ end > a.from - a.after
      <4>1. a.from <= s.start /\ s.end <= a.to
        BY <2>2
      <4>2. /\ start \in Int /\ end \in Int /\ s.start \in Int /\ s.end \in Int
            /\ a.from \in Int /\ a.to \in Int /\ a.before \in Int /\ a.after \in Int
        BY <2>3, <2>4
      <4>3. s.start < end + a.after /\ start - a.before < s.end
        BY <2>5
      <4> HIDE DEF a, start, end
      <4> QED BY <4>1, <4>2, <4>3
    <3> DEFINE wide == [from |-> a.from - a.after, to |-> a.to + a.before]
    <3>3. Overlaps(e, wide)
      <4>1. CASE e.allDay
        BY <1>10, <4>1 DEF BusyFor
      <4>2. CASE ~e.allDay
        <5>1. UtcSpan(e).start = start /\ UtcSpan(e).end = end
          BY <4>2 DEF UtcSpan, CivilSpan
        <5> HIDE DEF a, start, end
        <5> QED BY <3>2, <5>1 DEF Overlaps
      <4> QED BY <4>1, <4>2
    <3> HIDE DEF wide
    <3>4. e \in EventsOf(call[c].sel[i], QueryRange(c)) \ results[c][i].skipped
      BY <2>1, <3>1, <3>3 DEF EventsOf, wide
    <3> HIDE DEF all, n
    <3> QED BY <1>7, <2>1, <3>4
  <2> DEFINE b == BusyInterval(e, a)
  <2>7. b = [start |-> start - a.before, end |-> end + a.after]
    BY DEF BusyInterval, CivilSpan
  <2>8. b \in busy
    <3>1. CountsAsBusy(e, a)
      BY <1>10 DEF CountsAsBusy, BusyFor
    <3>2. b.end > b.start
      <4>1. start - a.before < end + a.after
        BY <1>10 DEF BusyFor
      <4> HIDE DEF start, end, a, b
      <4> QED BY <2>3, <2>4, <2>7, <4>1
    <3> HIDE DEF all, b, a
    <3> QED BY <2>6, <3>1, <3>2 DEF BusyFromEvents, b
  <2>9. b.start = start - a.before /\ b.end = end + a.after
    BY <2>7
  <2> HIDE DEF busy, b, a, start, end
  <2> QED BY <2>2, <2>5, <2>8, <2>9
<1> QED BY <1>10 DEF FreeOf

\* search_events puts the reads together: the answer is honest.
LEMMA SearchAnswer ==
  ASSUME IndInv, NEW c \in Calls, AllRead(c), call[c].tool = "search",
         SearchReply(c).kind = "events"
  PROVE  HonestOf(call[c], results[c], SearchReply(c))
<1> DEFINE a == call[c].args
           n == Len(call[c].sel)
           read == results[c]
           failed == {i \in 1..n : read[i].error # "none"}
           fatal == {i \in failed : read[i].error \in FatalCodes}
           multi == n > 1 \/ ~call[c].explicit
           stops == IF multi THEN fatal ELSE failed
           kept == UNION {{e \in read[i].events : e.match} : i \in 1..n}
           sorted == InOrder(kept, RowBefore)
           rows == Rows(sorted, 1, MaxResults)
           page == Rows(rows, a.offset + 1, a.offset + a.limit)
           range == [from |-> a.from, to |-> a.to]
           found == UNION {EventsOf(call[c].sel[i], range) \ read[i].skipped : i \in DOMAIN call[c].sel}
           all == {e \in found : e.match}
           r == SearchReply(c)
<1>1. /\ Len(results[c]) = n /\ n \in Nat /\ a \in SearchArgs
      /\ \A i \in 1..n : /\ read[i] \in Result /\ call[c].sel[i] \in Calendars
                        /\ ReadResult(c, i, read[i])
  <2>1. call[c].args \in ArgsOf(call[c].tool)
    BY AllFinal
  <2> QED BY <2>1, AllFinal DEF ArgsOf
<1>2. world \in Worlds /\ call[c].sel \in Seq(Calendars)
  BY DEF IndInv, Shape, Call
<1>3. a.offset \in Nat /\ a.limit \in Nat
  BY <1>1, ArgsAssumption
<1>4. /\ r.rows = Rows(page, 1, MaxRows) /\ r.total = Len(sorted)
      /\ r.truncated = (Len(sorted) > MaxResults \/ Len(page) > MaxRows)
      /\ r.expansion = (\E i \in 1..n : read[i].truncated)
      /\ r.partial = (failed # {})
  <2> DEFINE good == [kind |-> "events", rows |-> Rows(page, 1, MaxRows), total |-> Len(sorted),
                      truncated |-> Len(sorted) > MaxResults \/ Len(page) > MaxRows,
                      expansion |-> \E i \in 1..n : read[i].truncated,
                      partial |-> PartialFailure(failed)]
  <2>1. \A code : Failure(code).kind # "events"
    BY DEF Failure
  <2>2. \/ r = good
        \/ \E code : r = Failure(code)
    <3> HIDE DEF good
    <3>1. r = CASE stops # {} -> Failure(read[Min(stops)].error)
                [] stops = {} /\ c \in cancelled -> Failure("timeout")
                [] stops = {} /\ c \notin cancelled /\ Cardinality(kept) > MaxMaterialized ->
                     Failure("payload_too_large")
                [] stops = {} /\ c \notin cancelled /\ kept = {} /\ PartialFailure(failed) ->
                     Failure("partial_failure")
                [] OTHER -> good
      BY DEF SearchReply, good
    <3> HIDE DEF stops, kept, failed, r
    <3> QED BY <3>1
  <2>3. r = good
    BY <2>1, <2>2
  <2> HIDE DEF r, page, sorted, read
  <2> QED BY <2>3 DEF PartialFailure
<1>5. QueryRange(c) = range
  BY DEF QueryRange
<1>6. found = UNION {EventsOf(call[c].sel[i], range) \ read[i].skipped : i \in 1..n}
  <2>1. DOMAIN call[c].sel = 1..n
    BY <1>2
  <2> HIDE DEF range, read
  <2> QED BY <2>1
<1>7. /\ found \in SUBSET Event /\ IsFiniteSet(found)
      /\ \A e \in found : \E cal \in Calendars : e \in world[cal]
  <2> DEFINE f == [i \in 1..n |-> EventsOf(call[c].sel[i], range) \ read[i].skipped]
             G == {f[i] : i \in 1..n}
  <2>1. IsFiniteSet(G)
    <3>1. 1 \in Int /\ n \in Int
      BY <1>1
    <3>2. DOMAIN f = 1..n
      OBVIOUS
    <3> HIDE DEF f, n
    <3>3. IsFiniteSet(1..n)
      BY <3>1, FS_Interval, Zenon
    <3> QED BY <3>2, <3>3, ImageFinite
  <2>2. ASSUME NEW i \in 1..n
        PROVE  /\ IsFiniteSet(f[i]) /\ f[i] \subseteq Event
               /\ f[i] \subseteq world[call[c].sel[i]] /\ call[c].sel[i] \in Calendars
    <3> DEFINE E == EventsOf(call[c].sel[i], range)
    <3>1. call[c].sel[i] \in Calendars /\ f[i] \in SUBSET E
      BY <1>1
    <3> HIDE DEF range, f
    <3>2. IsFiniteSet(E) /\ E \subseteq world[call[c].sel[i]] /\ E \subseteq Event
      BY <1>2, <3>1, EventsFinite
    <3> HIDE DEF E
    <3> QED BY <3>1, <3>2, FS_Subset
  <2>3. found = UNION G
    BY <1>6
  <2> HIDE DEF f, found
  <2>4. \A T \in G : IsFiniteSet(T)
    BY <2>2
  <2>5. IsFiniteSet(UNION G)
    <3> HIDE DEF G
    <3> QED BY <2>1, <2>4, FS_UNION
  <2> QED BY <2>2, <2>3, <2>5
<1>8. kept \subseteq all
  <2> SUFFICES ASSUME NEW i \in 1..n, NEW e \in read[i].events, e.match PROVE e \in found
    OBVIOUS
  <2>1. read[i].events \subseteq EventsOf(call[c].sel[i], range) \ read[i].skipped
    BY <1>1, <1>5 DEF ReadResult
  <2> HIDE DEF range, found
  <2> QED BY <1>6, <2>1
<1>9. ASSUME ~r.partial, ~r.expansion PROVE kept = all
  <2>1. ASSUME NEW i \in 1..n
        PROVE  read[i].events = EventsOf(call[c].sel[i], range) \ read[i].skipped
    <3>1. failed = {} /\ ~read[i].truncated
      <4> HIDE DEF r, read, failed
      <4> QED BY <1>4, <1>9
    <3>2. read[i].error = "none"
      BY <3>1
    <3> HIDE DEF read, range
    <3> QED BY <1>1, <1>5, <3>1, <3>2 DEF ReadResult
  <2> HIDE DEF read, range, found
  <2> QED BY <1>6, <2>1
<1>10. kept \in SUBSET Event /\ IsFiniteSet(kept) /\ kept \subseteq found
  <2>1. kept \in SUBSET found
    BY <1>8
  <2> HIDE DEF kept, found
  <2> QED BY <1>7, <2>1, FS_Subset
<1>11. Lists(sorted, kept)
  <2>1. ASSUME NEW e \in kept, NEW f \in kept, e # f
        PROVE  e.uid # f.uid \/ UtcSpan(e).start # UtcSpan(f).start
    <3>1. PICK x \in Calendars, y \in Calendars : e \in world[x] /\ f \in world[y]
      BY <1>7, <1>10
    <3> HIDE DEF kept
    <3> QED BY <1>2, <2>1, <3>1, WorldsAssumption DEF Calendars
  <2> HIDE DEF kept
  <2> QED BY <1>10, <2>1, RowsSort
<1>12. sorted \in Seq(kept) /\ Len(sorted) = Cardinality(kept)
  BY <1>11 DEF Lists
<1> HIDE DEF sorted, kept
<1>13. /\ rows \in Seq(kept) /\ page \in Seq(kept) /\ Rows(page, 1, MaxRows) \in Seq(kept)
       /\ Len(sorted) <= MaxResults => rows = sorted
       /\ Len(page) <= MaxRows => Rows(page, 1, MaxRows) = page
  <2>1. /\ 1 \in Nat \ {0} /\ a.offset + 1 \in Nat \ {0} /\ a.offset + a.limit \in Nat
        /\ MaxResults \in Nat /\ MaxRows \in Nat
    <3>1. MaxResults \in Nat /\ MaxRows \in Nat
      BY ReadsAssumption
    <3> HIDE DEF a
    <3>2. a.offset + 1 \in Nat \ {0} /\ a.offset + a.limit \in Nat
      BY <1>3
    <3> QED BY <3>1, <3>2
  <2>2. rows \in Seq(kept) /\ (Len(sorted) <= MaxResults => rows = sorted)
    BY <1>12, <2>1, RowsType
  <2> HIDE DEF rows, a
  <2>3. page \in Seq(kept)
    BY <2>1, <2>2, RowsType
  <2> HIDE DEF page
  <2> QED BY <2>1, <2>2, <2>3, RowsType
<1>14. ToSet(r.rows) \subseteq all
  <2>1. r.rows \in Seq(kept)
    BY <1>4, <1>13
  <2>2. ToSet(r.rows) \subseteq kept
    <3> HIDE DEF r
    <3> QED BY <2>1 DEF ToSet
  <2> QED BY <1>8, <2>2
<1>15. ASSUME ~r.partial, ~r.expansion PROVE r.total = Cardinality(all)
  <2> HIDE DEF r, all
  <2> QED BY <1>4, <1>9, <1>12, <1>15
<1>16. ASSUME ~r.partial, ~r.expansion, ~r.truncated
       PROVE  r.rows = Rows(InOrder(all, RowBefore), a.offset + 1, a.offset + a.limit)
  <2>1. ~(Len(sorted) > MaxResults) /\ ~(Len(page) > MaxRows)
    <3> HIDE DEF r, page
    <3> QED BY <1>4, <1>16
  <2>2. Len(sorted) \in Nat /\ Len(page) \in Nat /\ MaxResults \in Nat /\ MaxRows \in Nat
    BY <1>12, <1>13, ReadsAssumption
  <2>3. Len(sorted) <= MaxResults /\ Len(page) <= MaxRows
    <3> HIDE DEF page
    <3> QED BY <2>1, <2>2
  <2>4. rows = sorted /\ r.rows = page
    <3> HIDE DEF r, page, rows
    <3> QED BY <1>4, <1>13, <2>3
  <2>5. sorted = InOrder(all, RowBefore)
    BY <1>9, <1>16 DEF sorted
  <2> HIDE DEF r, rows, all
  <2> QED BY <2>4, <2>5
<1>17. HonestOf(call[c], results[c], r) <=>
         /\ ToSet(r.rows) \subseteq all
         /\ ~r.partial /\ ~r.expansion => r.total = Cardinality(all)
         /\ ~r.partial /\ ~r.expansion /\ ~r.truncated =>
              r.rows = Rows(InOrder(all, RowBefore), a.offset + 1, a.offset + a.limit)
  <2> HIDE DEF r
  <2> QED BY DEF HonestOf
<1> HIDE DEF r, all, a
<1>18. HonestOf(call[c], results[c], r)
  BY <1>14, <1>15, <1>16, <1>17
<1> QED BY <1>18 DEF r

-----------------------------------------------------------------------------
(* The steps. *)

CallsOK ==
  /\ call \in [Calls -> Call] /\ results \in [Calls -> Seq(Result)] /\ DOMAIN reply = Calls
  /\ \A c \in Calls : CallInv(c)

\* A step that leaves a call alone keeps its invariant.
LEMMA Frame ==
  ASSUME NEW d, CallInv(d), world' = world, call'[d] = call[d], worker'[d] = worker[d],
         results'[d] = results[d], reply'[d] = reply[d]
  PROVE  CallInv(d)'
<1>1. QueryRange(d)' = QueryRange(d)
  BY DEF QueryRange
<1>2. \A cal, range : EventsOf(cal, range)' = EventsOf(cal, range)
  BY DEF EventsOf
<1>3. PhaseInv(d)' /\ BusyInv(d)'
  BY DEF CallInv, PhaseInv, BusyInv, Busy
<1>4. ResultInv(d)'
  BY <1>1, <1>2 DEF CallInv, ResultInv, ReadResult, Busy
<1>5. \A k, read, r : /\ FreeOf(k, read, r)' <=> FreeOf(k, read, r)
                      /\ HonestOf(k, read, r)' <=> HonestOf(k, read, r)
  BY DEF FreeOf, HonestOf, EventsOf
<1>6. ReplyInv(d)'
  BY <1>5 DEF CallInv, ReplyInv, AnswerKind
<1> QED BY <1>3, <1>4, <1>6 DEF CallInv

\* The running attempts after worker w of call c has moved to x.
LEMMA AttemptsAfter ==
  ASSUME Shape, IsFiniteSet(Attempts), NEW c \in Calls, NEW w \in 1..Workers, NEW x,
         worker' = [worker EXCEPT ![c][w] = x]
  PROVE  /\ IsFiniteSet(Attempts') /\ Cardinality(Attempts) \in Nat /\ Cardinality(Attempts') \in Nat
         /\ Cardinality(Attempts') = Cardinality(Attempts)
              + (IF x.pc = "attempt" THEN 1 ELSE 0)
              - (IF worker[c][w].pc = "attempt" THEN 1 ELSE 0)
<1>1. /\ worker'[c][w] = x
      /\ \A d \in Calls, v \in 1..Workers : <<d, v>> # <<c, w>> => worker'[d][v] = worker[d][v]
  BY DEF Shape
<1>2. <<c, w>> \in Attempts <=> worker[c][w].pc = "attempt"
  BY DEF Attempts
<1>3. \A p \in Calls \X (1..Workers) : p = <<p[1], p[2]>> /\ p[1] \in Calls /\ p[2] \in 1..Workers
  OBVIOUS
<1>4. CASE x.pc = "attempt"
  <2>1. Attempts' = Attempts \cup {<<c, w>>}
    BY <1>1, <1>3, <1>4 DEF Attempts
  <2>2. /\ IsFiniteSet(Attempts \cup {<<c, w>>})
        /\ Cardinality(Attempts \cup {<<c, w>>}) =
             IF <<c, w>> \in Attempts THEN Cardinality(Attempts) ELSE Cardinality(Attempts) + 1
    BY FS_AddElement
  <2>3. Cardinality(Attempts) \in Nat /\ Cardinality(Attempts') \in Nat
    BY <2>1, <2>2, FS_CardinalityType
  <2> QED BY <1>2, <1>4, <2>1, <2>2, <2>3
<1>5. CASE x.pc # "attempt"
  <2>1. Attempts' = Attempts \ {<<c, w>>}
    BY <1>1, <1>3, <1>5 DEF Attempts
  <2>2. /\ IsFiniteSet(Attempts \ {<<c, w>>})
        /\ Cardinality(Attempts \ {<<c, w>>}) =
             IF <<c, w>> \in Attempts THEN Cardinality(Attempts) - 1 ELSE Cardinality(Attempts)
    BY FS_RemoveElement
  <2>3. Cardinality(Attempts) \in Nat /\ Cardinality(Attempts') \in Nat
    BY <2>1, <2>2, FS_CardinalityType
  <2> QED BY <1>2, <1>5, <2>1, <2>2, <2>3
<1> QED BY <1>4, <1>5

\* Worker w of call c moves to x and nothing else of the workers changes.
Moves(c, w, x) ==
  /\ worker'[c] \in [1..Workers -> Worker]
  /\ worker'[c][w] = x
  /\ \A v \in 1..Workers : v # w => worker'[c][v] = worker[c][v]
  /\ \A d \in Calls : d # c => worker'[d] = worker[d]

LEMMA WorkerMoves ==
  ASSUME Shape, NEW c \in Calls, NEW w \in 1..Workers, NEW x \in Worker,
         worker' = [worker EXCEPT ![c][w] = x]
  PROVE  Moves(c, w, x) /\ worker' \in [Calls -> [1..Workers -> Worker]]
BY DEF Shape, Moves

\* A worker goes on with what it is reading.
LEMMA GoesOn ==
  ASSUME IndInv, NEW c \in Calls, NEW w \in 1..Workers, NEW x \in Worker, Moves(c, w, x),
         Busy(c, w), x.pc \in {"limit", "acquire", "attempt"}, x.index = worker[c][w].index,
         UNCHANGED <<world, call, results, reply>>
  PROVE  CallsOK'
<1>1. CallInv(c)'
  <2>1. \A v \in 1..Workers : (Busy(c, v)' <=> Busy(c, v)) /\ worker'[c][v].index = worker[c][v].index
    BY DEF Moves, Busy
  <2>2. CallInv(c)
    BY DEF IndInv
  <2>3. PhaseInv(c)' /\ BusyInv(c)'
    BY <2>1, <2>2 DEF CallInv, PhaseInv, BusyInv
  <2>4. ResultInv(c)'
    BY <2>1, <2>2 DEF CallInv, ResultInv, ReadResult, EventsOf, QueryRange
  <2>5. ReplyInv(c)'
    BY <2>2 DEF CallInv, ReplyInv, AnswerKind, FreeOf, HonestOf, EventsOf
  <2> QED BY <2>3, <2>4, <2>5 DEF CallInv
<1>2. ASSUME NEW d \in Calls, d # c PROVE CallInv(d)'
  BY <1>2, Frame DEF IndInv, Moves
<1> QED BY <1>1, <1>2 DEF IndInv, Shape, CallsOK

\* A call is answered when none of its workers is busy any more.
LEMMA Answers ==
  ASSUME IndInv, NEW c \in Calls, NEW r, Answer(c, r), UNCHANGED <<world, results>>,
         \A v \in 1..Workers : ~Busy(c, v)',
         \A d \in Calls : d # c => worker'[d] = worker[d],
         r.kind = "slots" => FreeOf(call[c], results[c], r.slots),
         r.kind = "events" => HonestOf(call[c], results[c], r)
  PROVE  CallsOK'
<1>1. call[c] \in Call /\ call \in [Calls -> Call] /\ DOMAIN reply = Calls /\ CallInv(c)
  BY DEF IndInv, Shape
<1>2. /\ call'[c] = [call[c] EXCEPT !.pc = "done"] /\ reply'[c] = r
      /\ call' \in [Calls -> Call] /\ DOMAIN reply' = Calls
      /\ \A d \in Calls : d # c => call'[d] = call[d] /\ reply'[d] = reply[d]
  BY <1>1 DEF Answer, Call
<1>3. /\ call'[c].pc = "done" /\ call'[c].sel = call[c].sel /\ call'[c].args = call[c].args
  BY <1>1, <1>2 DEF Call
<1>4. PhaseInv(c)' /\ BusyInv(c)' /\ ResultInv(c)'
  BY <1>1, <1>3 DEF CallInv, PhaseInv, BusyInv, ResultInv
<1>5. (AnswerKind(c, "slots") => FreeOf(call[c], results[c], reply[c].slots))'
  <2>1. FreeOf(call[c], results[c], r.slots) => FreeOf(call[c], results[c], reply[c].slots)'
    BY <1>2, <1>3 DEF FreeOf
  <2> QED BY <1>2, <2>1 DEF AnswerKind
<1>6. (AnswerKind(c, "events") => HonestOf(call[c], results[c], reply[c]))'
  <2>1. HonestOf(call[c], results[c], r) => HonestOf(call[c], results[c], reply[c])'
    BY <1>2, <1>3 DEF HonestOf, EventsOf
  <2> QED BY <1>2, <2>1 DEF AnswerKind
<1>7. CallInv(c)'
  BY <1>4, <1>5, <1>6 DEF CallInv, ReplyInv
<1>8. ASSUME NEW d \in Calls, d # c PROVE CallInv(d)'
  BY <1>2, <1>8, Frame DEF IndInv
<1> QED BY <1>2, <1>7, <1>8 DEF IndInv, Shape, CallsOK

\* The reads of a selection begin.
LEMMA Begins ==
  ASSUME IndInv, NEW c \in Calls, NEW t \in Tools, NEW a \in ArgsOf(t), NEW explicit \in BOOLEAN,
         NEW sel \in Seq(Calendars), BeginReads(c, a, t, explicit, sel), UNCHANGED <<world, reply>>,
         \A v \in 1..Workers : ~Busy(c, v)',
         \A d \in Calls : d # c => worker'[d] = worker[d]
  PROVE  CallsOK'
<1> DEFINE k == [pc |-> "reading", tool |-> t, args |-> a, explicit |-> explicit, sel |-> sel, next |-> 1]
           res == [i \in DOMAIN sel |-> ReadFailed("none")]
<1>1. Len(sel) \in Nat /\ DOMAIN sel = 1..Len(sel)
  OBVIOUS
<1>2. k \in Call
  BY DEF Call, ArgsOf
<1>3. res \in Seq(Result) /\ Len(res) = Len(sel)
  <2>1. ReadFailed("none") \in Result
    BY DEF ReadFailed, Result, Codes
  <2>2. res \in [1..Len(sel) -> Result]
    BY <1>1, <2>1
  <2> HIDE DEF res
  <2> QED BY <1>1, <2>2, FunctionIsSeq
<1>4. /\ call'[c] = k /\ results'[c] = res /\ reply'[c] = reply[c]
      /\ call' \in [Calls -> Call] /\ results' \in [Calls -> Seq(Result)]
      /\ \A d \in Calls : d # c => call'[d] = call[d] /\ results'[d] = results[d]
  <2> HIDE DEF k, res
  <2> QED BY <1>2, <1>3 DEF BeginReads, IndInv, Shape, k, res
<1>5. \A i \in 1..Len(sel) : res[i].events = {}
  BY <1>1 DEF ReadFailed
<1>6. /\ k.pc = "reading" /\ k.tool = t /\ k.args = a /\ k.sel = sel /\ k.next = 1
  OBVIOUS
<1> HIDE DEF k, res
<1>7. PhaseInv(c)' /\ BusyInv(c)'
  BY <1>1, <1>3, <1>4, <1>6 DEF PhaseInv, BusyInv
<1>8. ResultInv(c)'
  BY <1>1, <1>4, <1>5, <1>6 DEF ResultInv
<1>9. ReplyInv(c)'
  BY <1>4, <1>6 DEF ReplyInv, AnswerKind
<1>10. ASSUME NEW d \in Calls, d # c PROVE CallInv(d)'
  BY <1>4, <1>10, Frame DEF IndInv
<1> QED BY <1>4, <1>7, <1>8, <1>9, <1>10 DEF IndInv, Shape, CallsOK, CallInv

\* The read of a worker ends: the list is taken up, or a result is stored.
LEMMA Returns ==
  ASSUME IndInv, NEW c \in Calls, NEW w \in 1..Workers, Busy(c, w), NEW r \in Result,
         worker[c][w].index # Listing => ReadResult(c, worker[c][w].index, r),
         Return(c, w, r), world' = world
  PROVE  CallsOK' /\ worker' = [worker EXCEPT ![c][w] = AtRest]
<1>1. /\ worker' = [worker EXCEPT ![c][w] = AtRest] /\ AtRest \in Worker /\ Shape
      /\ AtRest.pc = "idle"
  BY DEF Return, WorkerAfter, AtRest, Worker, IndInv
<1>2. /\ worker'[c][w] = AtRest
      /\ \A v \in 1..Workers : v # w => worker'[c][v] = worker[c][v]
      /\ \A d \in Calls : d # c => worker'[d] = worker[d]
  <2> HIDE DEF AtRest
  <2> QED BY <1>1, WorkerMoves DEF Moves
<1>3. /\ CallInv(c) /\ call[c] \in Call /\ results[c] \in Seq(Result) /\ worker[c][w] \in Worker
      /\ DOMAIN reply = Calls
  BY DEF IndInv, Shape
<1>4. \A v \in 1..Workers : Busy(c, v)' <=> v # w /\ Busy(c, v)
  BY <1>1, <1>2 DEF Busy
<1>5. CASE worker[c][w].index = Listing
  <2>1. call[c].pc = "listing" /\ w = 1
    BY <1>3, <1>5 DEF CallInv, BusyInv, Listing
  <2>2. \A v \in 1..Workers : ~Busy(c, v)'
    BY <1>3, <1>4, <2>1 DEF CallInv, BusyInv
  <2>3. call[c].tool \in Tools /\ call[c].args \in ArgsOf(call[c].tool)
    BY <1>3, <2>1 DEF CallInv, PhaseInv
  <2>4. Listed(c, r.error)
    BY <1>5 DEF Return
  <2>5. \/ \E code : Answer(c, Failure(code)) /\ UNCHANGED results
        \/ /\ BeginReads(c, call[c].args, call[c].tool, FALSE, DefaultSelection(call[c].tool))
           /\ UNCHANGED reply
    <3> DEFINE sel == DefaultSelection(call[c].tool)
               code == r.error
               empty == IF call[c].tool = "search" THEN "authorization_denied" ELSE "validation_error"
    <3>1. CASE code # "none"
      BY <2>4, <3>1 DEF Listed
    <3>2. CASE code = "none" /\ c \in cancelled
      BY <2>4, <3>2 DEF Listed
    <3>3. CASE code = "none" /\ c \notin cancelled /\ sel = <<>>
      BY <2>4, <3>3 DEF Listed
    <3>4. CASE code = "none" /\ c \notin cancelled /\ sel # <<>>
      BY <2>4, <3>4 DEF Listed
    <3> QED BY <3>1, <3>2, <3>3, <3>4
  <2>6. CASE \E code : Answer(c, Failure(code)) /\ UNCHANGED results
    <3>1. PICK code : Answer(c, Failure(code)) /\ UNCHANGED results
      BY <2>6
    <3>2. Failure(code).kind = "error"
      BY DEF Failure
    <3>3. CallsOK'
      <4> DEFINE f == Failure(code)
      <4>1. Answer(c, f) /\ f.kind = "error"
        BY <3>1, <3>2
      <4> HIDE DEF f
      <4> QED BY <1>2, <2>2, <3>1, <4>1, Answers
    <3> QED BY <1>1, <3>3
  <2>7. CASE /\ BeginReads(c, call[c].args, call[c].tool, FALSE, DefaultSelection(call[c].tool))
             /\ UNCHANGED reply
    <3>1. DefaultSelection(call[c].tool) \in Seq(Calendars)
      BY SelectionType
    <3>2. CallsOK'
      BY <1>2, <2>2, <2>3, <2>7, <3>1, Begins
    <3> QED BY <1>1, <3>2
  <2> QED BY <2>5, <2>6, <2>7
<1>6. CASE worker[c][w].index # Listing
  <2> DEFINE i == worker[c][w].index
  <2>1. call[c].pc = "reading" /\ i \in 1..(call[c].next - 1)
    BY <1>3, <1>6 DEF CallInv, BusyInv
  <2>2. /\ call[c].next \in 1..(Len(call[c].sel) + 1) /\ Len(results[c]) = Len(call[c].sel)
        /\ Len(call[c].sel) \in Nat
    BY <1>3, <2>1 DEF CallInv, PhaseInv, Call
  <2>3. i \in 1..Len(call[c].sel) /\ i \in DOMAIN results[c]
    <3> HIDE DEF i
    <3>1. i \in 1..Len(call[c].sel)
      BY <2>1, <2>2
    <3>2. DOMAIN results[c] = 1..Len(results[c])
      BY <1>3
    <3> QED BY <2>2, <3>1, <3>2
  <2>4. results' = [results EXCEPT ![c][i] = r] /\ call' = call /\ reply' = reply
    BY <1>6 DEF Return
  <2> HIDE DEF i
  <2>5. /\ results'[c] = [results[c] EXCEPT ![i] = r]
        /\ \A d \in Calls : d # c => results'[d] = results[d]
        /\ results \in [Calls -> Seq(Result)] /\ DOMAIN results' = Calls
    BY <2>4 DEF IndInv, Shape
  <2>6. /\ results'[c] \in Seq(Result) /\ Len(results'[c]) = Len(results[c])
        /\ results'[c][i] = r
        /\ \A j \in 1..Len(results[c]) : j # i => results'[c][j] = results[c][j]
    BY <1>3, <2>3, <2>5
  <2>7. results' \in [Calls -> Seq(Result)]
    BY <2>4, <2>5, <2>6
  <2>8. PhaseInv(c)' /\ BusyInv(c)' /\ ReplyInv(c)'
    <3>1. PhaseInv(c)'
      BY <1>3, <2>4, <2>6 DEF CallInv, PhaseInv
    <3>2. BusyInv(c)'
      BY <1>2, <1>3, <1>4, <2>4 DEF CallInv, BusyInv
    <3>3. ReplyInv(c)'
      BY <2>1, <2>4 DEF ReplyInv, AnswerKind
    <3> QED BY <3>1, <3>2, <3>3
  <2>9. ResultInv(c)'
    <3> SUFFICES ASSUME NEW j \in 1..Len(call[c].sel)
                 PROVE  /\ results'[c][j].events \subseteq EventsOf(call[c].sel[j], QueryRange(c))
                        /\ \/ j >= call[c].next
                           \/ \E v \in 1..Workers : Busy(c, v)' /\ worker'[c][v].index = j
                           \/ ReadResult(c, j, results'[c][j])
      BY <2>4 DEF ResultInv, ReadResult, EventsOf, QueryRange
    <3>1. CASE j = i
      BY <1>6, <2>6, <3>1 DEF ReadResult, i
    <3>2. CASE j # i
      <4>1. results'[c][j] = results[c][j]
        BY <2>2, <2>6, <3>2
      <4>2. /\ results[c][j].events \subseteq EventsOf(call[c].sel[j], QueryRange(c))
            /\ \/ j >= call[c].next
               \/ \E v \in 1..Workers : Busy(c, v) /\ worker[c][v].index = j
               \/ ReadResult(c, j, results[c][j])
        BY <1>3, <2>1 DEF CallInv, ResultInv
      <4>3. ASSUME NEW v \in 1..Workers, Busy(c, v), worker[c][v].index = j
            PROVE  Busy(c, v)' /\ worker'[c][v].index = j
        <5>1. v # w
          BY <3>2, <4>3 DEF i
        <5> QED BY <1>2, <1>4, <4>3, <5>1
      <4> QED BY <4>1, <4>2, <4>3
    <3> QED BY <3>1, <3>2
  <2>10. CallInv(c)'
    BY <2>8, <2>9 DEF CallInv
  <2>11. ASSUME NEW d \in Calls, d # c PROVE CallInv(d)'
    BY <1>2, <2>4, <2>5, <2>11, Frame DEF IndInv
  <2>12. CallsOK'
    BY <1>3, <2>4, <2>7, <2>10, <2>11 DEF IndInv, Shape, CallsOK
  <2> QED BY <1>1, <2>12
<1> QED BY <1>5, <1>6

\* What a step shows of the whole invariant.
LEMMA Whole ==
  ASSUME CallsOK', SlotInv', world' \in Worlds, worker' \in [Calls -> [1..Workers -> Worker]],
         slots' \in 0..ReadSlots, others' \in Nat
  PROVE  IndInv'
BY DEF CallsOK, IndInv, Shape

\* The slots when worker w of call c has moved and the slot count has followed.
LEMMA SlotsFollow ==
  ASSUME IndInv, NEW c \in Calls, NEW w \in 1..Workers, NEW x, worker' = [worker EXCEPT ![c][w] = x],
         others' = others,
         slots' = slots + (IF x.pc = "attempt" THEN 1 ELSE 0)
                        - (IF worker[c][w].pc = "attempt" THEN 1 ELSE 0)
  PROVE  SlotInv' /\ slots' \in Nat
<1>1. /\ IsFiniteSet(Attempts') /\ Cardinality(Attempts) \in Nat /\ Cardinality(Attempts') \in Nat
      /\ Cardinality(Attempts') = Cardinality(Attempts)
           + (IF x.pc = "attempt" THEN 1 ELSE 0)
           - (IF worker[c][w].pc = "attempt" THEN 1 ELSE 0)
  BY AttemptsAfter DEF IndInv, SlotInv
<1>2. slots = others + Cardinality(Attempts) /\ others \in Nat
  BY DEF IndInv, SlotInv, Shape
<1> QED BY <1>1, <1>2 DEF SlotInv

\* A read that ends gives back the slot it had, and no other.
LEMMA ReadEnds ==
  ASSUME IndInv, NEW c \in Calls, NEW w \in 1..Workers, Busy(c, w), NEW r \in Result,
         worker[c][w].index # Listing => ReadResult(c, worker[c][w].index, r),
         Return(c, w, r), UNCHANGED <<world, others>>,
         slots' = slots - (IF worker[c][w].pc = "attempt" THEN 1 ELSE 0)
  PROVE  IndInv'
<1>1. CallsOK' /\ worker' = [worker EXCEPT ![c][w] = AtRest]
  BY Returns
<1>2. AtRest \in Worker /\ AtRest.pc = "idle"
  BY DEF AtRest, Worker
<1>3. world \in Worlds /\ slots \in 0..ReadSlots /\ others \in Nat /\ Shape
  BY DEF IndInv, Shape
<1>4. worker' \in [Calls -> [1..Workers -> Worker]]
  <2> HIDE DEF AtRest
  <2> QED BY <1>1, <1>2, <1>3, WorkerMoves
<1>5. slots' = slots + (IF AtRest.pc = "attempt" THEN 1 ELSE 0)
                     - (IF worker[c][w].pc = "attempt" THEN 1 ELSE 0)
  BY <1>2, <1>3
<1>6. SlotInv' /\ slots' \in Nat
  <2> DEFINE x == AtRest
  <2>1. worker' = [worker EXCEPT ![c][w] = x]
    BY <1>1
  <2>2. slots' = slots + (IF x.pc = "attempt" THEN 1 ELSE 0)
                       - (IF worker[c][w].pc = "attempt" THEN 1 ELSE 0)
    BY <1>5
  <2> HIDE DEF x
  <2> QED BY <2>1, <2>2, SlotsFollow
<1>7. slots' \in 0..ReadSlots
  BY <1>3, <1>6, ReadsAssumption
<1> QED BY <1>1, <1>3, <1>4, <1>6, <1>7, Whole

\* A read that fails: its result is an error.
LEMMA FailedRead ==
  ASSUME NEW code \in Codes \ {"none"}, NEW c, NEW i
  PROVE  ReadFailed(code) \in Result /\ ReadResult(c, i, ReadFailed(code))
BY DEF ReadFailed, Result, ReadResult

\* A read that fails, with or without a slot.
LEMMA ReadFails ==
  ASSUME IndInv, NEW c \in Calls, NEW w \in 1..Workers, Busy(c, w), NEW code \in Codes \ {"none"},
         Return(c, w, ReadFailed(code)), UNCHANGED <<world, others>>,
         slots' = slots - (IF worker[c][w].pc = "attempt" THEN 1 ELSE 0)
  PROVE  IndInv'
<1> DEFINE r == ReadFailed(code)
<1>1. r \in Result /\ ReadResult(c, worker[c][w].index, r) /\ Return(c, w, r)
  BY FailedRead
<1> HIDE DEF r
<1> QED BY <1>1, ReadEnds

\* A read that works, or one whose expansion was cut.
LEMMA ReadWorks ==
  ASSUME IndInv, NEW c \in Calls, NEW w \in 1..Workers, worker[c][w].pc = "attempt",
         NEW r \in ReadOf(c, w)
  PROVE  r \in Result /\ (worker[c][w].index # Listing => ReadResult(c, worker[c][w].index, r))
<1>1. CASE worker[c][w].index = Listing
  <2>1. r = ReadFailed("none")
    BY <1>1 DEF ReadOf
  <2>2. ReadFailed("none") \in Result
    BY DEF ReadFailed, Result, Codes
  <2> QED BY <1>1, <2>1, <2>2
<1>2. CASE worker[c][w].index # Listing
  <2> DEFINE i == worker[c][w].index
             all == EventsOf(call[c].sel[i], QueryRange(c))
  <2>1. \E s \in SUBSET all : \E x \in {{}} \cup {{e} : e \in all \ s} :
          r = [error |-> "none", events |-> all \ (s \cup x), truncated |-> x # {}, skipped |-> s]
    <3> DEFINE Outcome(s, x) == [error |-> "none", events |-> all \ (s \cup x), truncated |-> x # {}, skipped |-> s]
               Outcomes(s) == {Outcome(s, x) : x \in {{}} \cup {{e} : e \in all \ s}}
    <3>1. ReadOf(c, w) = UNION {Outcomes(s) : s \in SUBSET all}
      BY <1>2 DEF ReadOf
    <3> HIDE DEF all, Outcome
    <3>2. PICK s \in SUBSET all : r \in Outcomes(s)
      BY <3>1
    <3>3. \E x \in {{}} \cup {{e} : e \in all \ s} : r = Outcome(s, x)
      BY <3>2
    <3> QED BY <3>3 DEF Outcome
  <2>2. CallInv(c) /\ call[c] \in Call /\ world \in Worlds /\ Busy(c, w)
    BY DEF IndInv, Shape, Busy
  <2>3. call[c].pc = "reading" /\ i \in 1..(call[c].next - 1)
    BY <1>2, <2>2 DEF CallInv, BusyInv
  <2>4. call[c].next \in 1..(Len(call[c].sel) + 1) /\ call[c].sel \in Seq(Calendars)
    BY <2>2, <2>3 DEF CallInv, PhaseInv, Call
  <2>5. call[c].sel[i] \in Calendars
    <3> HIDE DEF i
    <3>1. i \in 1..Len(call[c].sel)
      BY <2>3, <2>4
    <3> QED BY <2>4, <3>1
  <2> DEFINE cal == call[c].sel[i]
             range == QueryRange(c)
  <2>6. all \subseteq Event
    <3>1. cal \in Calendars /\ all = EventsOf(cal, range)
      BY <2>5
    <3> HIDE DEF cal, range, all
    <3> QED BY <2>2, <3>1, EventsFinite
  <2>7. /\ r \in Result
        /\ r.events \subseteq all \ r.skipped
        /\ r.error = "none" /\ ~r.truncated => r.events = all \ r.skipped
    <3> HIDE DEF all
    <3>1. PICK s \in SUBSET all : \E x :
            r = [error |-> "none", events |-> all \ (s \cup x), truncated |-> x # {}, skipped |-> s]
      BY <2>1
    <3> PICK x : r = [error |-> "none", events |-> all \ (s \cup x), truncated |-> x # {}, skipped |-> s]
      BY <3>1
    <3>2. /\ r.error = "none" /\ r.events = all \ (s \cup x) /\ r.truncated = (x # {})
          /\ r.skipped = s /\ "none" \in Codes
      BY <3>1 DEF Codes
    <3>3. r \in Result
      <4>1. all \ (s \cup x) \in SUBSET Event /\ s \in SUBSET Event /\ (x # {}) \in BOOLEAN
        BY <2>6
      <4> QED BY <3>1, <3>2, <4>1 DEF Result
    <3> QED BY <3>2, <3>3
  <2>8. ReadResult(c, i, r) <=>
          /\ r.events \subseteq all \ r.skipped
          /\ r.error = "none" /\ ~r.truncated => r.events = all \ r.skipped
    BY Zenon DEF ReadResult
  <2> HIDE DEF all
  <2>9. ReadResult(c, i, r)
    BY <2>7, <2>8
  <2> QED BY <2>7, <2>9
<1> QED BY <1>1, <1>2

\* The initial states.
LEMMA InitInv == Init => IndInv
<1> SUFFICES ASSUME Init PROVE IndInv
  OBVIOUS
<1>1. NoCall \in Call /\ AtRest \in Worker /\ NoCall.pc = "new" /\ NoCall.sel = <<>> /\ AtRest.pc = "idle"
  BY DEF NoCall, AtRest, Call, Worker, Tools
<1>2. Shape
  <2>1. world \in Worlds /\ DOMAIN reply = Calls /\ slots = 0 /\ others = 0
    BY DEF Init
  <2>2. call \in [Calls -> Call] /\ worker \in [Calls -> [1..Workers -> Worker]]
    <3> HIDE DEF NoCall, AtRest
    <3> QED BY <1>1 DEF Init
  <2>3. results \in [Calls -> Seq(Result)]
    BY DEF Init
  <2> QED BY <2>1, <2>2, <2>3, ReadsAssumption DEF Shape
<1>3. SlotInv
  <2>1. Attempts = {}
    BY <1>1 DEF Init, Attempts
  <2> QED BY <2>1, FS_EmptySet DEF Init, SlotInv
<1>4. ASSUME NEW c \in Calls PROVE CallInv(c)
  <2>1. call[c].pc = "new" /\ call[c].sel = <<>> /\ results[c] = <<>>
        /\ \A w \in 1..Workers : worker[c][w].pc = "idle"
    BY <1>1 DEF Init
  <2>2. PhaseInv(c) /\ BusyInv(c) /\ ResultInv(c) /\ ReplyInv(c)
    BY <2>1 DEF PhaseInv, BusyInv, Busy, ResultInv, ReplyInv, AnswerKind
  <2> QED BY <2>2 DEF CallInv
<1> QED BY <1>2, <1>3, <1>4 DEF IndInv

\* A new call has no busy worker.
LEMMA NewIsCalm ==
  ASSUME IndInv, NEW c \in Calls, call[c].pc = "new"
  PROVE  \A w \in 1..Workers : ~Busy(c, w)
BY DEF IndInv, CallInv, BusyInv

LEMMA StartExplicitInv ==
  ASSUME IndInv, NEW c \in Calls, StartExplicit(c)
  PROVE  IndInv'
<1>1. call[c].pc = "new" /\ UNCHANGED <<world, worker, slots, others, cancelled>>
  BY DEF StartExplicit
<1>2. /\ \A w \in 1..Workers : ~Busy(c, w)'
      /\ \A d \in Calls : d # c => worker'[d] = worker[d]
  BY <1>1, NewIsCalm DEF Busy
<1>3. PICK t \in Tools, sel \in {<<CalendarList[i]>> : i \in DOMAIN CalendarList} \cup {CalendarList} :
        \E a \in ArgsOf(t) :
          IF InScope(sel)
          THEN BeginReads(c, a, t, TRUE, sel) /\ UNCHANGED reply
          ELSE Answer(c, Failure("authorization_denied")) /\ UNCHANGED results
  BY DEF StartExplicit, Tools, ArgsOf
<1>4. PICK a \in ArgsOf(t) :
        IF InScope(sel)
        THEN BeginReads(c, a, t, TRUE, sel) /\ UNCHANGED reply
        ELSE Answer(c, Failure("authorization_denied")) /\ UNCHANGED results
  BY <1>3
<1>5. sel \in Seq(Calendars)
  <2>1. CalendarList \in Seq(Calendars)
    BY ReadsAssumption DEF Calendars
  <2>2. \A i \in DOMAIN CalendarList : CalendarList[i] \in Calendars
    BY DEF Calendars, ToSet
  <2>3. \A cal \in Calendars : <<cal>> \in Seq(Calendars)
    OBVIOUS
  <2>4. sel = CalendarList \/ \E i \in DOMAIN CalendarList : sel = <<CalendarList[i]>>
    BY <1>3
  <2> QED BY <2>1, <2>2, <2>3, <2>4
<1>6. CallsOK'
  <2>1. CASE InScope(sel)
    <3>1. BeginReads(c, a, t, TRUE, sel) /\ UNCHANGED reply
      BY <1>4, <2>1
    <3> QED BY <1>1, <1>2, <1>5, <3>1, Begins
  <2>2. CASE ~InScope(sel)
    <3> DEFINE f == Failure("authorization_denied")
    <3>1. Answer(c, f) /\ UNCHANGED results /\ f.kind = "error"
      BY <1>4, <2>2 DEF Failure
    <3> HIDE DEF f
    <3> QED BY <1>1, <1>2, <3>1, Answers
  <2> QED BY <2>1, <2>2
<1>7. SlotInv'
  BY <1>1 DEF IndInv, SlotInv, Attempts
<1> QED BY <1>1, <1>6, <1>7, Whole DEF IndInv, Shape

LEMMA RefuseInv ==
  ASSUME IndInv, NEW c \in Calls, Refuse(c)
  PROVE  IndInv'
<1>1. call[c].pc = "new" /\ UNCHANGED <<world, worker, results, slots, others, cancelled>>
  BY DEF Refuse
<1>2. /\ \A w \in 1..Workers : ~Busy(c, w)'
      /\ \A d \in Calls : d # c => worker'[d] = worker[d]
  BY <1>1, NewIsCalm DEF Busy
<1> DEFINE f == Failure("validation_error")
<1>3. Answer(c, f) /\ f.kind = "error"
  BY DEF Refuse, Failure
<1> HIDE DEF f
<1>4. CallsOK'
  BY <1>1, <1>2, <1>3, Answers
<1>5. SlotInv'
  BY <1>1 DEF IndInv, SlotInv, Attempts
<1> QED BY <1>1, <1>4, <1>5, Whole DEF IndInv, Shape

LEMMA StartDefaultInv ==
  ASSUME IndInv, NEW c \in Calls, StartDefault(c)
  PROVE  IndInv'
<1> DEFINE x == [pc |-> "limit", index |-> Listing, tries |-> 0]
<1>1. /\ call[c].pc = "new" /\ UNCHANGED <<world, results, slots, others, cancelled, reply>>
      /\ worker' = [worker EXCEPT ![c][1] = x]
  BY DEF StartDefault
<1>2. PICK t \in Tools : \E a \in ArgsOf(t) :
        call' = [call EXCEPT ![c] = [pc |-> "listing", tool |-> t, args |-> a, explicit |-> FALSE,
                                     sel |-> <<>>, next |-> 1]]
  BY DEF StartDefault, Tools, ArgsOf
<1>3. PICK a \in ArgsOf(t) :
        call' = [call EXCEPT ![c] = [pc |-> "listing", tool |-> t, args |-> a, explicit |-> FALSE,
                                     sel |-> <<>>, next |-> 1]]
  BY <1>2
<1> DEFINE k == [pc |-> "listing", tool |-> t, args |-> a, explicit |-> FALSE, sel |-> <<>>, next |-> 1]
<1>4. /\ k \in Call /\ k.pc = "listing" /\ k.tool = t /\ k.args = a /\ k.sel = <<>>
  <2>1. k \in Call
    <3> DEFINE sel == <<>>
               explicit == FALSE
    <3>1. sel \in Seq(Calendars) /\ explicit \in BOOLEAN
      OBVIOUS
    <3>2. k = [pc |-> "listing", tool |-> t, args |-> a, explicit |-> explicit, sel |-> sel, next |-> 1]
      OBVIOUS
    <3> HIDE DEF sel, explicit, k
    <3> QED BY <3>1, <3>2 DEF Call, ArgsOf
  <2> QED BY <2>1
<1>5. x \in Worker /\ x.pc = "limit" /\ x.index = Listing /\ 1 \in 1..Workers
  BY ReadsAssumption DEF Worker, Listing
<1>6. call' = [call EXCEPT ![c] = k]
  BY <1>3
<1> HIDE DEF k, x
<1>7. /\ call'[c] = k /\ call' \in [Calls -> Call]
      /\ \A d \in Calls : d # c => call'[d] = call[d]
  BY <1>4, <1>6 DEF IndInv, Shape
<1>8. Shape
  BY DEF IndInv
<1>9. Moves(c, 1, x) /\ worker' \in [Calls -> [1..Workers -> Worker]]
  BY <1>1, <1>5, <1>8, WorkerMoves
<1>10. CallInv(c)'
  <2>1. CallInv(c) /\ call[c].sel = <<>> /\ results'[c] = results[c]
    BY <1>1 DEF IndInv, CallInv, PhaseInv
  <2>2. \A v \in 1..Workers : Busy(c, v)' => v = 1 /\ worker'[c][v].index = Listing
    BY <1>1, <1>5, <1>9, NewIsCalm DEF Moves, Busy
  <2>3. PhaseInv(c)'
    BY <1>4, <1>7, <2>1 DEF CallInv, PhaseInv
  <2>4. BusyInv(c)' /\ ResultInv(c)' /\ ReplyInv(c)'
    BY <1>4, <1>7, <2>2 DEF BusyInv, ResultInv, ReplyInv, AnswerKind
  <2> QED BY <2>3, <2>4 DEF CallInv
<1>11. ASSUME NEW d \in Calls, d # c PROVE CallInv(d)'
  BY <1>1, <1>7, <1>9, <1>11, Frame DEF IndInv, Moves
<1>12. CallsOK'
  BY <1>1, <1>7, <1>8, <1>10, <1>11 DEF CallsOK, Shape
<1>13. worker[c][1].pc # "attempt"
  BY <1>1, <1>5, NewIsCalm DEF Busy
<1>14. SlotInv'
  <2>1. slots' = slots + (IF x.pc = "attempt" THEN 1 ELSE 0)
                       - (IF worker[c][1].pc = "attempt" THEN 1 ELSE 0)
    BY <1>1, <1>5, <1>8, <1>13 DEF Shape
  <2> QED BY <1>1, <1>5, <2>1, SlotsFollow
<1> QED BY <1>1, <1>8, <1>9, <1>12, <1>14, Whole DEF Shape

LEMMA HandOutInv ==
  ASSUME IndInv, NEW c \in Calls, NEW w \in 1..Workers, HandOut(c, w)
  PROVE  IndInv'
<1> DEFINE i == call[c].next
           x == [pc |-> "limit", index |-> i, tries |-> 0]
           k == [call[c] EXCEPT !.next = i + 1]
<1>1. /\ call[c].pc = "reading" /\ i <= Len(call[c].sel) /\ worker[c][w].pc = "idle"
      /\ worker' = [worker EXCEPT ![c][w] = x] /\ call' = [call EXCEPT ![c] = k]
      /\ UNCHANGED <<world, results, slots, others, cancelled, reply>>
  BY DEF HandOut
<1>2. Shape /\ call[c] \in Call /\ CallInv(c)
  BY DEF IndInv, Shape
<1>3. i \in 1..(Len(call[c].sel) + 1) /\ Len(call[c].sel) \in Nat /\ i \in Nat
  BY <1>1, <1>2 DEF CallInv, PhaseInv, Call
<1>4. x \in Worker /\ x.pc = "limit" /\ x.index = i
  <2> HIDE DEF i
  <2> QED BY <1>3 DEF Worker
<1>5. /\ k \in Call /\ k.next = i + 1 /\ k.pc = "reading" /\ k.sel = call[c].sel
      /\ k.tool = call[c].tool /\ k.args = call[c].args
  BY <1>1, <1>2, <1>3 DEF Call
<1> HIDE DEF x, k
<1>6. /\ call'[c] = k /\ call' \in [Calls -> Call]
      /\ \A d \in Calls : d # c => call'[d] = call[d]
  BY <1>1, <1>2, <1>5 DEF Shape
<1>7. Moves(c, w, x) /\ worker' \in [Calls -> [1..Workers -> Worker]]
  BY <1>1, <1>2, <1>4, WorkerMoves
<1>8. CallInv(c)'
  <2>1. /\ Busy(c, w)' /\ ~Busy(c, w) /\ worker'[c][w].index = i
        /\ \A v \in 1..Workers : v # w => (Busy(c, v)' <=> Busy(c, v)) /\ worker'[c][v] = worker[c][v]
    BY <1>1, <1>4, <1>7 DEF Moves, Busy
  <2>2. QueryRange(c)' = QueryRange(c)
    BY <1>5, <1>6 DEF QueryRange
  <2> HIDE DEF i
  <2>3. PhaseInv(c)'
    BY <1>1, <1>2, <1>3, <1>5, <1>6 DEF CallInv, PhaseInv, i
  <2>4. BusyInv(c)'
    <3> SUFFICES ASSUME NEW v \in 1..Workers, Busy(c, v)'
                 PROVE  worker'[c][v].index \in 1..i
      <4>1. call'[c].pc = "reading" /\ call'[c].next - 1 = i
        BY <1>3, <1>5, <1>6
      <4> QED BY <4>1 DEF BusyInv
    <3>1. CASE v = w
      BY <1>1, <1>3, <2>1, <3>1
    <3>2. CASE v # w
      <4>1. Busy(c, v) /\ worker'[c][v].index = worker[c][v].index
        BY <2>1, <3>2
      <4>2. worker[c][v].index \in 1..(i - 1)
        BY <1>1, <1>2, <4>1 DEF CallInv, BusyInv, i
      <4> QED BY <1>3, <4>1, <4>2
    <3> QED BY <3>1, <3>2
  <2>5. ResultInv(c)'
    <3> SUFFICES ASSUME NEW j \in 1..Len(call[c].sel)
                 PROVE  /\ results[c][j].events \subseteq EventsOf(call[c].sel[j], QueryRange(c))
                        /\ \/ j >= i + 1
                           \/ \E v \in 1..Workers : Busy(c, v)' /\ worker'[c][v].index = j
                           \/ ReadResult(c, j, results[c][j])
      BY <1>1, <1>5, <1>6, <2>2 DEF ResultInv, ReadResult, EventsOf
    <3>1. /\ results[c][j].events \subseteq EventsOf(call[c].sel[j], QueryRange(c))
          /\ \/ j >= i
             \/ \E v \in 1..Workers : Busy(c, v) /\ worker[c][v].index = j
             \/ ReadResult(c, j, results[c][j])
      BY <1>1, <1>2 DEF CallInv, ResultInv, i
    <3>2. CASE j >= i
      <4>1. j = i \/ j >= i + 1
        BY <1>3, <3>2
      <4> QED BY <2>1, <3>1, <4>1
    <3>3. ASSUME NEW v \in 1..Workers, Busy(c, v), worker[c][v].index = j
          PROVE  Busy(c, v)' /\ worker'[c][v].index = j
      BY <2>1, <3>3
    <3> QED BY <3>1, <3>2, <3>3
  <2>6. ReplyInv(c)'
    BY <1>5, <1>6 DEF ReplyInv, AnswerKind
  <2> QED BY <2>3, <2>4, <2>5, <2>6 DEF CallInv
<1>9. ASSUME NEW d \in Calls, d # c PROVE CallInv(d)'
  BY <1>1, <1>6, <1>7, <1>9, Frame DEF IndInv, Moves
<1>10. CallsOK'
  BY <1>1, <1>2, <1>6, <1>8, <1>9 DEF CallsOK, Shape
<1>11. SlotInv'
  <2>1. slots' = slots + (IF x.pc = "attempt" THEN 1 ELSE 0)
                       - (IF worker[c][w].pc = "attempt" THEN 1 ELSE 0)
    BY <1>1, <1>2, <1>4 DEF Shape
  <2> QED BY <1>1, <2>1, SlotsFollow
<1> QED BY <1>1, <1>2, <1>7, <1>10, <1>11, Whole DEF Shape

\* A busy worker takes the step to x; slots follows.
LEMMA StepOn ==
  ASSUME IndInv, NEW c \in Calls, NEW w \in 1..Workers, NEW x \in Worker, Busy(c, w),
         x.pc \in {"limit", "acquire", "attempt"}, x.index = worker[c][w].index,
         worker' = [worker EXCEPT ![c][w] = x],
         UNCHANGED <<world, call, results, reply, others>>, slots' \in 0..ReadSlots,
         slots' = slots + (IF x.pc = "attempt" THEN 1 ELSE 0)
                        - (IF worker[c][w].pc = "attempt" THEN 1 ELSE 0)
  PROVE  IndInv'
<1>1. Shape
  BY DEF IndInv
<1>2. Moves(c, w, x) /\ worker' \in [Calls -> [1..Workers -> Worker]]
  BY <1>1, WorkerMoves
<1>3. CallsOK'
  BY <1>2, GoesOn
<1>4. SlotInv'
  BY SlotsFollow
<1> QED BY <1>1, <1>2, <1>3, <1>4, Whole DEF Shape

LEMMA WorkerStepInv ==
  ASSUME IndInv, NEW c \in Calls, NEW w \in 1..Workers, WorkerStep(c, w)
  PROVE  IndInv'
<1>1. worker[c][w] \in Worker /\ slots \in 0..ReadSlots /\ ReadSlots \in Nat /\ MaxRetries \in Nat
  BY ReadsAssumption DEF IndInv, Shape
<1>2. CASE HandOut(c, w)
  BY <1>2, HandOutInv
<1>3. CASE PassLimiter(c, w)
  <2> DEFINE x == [worker[c][w] EXCEPT !.pc = "acquire"]
  <2>1. x \in Worker /\ x.pc = "acquire" /\ x.index = worker[c][w].index
    BY <1>1 DEF Worker
  <2>2. /\ worker[c][w].pc = "limit" /\ worker' = [worker EXCEPT ![c][w] = x]
        /\ UNCHANGED <<world, call, results, slots, others, cancelled, reply>>
    BY <1>3 DEF PassLimiter
  <2> HIDE DEF x
  <2>3. slots' = slots + (IF x.pc = "attempt" THEN 1 ELSE 0)
                       - (IF worker[c][w].pc = "attempt" THEN 1 ELSE 0)
    BY <1>1, <2>1, <2>2
  <2> QED BY <1>1, <2>1, <2>2, <2>3, StepOn DEF Busy
<1>4. CASE TurnAway(c, w)
  <2> DEFINE code == IF c \in cancelled THEN "timeout" ELSE "rate_limited"
  <2>1. code \in Codes \ {"none"}
    BY DEF Codes
  <2>2. /\ worker[c][w].pc = "limit" /\ Return(c, w, ReadFailed(code))
        /\ UNCHANGED <<world, slots, others, cancelled>>
    BY <1>4 DEF TurnAway
  <2> HIDE DEF code
  <2>3. slots' = slots - (IF worker[c][w].pc = "attempt" THEN 1 ELSE 0) /\ Busy(c, w)
    BY <1>1, <2>2 DEF Busy
  <2> QED BY <2>1, <2>2, <2>3, ReadFails
<1>5. CASE Acquire(c, w)
  <2> DEFINE x == [worker[c][w] EXCEPT !.pc = "attempt"]
  <2>1. x \in Worker /\ x.pc = "attempt" /\ x.index = worker[c][w].index
    BY <1>1 DEF Worker
  <2>2. /\ worker[c][w].pc = "acquire" /\ worker' = [worker EXCEPT ![c][w] = x]
        /\ slots < ReadSlots /\ slots' = slots + 1
        /\ UNCHANGED <<world, call, results, others, cancelled, reply>>
    BY <1>5 DEF Acquire
  <2> HIDE DEF x
  <2>3. /\ slots' = slots + (IF x.pc = "attempt" THEN 1 ELSE 0)
                         - (IF worker[c][w].pc = "attempt" THEN 1 ELSE 0)
        /\ slots' \in 0..ReadSlots
    BY <1>1, <2>1, <2>2
  <2> QED BY <2>1, <2>2, <2>3, StepOn DEF Busy
<1>6. CASE AcquireCancelled(c, w)
  <2> DEFINE code == "timeout"
  <2>1. code \in Codes \ {"none"}
    BY DEF Codes
  <2>2. /\ worker[c][w].pc = "acquire" /\ Return(c, w, ReadFailed(code))
        /\ UNCHANGED <<world, slots, others, cancelled>>
    BY <1>6 DEF AcquireCancelled
  <2> HIDE DEF code
  <2>3. slots' = slots - (IF worker[c][w].pc = "attempt" THEN 1 ELSE 0) /\ Busy(c, w)
    BY <1>1, <2>2 DEF Busy
  <2> QED BY <2>1, <2>2, <2>3, ReadFails
<1>7. CASE FinishRead(c, w)
  <2>1. /\ worker[c][w].pc = "attempt" /\ slots' = slots - 1
        /\ UNCHANGED <<world, others, cancelled>>
    BY <1>7 DEF FinishRead
  <2>2. slots' = slots - (IF worker[c][w].pc = "attempt" THEN 1 ELSE 0) /\ Busy(c, w)
    BY <1>1, <2>1 DEF Busy
  <2>3. \/ \E r \in ReadOf(c, w) : Return(c, w, r)
        \/ \E code \in Codes \ {"none"} : Return(c, w, ReadFailed(code))
    <3>1. /\ "timeout" \in Codes \ {"none"} /\ "internal_error" \in Codes \ {"none"}
          /\ FatalCodes \cup {"unavailable"} \subseteq Codes \ {"none"}
      BY DEF Codes, FatalCodes
    <3>2. \/ \E r \in ReadOf(c, w) : Return(c, w, r)
          \/ Return(c, w, ReadFailed("timeout"))
          \/ \E code \in FatalCodes \cup {"unavailable"} : Return(c, w, ReadFailed(code))
          \/ Return(c, w, ReadFailed("internal_error"))
      BY <1>7 DEF FinishRead
    <3> QED BY <3>1, <3>2
  <2>4. CASE \E r \in ReadOf(c, w) : Return(c, w, r)
    <3>1. PICK r \in ReadOf(c, w) : Return(c, w, r)
      BY <2>4
    <3>2. r \in Result /\ (worker[c][w].index # Listing => ReadResult(c, worker[c][w].index, r))
      BY <2>1, ReadWorks
    <3> QED BY <2>1, <2>2, <3>1, <3>2, ReadEnds
  <2>5. CASE \E code \in Codes \ {"none"} : Return(c, w, ReadFailed(code))
    BY <2>1, <2>2, <2>5, ReadFails
  <2> QED BY <2>3, <2>4, <2>5
<1>8. CASE RetryRead(c, w)
  <2> DEFINE x == [worker[c][w] EXCEPT !.tries = @ + 1]
  <2>1. /\ worker[c][w].pc = "attempt" /\ worker' = [worker EXCEPT ![c][w] = x]
        /\ UNCHANGED <<world, call, results, slots, others, cancelled, reply>>
    BY <1>8 DEF RetryRead
  <2>2. x \in Worker /\ x.pc = "attempt" /\ x.index = worker[c][w].index
    BY <1>1, <2>1 DEF Worker
  <2> HIDE DEF x
  <2>3. slots' = slots + (IF x.pc = "attempt" THEN 1 ELSE 0)
                       - (IF worker[c][w].pc = "attempt" THEN 1 ELSE 0)
    BY <1>1, <2>1, <2>2
  <2> QED BY <1>1, <2>1, <2>2, <2>3, StepOn DEF Busy
<1> QED BY <1>2, <1>3, <1>4, <1>5, <1>6, <1>7, <1>8 DEF WorkerStep

\* The results are put together.
LEMMA CombineInv ==
  ASSUME IndInv, NEW c \in Calls, Combine(c)
  PROVE  IndInv'
<1> DEFINE r == IF call[c].tool = "search" THEN SearchReply(c) ELSE SlotsReply(c)
<1>1. /\ AllRead(c) /\ Answer(c, r) /\ UNCHANGED <<world, worker, results, slots, others, cancelled>>
  BY DEF Combine
<1>2. r.kind = "slots" => FreeOf(call[c], results[c], r.slots)
  <2>1. CASE call[c].tool # "search"
    BY <1>1, <2>1, SlotsAreFree
  <2>2. CASE call[c].tool = "search"
    <3>1. SearchReply(c).kind # "slots"
      <4>1. \A code : Failure(code).kind # "slots"
        BY DEF Failure
      <4> QED BY <4>1 DEF SearchReply
    <3> QED BY <2>2, <3>1
  <2> QED BY <2>1, <2>2
<1>3. r.kind = "events" => HonestOf(call[c], results[c], r)
  <2>1. CASE call[c].tool # "search"
    <3>1. SlotsReply(c).kind # "events"
      <4>1. \A code : Failure(code).kind # "events"
        BY DEF Failure
      <4> QED BY <4>1 DEF SlotsReply
    <3> QED BY <2>1, <3>1
  <2>2. CASE call[c].tool = "search"
    BY <1>1, <2>2, SearchAnswer
  <2> QED BY <2>1, <2>2
<1>4. /\ \A v \in 1..Workers : ~Busy(c, v)'
      /\ \A d \in Calls : d # c => worker'[d] = worker[d]
  BY <1>1 DEF AllRead, Busy
<1> HIDE DEF r
<1>5. CallsOK'
  BY <1>1, <1>2, <1>3, <1>4, Answers
<1>6. SlotInv'
  BY <1>1 DEF IndInv, SlotInv, Attempts
<1> QED BY <1>1, <1>5, <1>6, Whole DEF IndInv, Shape

\* A step that touches no call.
LEMMA CallsUntouched ==
  ASSUME IndInv, UNCHANGED <<world, call, worker, results, reply>>
  PROVE  CallsOK' /\ Attempts' = Attempts
<1>1. ASSUME NEW d \in Calls PROVE CallInv(d)'
  BY Frame DEF IndInv
<1> QED BY <1>1 DEF IndInv, Shape, CallsOK, Attempts

LEMMA NextInv == IndInv /\ [Next]_vars => IndInv'
<1> SUFFICES ASSUME IndInv, [Next]_vars PROVE IndInv'
  OBVIOUS
<1>1. ASSUME NEW c \in Calls, Start(c) PROVE IndInv'
  BY <1>1, StartExplicitInv, StartDefaultInv, RefuseInv DEF Start
<1>2. /\ Shape /\ SlotInv /\ slots \in 0..ReadSlots /\ others \in Nat /\ ReadSlots \in Nat
      /\ Cardinality(Attempts) \in Nat
  BY ReadsAssumption, FS_CardinalityType DEF IndInv, Shape, SlotInv
<1>3. ASSUME NEW c \in Calls, Cancel(c) PROVE IndInv'
  <2>1. UNCHANGED <<world, call, worker, results, slots, others, reply>>
    BY <1>3 DEF Cancel
  <2>2. CallsOK' /\ Attempts' = Attempts
    BY <2>1, CallsUntouched
  <2> QED BY <1>2, <2>1, <2>2, Whole DEF Shape, SlotInv
<1>4. CASE OtherAcquires
  <2>1. /\ slots < ReadSlots /\ slots' = slots + 1 /\ others' = others + 1
        /\ UNCHANGED <<world, call, worker, results, cancelled, reply>>
    BY <1>4 DEF OtherAcquires
  <2>2. CallsOK' /\ Attempts' = Attempts
    BY <2>1, CallsUntouched
  <2>3. SlotInv' /\ slots' \in 0..ReadSlots /\ others' \in Nat
    BY <1>2, <2>1, <2>2 DEF SlotInv
  <2> QED BY <1>2, <2>1, <2>2, <2>3, Whole DEF Shape
<1>5. CASE OtherReleases
  <2>1. /\ others > 0 /\ slots' = slots - 1 /\ others' = others - 1
        /\ UNCHANGED <<world, call, worker, results, cancelled, reply>>
    BY <1>5 DEF OtherReleases
  <2>2. CallsOK' /\ Attempts' = Attempts
    BY <2>1, CallsUntouched
  <2>3. SlotInv' /\ slots' \in 0..ReadSlots /\ others' \in Nat
    BY <1>2, <2>1, <2>2 DEF SlotInv
  <2> QED BY <1>2, <2>1, <2>2, <2>3, Whole DEF Shape
<1>6. CASE UNCHANGED vars
  <2>1. UNCHANGED <<world, call, worker, results, slots, others, reply>>
    BY <1>6 DEF vars
  <2>2. CallsOK' /\ Attempts' = Attempts
    BY <2>1, CallsUntouched
  <2> QED BY <1>2, <2>1, <2>2, Whole DEF Shape, SlotInv
<1> QED BY <1>1, <1>3, <1>4, <1>5, <1>6, CombineInv, WorkerStepInv DEF Next, Finished

LEMMA Invariance == Spec => []IndInv
BY InitInv, NextInv, PTL DEF Spec

-----------------------------------------------------------------------------
\* The shape of calls and results holds throughout, and a read slot is held by
\* each running attempt and each foreign read, never by anything else: the pool
\* cannot leak a slot on any path of GuardedService (icloud/middleware.go).
THEOREM TypeCorrect == Spec => []TypeOK
<1>1. IndInv => TypeOK
  <2> SUFFICES ASSUME IndInv PROVE TypeOK
    OBVIOUS
  <2>1. ASSUME NEW c \in Calls
        PROVE  /\ call[c].pc \in {"new", "listing", "reading", "done"}
               /\ DOMAIN results[c] = DOMAIN call[c].sel
    <3>1. call[c] \in Call /\ results[c] \in Seq(Result) /\ Len(results[c]) = Len(call[c].sel)
      BY DEF IndInv, Shape, CallInv, PhaseInv
    <3>2. call[c].pc \in {"new", "listing", "reading", "done"} /\ call[c].sel \in Seq(Calendars)
      BY <3>1 DEF Call
    <3> QED BY <3>1, <3>2
  <2> QED BY <2>1 DEF IndInv, Shape, SlotInv, Attempts, TypeOK
<1> QED BY <1>1, Invariance, PTL

\* Whichever reads failed, were cut or came in any order, find_free_slots offers a
\* time at which a selected calendar holds a busy event, timed or all-day, buffers
\* included, only if the row of that event came without its data: for any number of
\* calls, workers, slots and calendars, any time zone, and all finite contents of
\* the calendars.
THEOREM OfferedTimesAreFree == Spec => []FreeMeansFree
<1>1. IndInv => FreeMeansFree
  BY DEF IndInv, CallInv, ReplyInv, FreeOf, BusyFor, FreeMeansFree
<1> QED BY <1>1, Invariance, PTL

\* An answer of search_events lists matching events of the selected calendars; if it
\* reports neither a failed calendar nor a cut expansion its total counts exactly the
\* events that were sent with their data, and if it is not truncated either its rows
\* are the page of these, sorted.
THEOREM HonestSearches == Spec => []SearchIsHonest
<1>1. IndInv => SearchIsHonest
  BY DEF IndInv, CallInv, ReplyInv, HonestOf, SearchIsHonest
<1> QED BY <1>1, Invariance, PTL

-----------------------------------------------------------------------------
(* The algorithms: a job is one of the given cases, and its result is what the *)
(* algorithm computes for it.                                                  *)

TakenFrom(algorithm, Cases) == job.algorithm = algorithm => job.case \in Cases

JobInv ==
  /\ TakenFrom("slots", SlotCases) /\ TakenFrom("message", MessageCases) /\ TakenFrom("page", MailPageCases)
  /\ TakenFrom("expand", ExpandCases) /\ TakenFrom("search", SearchCases)
  /\ Done("slots") => /\ OptionsValid(job.case.opts)
                      /\ result.value = FindFreeSlots(BusyFromEvents(job.case.events, job.case.opts),
                                                      job.case.opts)
  /\ Done("message") => result.value = GetMessage(job.case)
  /\ Done("page") => result.value = Paging(job.case.steps, job.case.limit)
  /\ Done("expand") =>
       result.value = ExpandOccurrences(job.case.master, job.case.overrides, job.case.range,
                                        job.case.cap, job.case.work)
  /\ Done("search") =>
       result.value = SearchContactsHandler(job.case.books, job.case.restricted, job.case.limit,
                                            job.case.honours)

LEMMA JobInitInv == JobInit => JobInv
<1> SUFFICES ASSUME JobInit PROVE JobInv
  OBVIOUS
<1>1. ~result.done
  BY DEF JobInit, Pending
<1>2. /\ TakenFrom("slots", SlotCases) /\ TakenFrom("message", MessageCases) /\ TakenFrom("page", MailPageCases)
      /\ TakenFrom("expand", ExpandCases) /\ TakenFrom("search", SearchCases)
  BY DEF JobInit, TakenFrom
<1> QED BY <1>1, <1>2 DEF JobInv, Done

LEMMA JobNextInv == JobInv /\ [JobNext]_jobVars => JobInv'
<1> SUFFICES ASSUME JobInv, [JobNext]_jobVars PROVE JobInv'
  OBVIOUS
<1>1. /\ TakenFrom("slots", SlotCases) /\ TakenFrom("message", MessageCases) /\ TakenFrom("page", MailPageCases)
      /\ TakenFrom("expand", ExpandCases) /\ TakenFrom("search", SearchCases)
  BY DEF JobInv
<1>2. ASSUME job' = job
      PROVE  /\ TakenFrom("slots", SlotCases)' /\ TakenFrom("message", MessageCases)'
             /\ TakenFrom("page", MailPageCases)' /\ TakenFrom("expand", ExpandCases)'
             /\ TakenFrom("search", SearchCases)'
  BY <1>1, <1>2 DEF TakenFrom
<1> USE DEF Todo, Done, Computed
<1>3. CASE Expand
  BY <1>2, <1>3 DEF Expand, JobInv
<1>4. CASE Slots
  BY <1>2, <1>4 DEF Slots, JobInv
<1>5. CASE Search
  BY <1>2, <1>5 DEF Search, JobInv
<1>6. CASE PageMail
  BY <1>2, <1>6 DEF PageMail, JobInv
<1>7. CASE ReadMessage
  BY <1>2, <1>7 DEF ReadMessage, JobInv
<1>8. CASE Patch \/ Create \/ ShowName \/ UpdateStored \/ DeleteStored
  <2>1. job' = job /\ job.algorithm \in {"patch", "create", "name", "edit"}
    BY <1>8 DEF Patch, Create, ShowName, UpdateStored, DeleteStored
  <2> QED BY <1>2, <2>1 DEF JobInv
<1>9. CASE UNCHANGED jobVars
  BY <1>2, <1>9 DEF jobVars, JobInv
<1> QED BY <1>3, <1>4, <1>5, <1>6, <1>7, <1>8, <1>9 DEF JobNext

LEMMA JobInvariance == JobSpec => []JobInv
BY JobInitInv, JobNextInv, PTL DEF JobSpec

\* For every finite set of events, every set of options and every clock that is
\* not changed across midnight: find_free_slots offers no instant that is busy,
\* buffered or outside the working hours, slots of the requested length that do
\* not overlap, and below its limit it overlooks no room for one (freeslots.go).
THEOREM OfferedSlotsAreRight == JobSpec => []FreeSlotsAreRight
<1>1. JobInv => FreeSlotsAreRight
  <2> SUFFICES ASSUME JobInv, Done("slots")
               PROVE  SlotsAreRight(result.value, job.case.events, job.case.opts)
    BY DEF FreeSlotsAreRight
  <2> DEFINE E == job.case.events
             a == job.case.opts
  <2>1. job.case \in SlotCases /\ OptionsValid(a) /\ result.value = FindFreeSlots(BusyFromEvents(E, a), a)
    BY DEF JobInv, TakenFrom, Done
  <2>2. /\ MidnightsInOrder /\ IsFiniteSet(E) /\ a \in SlotOptions
        /\ \A e \in E : /\ e.start \in Int /\ e.end \in Int
                        /\ e.allDay => {e.start, e.end} \subseteq CivilDays
        /\ \E d \in CivilDays : WallClock[d][0] <= a.from
        /\ \A d \in CivilDays : WallClock[d][0] <= a.to => d + 2 \in CivilDays
    BY <2>1, SlotCasesAssumption
  <2> HIDE DEF E, a
  <2>3. a \in Options /\ \A e \in E : Dated(e)
    BY <2>1, <2>2 DEF Options, Dated
  <2>4. SlotsAreRight(FindFreeSlots(BusyFromEvents(E, a), a), E, a)
    BY <2>2, <2>3, SlotsAreExact
  <2> QED BY <2>1, <2>4 DEF E, a
<1> QED BY <1>1, JobInvariance, PTL

-----------------------------------------------------------------------------
(* get_message. *)

Message(error, body, source, omitted, reason, warnings) ==
  [error |-> error, body |-> body, source |-> source, omitted |-> omitted, reason |-> reason,
   warnings |-> warnings]

IsMessage(r) == \E error, body, source, omitted, reason, warnings :
                  r = Message(error, body, source, omitted, reason, warnings)

LEMMA MessageFields ==
  ASSUME NEW error, NEW body, NEW source, NEW omitted, NEW reason, NEW warnings, NEW r,
         r = Message(error, body, source, omitted, reason, warnings)
  PROVE  /\ IsMessage(r)
         /\ r.error = error /\ r.body = body /\ r.source = source /\ r.omitted = omitted
         /\ r.reason = reason /\ r.warnings = warnings
<1>1. IsMessage(r)
  BY Zenon DEF IsMessage
<1>2. /\ r.error = error /\ r.body = body /\ r.source = source /\ r.omitted = omitted
      /\ r.reason = reason /\ r.warnings = warnings
  BY Zenon DEF Message
<1> QED BY <1>1, <1>2

\* The first part of a kind, if there is one.
LEMMA FirstPart ==
  ASSUME NEW parts \in Seq(Part), NEW kind, HasPart(parts, kind)
  PROVE  FirstOf(parts, kind) \in Part
<1> DEFINE T == {i \in DOMAIN parts : parts[i].kind = kind}
<1>1. T \subseteq Nat /\ T # {}
  BY DEF HasPart, ToSet
<1>2. PICK i \in T : \A j \in T : i <= j
  BY <1>1, LeastElement
<1>3. i \in DOMAIN parts /\ parts[i].kind = kind /\ \A j \in DOMAIN parts : j < i => parts[j].kind # kind
  BY <1>1, <1>2
<1> DEFINE First(k) == k \in DOMAIN parts /\ parts[k].kind = kind
                       /\ \A j \in DOMAIN parts : j < k => parts[j].kind # kind
           c == CHOOSE k \in DOMAIN parts : /\ parts[k].kind = kind
                                            /\ \A j \in DOMAIN parts : j < k => parts[j].kind # kind
<1>4. c \in DOMAIN parts
  BY <1>3
<1> QED BY <1>4 DEF FirstOf

\* What the choice of the body promises before the result is made to fit.
BodyChosen(m, r) ==
  /\ IsMessage(r)
  /\ r.source = "plain_text" => r.body = FirstOf(m.parts, "plain").size
  /\ r.source = "html_fallback" =>
       /\ m.allowHtml /\ ~HasPart(m.parts, "plain")
       /\ r.body = FirstOf(m.parts, "html").size \/ r.warnings # {}
  /\ r.source = "none" /\ r.error = "none" => r.body = 0 /\ (r.omitted \/ r.reason # "none")

LEMMA ChoosesBody ==
  ASSUME NEW m, m.parts \in Seq(Part), m.maxBody \in Nat
  PROVE  BodyChosen(m, ChooseBody(m.parts, m.allowHtml, m.maxBody))
<1> DEFINE r == ChooseBody(m.parts, m.allowHtml, m.maxBody)
           plain == FirstOf(m.parts, "plain")
           html == FirstOf(m.parts, "html")
<1>1. ASSUME HasPart(m.parts, "plain") PROVE r = PlainBody(plain, m.maxBody) /\ plain.size \in Nat
  BY <1>1, FirstPart DEF ChooseBody, Part
<1>2. ASSUME ~HasPart(m.parts, "plain"), HasPart(m.parts, "html"), m.allowHtml
      PROVE  r = HtmlBody(html, m.maxBody) /\ html.size \in Nat
  BY <1>2, FirstPart DEF ChooseBody, Part
<1>3. ASSUME ~HasPart(m.parts, "plain"), ~(HasPart(m.parts, "html") /\ m.allowHtml)
      PROVE  \/ r = Message("none", 0, "none", FALSE, "html_only", {})
             \/ r = Message("none", 0, "none", FALSE, "no_plain_text", {})
  <2>1. r = [MessageResult EXCEPT !.reason = "html_only"] \/ r = [MessageResult EXCEPT !.reason = "no_plain_text"]
    BY <1>3 DEF ChooseBody
  <2> HIDE DEF r
  <2> QED BY <2>1 DEF MessageResult, Message
<1> HIDE DEF r, plain, html
<1>4. ASSUME NEW error, NEW omitted, NEW reason, NEW warnings,
             r = Message(error, 0, "none", omitted, reason, warnings),
             error # "none" \/ omitted \/ reason # "none"
      PROVE  BodyChosen(m, r)
  <2>1. /\ IsMessage(r) /\ r.error = error /\ r.body = 0 /\ r.source = "none"
        /\ r.omitted = omitted /\ r.reason = reason
    BY <1>4, MessageFields
  <2> QED BY <1>4, <2>1 DEF BodyChosen
<1>5. ASSUME HasPart(m.parts, "plain") PROVE BodyChosen(m, r)
  <2>1. \/ r = Message("not_found", 0, "none", FALSE, "none", {})
        \/ r = Message("none", 0, "none", TRUE, "none", {"body_too_large"})
        \/ r = Message("none", 0, "none", TRUE, "none", {"body_decode_failed"})
        \/ r = Message("none", plain.size, "plain_text", FALSE, "none", {})
    BY <1>1, <1>5 DEF PlainBody, Omit, MessageResult, Message
  <2>2. CASE r = Message("none", plain.size, "plain_text", FALSE, "none", {})
    <3>1. IsMessage(r) /\ r.body = plain.size /\ r.source = "plain_text"
      BY <2>2, Zenon DEF Message, IsMessage
    <3> QED BY <3>1 DEF BodyChosen, plain
  <2> QED BY <1>4, <2>1, <2>2
<1>6. ASSUME ~HasPart(m.parts, "plain"), HasPart(m.parts, "html"), m.allowHtml PROVE BodyChosen(m, r)
  <2>1. CASE html.wire \in {"gone", "too_large", "undecodable"}
    <3>1. \/ r = Message("not_found", 0, "none", FALSE, "none", {})
          \/ r = Message("none", 0, "none", TRUE, "html_only", {"html_too_large"})
          \/ r = Message("none", 0, "none", TRUE, "html_only", {"html_decode_failed"})
      BY <1>2, <1>6, <2>1 DEF HtmlBody, Omit, MessageResult, Message
    <3> QED BY <1>4, <3>1
  <2>2. CASE html.wire \notin {"gone", "too_large", "undecodable"}
    <3> DEFINE body == IF html.size < m.maxBody THEN html.size ELSE m.maxBody
               warnings == IF html.size > m.maxBody THEN {"html_truncated"} ELSE {}
    <3>1. r = Message("none", body, "html_fallback", FALSE, "none", warnings)
      BY <1>2, <1>6, <2>2 DEF HtmlBody, MessageResult, Message, Smaller
    <3>2. body = html.size \/ warnings # {}
      BY <1>2, <1>6
    <3> HIDE DEF body, warnings
    <3>3. IsMessage(r) /\ r.body = body /\ r.source = "html_fallback" /\ r.warnings = warnings
      BY <3>1, Zenon DEF Message, IsMessage
    <3> QED BY <1>6, <3>2, <3>3 DEF BodyChosen, html
  <2> QED BY <2>1, <2>2
<1>7. BodyChosen(m, r)
  BY <1>3, <1>4, <1>5, <1>6
<1> QED BY <1>7 DEF r

\* fitMessageResult drops nothing without saying so.
LEMMA FitsMessage ==
  ASSUME NEW m, NEW r, BodyChosen(m, r), m.meta \in Nat
  PROVE  BodyIsAccountedFor(m, FitMessageResult(r, m.meta))
<1> DEFINE cut == IF r.body > 0 THEN CutBody(r, m.meta) ELSE r
           out == [cut EXCEPT !.body = 0, !.omitted = TRUE]
           fit == FitMessageResult(r, m.meta)
<1>1. PICK error, body, source, omitted, reason, warnings :
        r = Message(error, body, source, omitted, reason, warnings)
  BY DEF BodyChosen, IsMessage
<1>2. ASSUME r.body > 0
      PROVE  /\ cut.error = r.error /\ cut.source = r.source /\ "body_truncated" \in cut.warnings
             /\ out.error = r.error /\ out.source = r.source /\ out.omitted = TRUE /\ out.body = 0
  <2> DEFINE w == [r EXCEPT !.warnings = @ \cup {"body_truncated"}]
             left == Larger(0, w.body - (ResultSize(w, m.meta) - MaxResultBytes) - FitSlack)
  <2>1. w = Message(error, body, source, omitted, reason, warnings \cup {"body_truncated"})
    BY <1>1 DEF Message
  <2>2. cut = [w EXCEPT !.body = left]
    BY <1>2 DEF CutBody
  <2> HIDE DEF w, left, cut
  <2>3. cut = Message(error, left, source, omitted, reason, warnings \cup {"body_truncated"})
    BY <2>1, <2>2 DEF Message
  <2>4. DOMAIN cut = {"error", "body", "source", "omitted", "reason", "warnings"}
    BY <2>3 DEF Message
  <2>5. /\ cut.error = error /\ cut.source = source /\ cut.warnings = warnings \cup {"body_truncated"}
        /\ r.error = error /\ r.source = source
    BY <1>1, <2>3, Zenon DEF Message, IsMessage
  <2>6. out.error = cut.error /\ out.source = cut.source /\ out.omitted = TRUE /\ out.body = 0
    BY <2>4
  <2> QED BY <2>5, <2>6
<1>3. ASSUME ~(r.body > 0)
      PROVE  /\ cut = r
             /\ out.error = r.error /\ out.source = r.source /\ out.omitted = TRUE /\ out.body = 0
  <2>1. cut = r
    BY <1>3
  <2> HIDE DEF cut
  <2>2. DOMAIN cut = {"error", "body", "source", "omitted", "reason", "warnings"}
    BY <1>1, <2>1 DEF Message
  <2>3. out.error = cut.error /\ out.source = cut.source /\ out.omitted = TRUE /\ out.body = 0
    BY <2>2
  <2> QED BY <2>1, <2>3
<1>4. \/ fit = r /\ (r.error # "none" \/ ResultSize(r, m.meta) <= MaxResultBytes)
      \/ fit = cut /\ r.body > 0 /\ ResultSize(cut, m.meta) <= MaxResultBytes
      \/ fit = out /\ ResultSize(out, m.meta) <= MaxResultBytes
      \/ fit.error = "payload_too_large"
  BY DEF FitMessageResult, MessageResult
<1> HIDE DEF cut, out, fit
<1>5. CASE fit = r
  BY <1>4, <1>5 DEF BodyIsAccountedFor, BodyChosen, fit
<1>6. CASE fit = cut /\ r.body > 0
  <2>1. fit.error = r.error /\ fit.source = r.source /\ "body_truncated" \in fit.warnings
    BY <1>2, <1>6
  <2>2. fit.error = "none" => ResultSize(fit, m.meta) <= MaxResultBytes /\ fit.source # "none"
    BY <1>4, <1>6, <2>1 DEF BodyChosen
  <2> QED BY <2>1, <2>2 DEF BodyIsAccountedFor, BodyChosen, fit
<1>7. CASE fit = out
  <2>1. fit.error = r.error /\ fit.source = r.source /\ fit.omitted = TRUE /\ fit.body = 0
    BY <1>2, <1>3, <1>7
  <2> QED BY <1>4, <1>7, <2>1 DEF BodyIsAccountedFor, BodyChosen, fit
<1> QED BY <1>4, <1>5, <1>6, <1>7 DEF BodyIsAccountedFor, fit

\* get_message never passes a shortened body off as the whole one, and its answer
\* fits its limit, for any structure of a message and any limits (read.go).
THEOREM BodiesAreAccountedFor == JobSpec => []MessageBodyIsAccountedFor
<1>1. JobInv => MessageBodyIsAccountedFor
  <2> SUFFICES ASSUME JobInv, Done("message") PROVE BodyIsAccountedFor(job.case, result.value)
    BY DEF MessageBodyIsAccountedFor
  <2> DEFINE m == job.case
  <2>1. m \in MessageCases /\ result.value = GetMessage(m)
    BY DEF JobInv, TakenFrom, Done
  <2>2. m.parts \in Seq(Part) /\ m.maxBody \in Nat /\ m.meta \in Nat
    BY <2>1, MessageCasesAssumption
  <2> HIDE DEF m
  <2>3. BodyIsAccountedFor(m, FitMessageResult(ChooseBody(m.parts, m.allowHtml, m.maxBody), m.meta))
    BY <2>2, ChoosesBody, FitsMessage
  <2>4. \/ GetMessage(m) = FitMessageResult(ChooseBody(m.parts, m.allowHtml, m.maxBody), m.meta)
        \/ GetMessage(m).error # "none"
    BY DEF GetMessage, MessageResult
  <2>5. BodyIsAccountedFor(m, GetMessage(m))
    BY <2>3, <2>4 DEF BodyIsAccountedFor
  <2> QED BY <2>1, <2>5 DEF m
<1> QED BY <1>1, JobInvariance, PTL

-----------------------------------------------------------------------------
(* The expansion of a series. *)

\* A list of a set that has each element once.
Enumerates(q, S) == Lists(q, S) /\ \A i, j \in 1..Len(q) : q[i] = q[j] => i = j

\* The order in which the iterator gives the starts, and the first n of them.
LEMMA AscendingSorts ==
  ASSUME NEW S \in SUBSET Int, IsFiniteSet(S)
  PROVE  /\ Enumerates(Ascending(S), S) /\ Cardinality(S) \in Nat
         /\ \A n \in Nat : Cardinality(S) <= n => Earliest(S, n) = S
<1> DEFINE R == {p \in S \X S : p[1] < p[2]}
           q == Ascending(S)
           n == Cardinality(S)
<1>1. \A x, y \in S : <<x, y>> \in R <=> x < y
  OBVIOUS
<1>2. StrictTotal(R, S)
  <2>1. \A x \in S : x \in Int
    OBVIOUS
  <2> HIDE DEF R
  <2> QED BY <1>1, <2>1 DEF StrictTotal
<1> HIDE DEF R
<1>3. \A x \in S : Place(x, S) = Cardinality(Below(x, S, R))
  <2>1. \A x \in S : {v \in S : v < x} = Below(x, S, R)
    BY <1>1 DEF Below
  <2> QED BY <2>1 DEF Place
<1>4. /\ n \in Nat
      /\ \A x \in S : Place(x, S) \in 0..(n - 1)
      /\ \A x, y \in S : <<x, y>> \in R <=> Place(x, S) < Place(y, S)
      /\ \A k \in 1..n : \E x \in S : Place(x, S) = k - 1
  <2>1. /\ n \in Nat
        /\ \A x \in S : Cardinality(Below(x, S, R)) \in 0..(n - 1)
        /\ \A x, y \in S : <<x, y>> \in R <=>
             Cardinality(Below(x, S, R)) < Cardinality(Below(y, S, R))
        /\ \A k \in 1..n : \E x \in S : Cardinality(Below(x, S, R)) = k - 1
    BY <1>2, Ranks
  <2> HIDE DEF n
  <2> QED BY <1>3, <2>1
<1>5. q = [k \in 1..n |-> CHOOSE x \in S : Place(x, S) = k - 1]
  BY DEF Ascending
<1> HIDE DEF q
<1>6. ASSUME NEW k \in 1..n PROVE q[k] \in S /\ Place(q[k], S) = k - 1
  <2>1. \E x \in S : Place(x, S) = k - 1
    BY <1>4
  <2>2. q[k] = CHOOSE x \in S : Place(x, S) = k - 1
    BY <1>5
  <2> QED BY <2>1, <2>2
<1>7. q \in Seq(S) /\ Len(q) = n
  <2>1. q \in [1..n -> S]
    BY <1>5, <1>6
  <2> QED BY <1>4, <2>1, FunctionIsSeq
<1>8. ASSUME NEW x \in S, NEW y \in S, Place(x, S) = Place(y, S) PROVE x = y
  <2>1. Place(x, S) \in Int
    BY <1>4
  <2>2. <<x, y>> \notin R /\ <<y, x>> \notin R
    BY <1>4, <1>8, <2>1
  <2> QED BY <1>2, <2>2 DEF StrictTotal
<1>9. ASSUME NEW x \in S PROVE \E i \in 1..n : q[i] = x
  <2> DEFINE i == Place(x, S) + 1
  <2>1. i \in 1..n /\ Place(x, S) = i - 1
    BY <1>4
  <2> HIDE DEF i
  <2>2. q[i] = x
    BY <1>6, <1>8, <2>1
  <2> QED BY <2>1, <2>2
<1>10. ASSUME NEW i \in 1..n, NEW j \in 1..n, q[i] = q[j] PROVE i = j
  <2>1. i - 1 = j - 1 /\ i \in Int /\ j \in Int
    BY <1>4, <1>6, <1>10
  <2> QED BY <2>1
<1>11. ASSUME NEW m \in Nat, n <= m PROVE Earliest(S, m) = S
  <2>1. \A x \in S : Place(x, S) < m
    BY <1>4, <1>11
  <2> QED BY <2>1 DEF Earliest
<1> QED BY <1>4, <1>7, <1>9, <1>10, <1>11 DEF Lists, Enumerates, q

\* A map that is gone through in no particular order.
LEMMA SetToSeqLists ==
  ASSUME NEW S, IsFiniteSet(S)
  PROVE  Enumerates(SetToSeq(S), S)
<1> DEFINE n == Cardinality(S)
           q == SetToSeq(S)
<1>1. n \in Nat /\ ExistsBijection(1..n, S)
  BY FS_CardinalityType
<1>2. \E f \in [1..n -> S] : IsInjective(f)
  BY <1>1 DEF ExistsBijection, Bijection, Injection
<1>3. q \in [1..n -> S] /\ IsInjective(q)
  BY <1>2 DEF SetToSeq
<1> HIDE DEF n, q
<1>4. q \in Injection(1..n, S) /\ q \in Seq(S) /\ Len(q) = n /\ DOMAIN q = 1..n
  BY <1>1, <1>3, FunctionIsSeq DEF Injection
<1>5. IsFiniteSet(1..n) /\ Cardinality(1..n) = n
  BY <1>1, FS_Interval
<1>6. q \in Surjection(1..n, S)
  BY <1>4, <1>5, FS_Injection DEF n
<1>7. (\A x \in S : \E i \in 1..n : q[i] = x) /\ (\A i, j \in 1..n : q[i] = q[j] => i = j)
  BY <1>3, <1>4, <1>6 DEF Surjection, IsInjective
<1> QED BY <1>4, <1>7 DEF Lists, Enumerates, n, q

\* Each element of a set, once.
Once(q, S) ==
  /\ q \in Seq(S)
  /\ \A x \in S : \E i \in 1..Len(q) : q[i] = x
  /\ \A i, j \in 1..Len(q) : q[i] = q[j] => i = j

\* Two lists with nothing in common, one after the other.
LEMMA JoinedLists ==
  ASSUME NEW S, NEW T, NEW a, NEW b, Once(a, S), Once(b, T), S \cap T = {}
  PROVE  Once(a \o b, S \cup T)
<1> DEFINE la == Len(a)
           lb == Len(b)
           c == a \o b
           n == la + lb
<1>1. a \in Seq(S) /\ b \in Seq(T)
  BY DEF Once
<1>2. a \in Seq(S \cup T) /\ b \in Seq(S \cup T)
  <2>1. a \in [1..la -> S] /\ b \in [1..lb -> T] /\ la \in Nat /\ lb \in Nat
    BY <1>1
  <2> HIDE DEF la, lb
  <2>2. a \in [1..la -> S \cup T] /\ b \in [1..lb -> S \cup T]
    BY <2>1
  <2> QED BY <2>1, <2>2, FunctionIsSeq
<1>3. /\ c \in Seq(S \cup T) /\ Len(c) = n /\ la \in Nat /\ lb \in Nat /\ n \in Nat
      /\ \A i \in 1..la : c[i] = a[i] /\ a[i] \in S
      /\ \A i \in 1..n : i > la => c[i] = b[i - la]
      /\ \A i \in 1..lb : b[i] \in T
  BY <1>1, <1>2
<1>4. /\ \A x \in S : \E i \in 1..la : a[i] = x
      /\ \A x \in T : \E i \in 1..lb : b[i] = x
      /\ \A i, j \in 1..la : a[i] = a[j] => i = j
      /\ \A i, j \in 1..lb : b[i] = b[j] => i = j
  BY DEF Once
<1>5. \A i \in 1..n : i \in 1..la \/ (i > la /\ i - la \in 1..lb /\ i \notin 1..la)
  BY <1>3
<1>6. (\A i \in 1..la : i \in 1..n) /\ \A i \in 1..lb : la + i \in 1..n /\ la + i > la /\ (la + i) - la = i
  BY <1>3
<1> HIDE DEF la, lb, c, n
<1>7. ASSUME NEW x \in S \cup T PROVE \E i \in 1..n : c[i] = x
  <2>1. CASE x \in S
    BY <1>3, <1>4, <1>6, <2>1
  <2>2. CASE x \in T
    <3>1. PICK i \in 1..lb : b[i] = x
      BY <1>4, <2>2
    <3>2. la + i \in 1..n /\ c[la + i] = x
      BY <1>3, <1>6, <3>1
    <3> QED BY <3>2
  <2> QED BY <2>1, <2>2
<1>8. ASSUME NEW i \in 1..n, NEW j \in 1..n, c[i] = c[j] PROVE i = j
  <2>1. CASE i \in 1..la /\ j \in 1..la
    BY <1>3, <1>4, <1>8, <2>1
  <2>2. CASE i \notin 1..la /\ j \notin 1..la
    <3>1. i - la \in 1..lb /\ j - la \in 1..lb /\ b[i - la] = b[j - la]
      BY <1>3, <1>5, <1>8, <2>2
    <3>2. i - la = j - la
      BY <1>4, <3>1
    <3> QED BY <1>3, <3>2
  <2>3. CASE i \in 1..la /\ j \notin 1..la
    <3>1. c[i] \in S /\ c[j] \in T
      BY <1>3, <1>5, <2>3
    <3> QED BY <1>8, <3>1
  <2>4. CASE i \notin 1..la /\ j \in 1..la
    <3>1. c[j] \in S /\ c[i] \in T
      BY <1>3, <1>5, <2>4
    <3> QED BY <1>8, <3>1
  <2> QED BY <2>1, <2>2, <2>3, <2>4
<1>9. Once(c, S \cup T)
  BY <1>3, <1>7, <1>8 DEF Once
<1> QED BY <1>9 DEF c

\* A series, its overrides and a range as they come out of a stored event.
Expandable(master, overrides, range) ==
  /\ master.first \in Int /\ master.step \in Int /\ master.count \in Int /\ master.dur \in Int
  /\ range.from \in Int /\ range.to \in Int
  /\ IsFiniteSet(DOMAIN overrides)

\* The kept starts are the occurrences that reach into the range: the lower bound
\* of the walk leaves none of them out.
LEMMA KeepsWhatOverlaps ==
  ASSUME NEW master, NEW overrides, NEW range, Expandable(master, overrides, range)
  PROVE  /\ KeptStarts(master, range) \in SUBSET Int /\ IsFiniteSet(KeptStarts(master, range))
         /\ KeptStarts(master, range)
              = {s \in RuleStarts(master) : /\ s \notin master.exDates
                                            /\ EventOverlaps(s, OccurrenceEnd(master, s), range)}
<1>1. /\ master.first \in Int /\ master.step \in Int /\ master.count \in Int /\ master.dur \in Int
      /\ range.from \in Int /\ range.to \in Int /\ ClockChange \in Int
  BY ClockChangeAssumption DEF Expandable
<1>2. RuleStarts(master) \in SUBSET Int /\ IsFiniteSet(RuleStarts(master))
  <2> DEFINE K == 0..(master.count - 1)
             f == [k \in K |-> master.first + k * master.step]
  <2>1. \A k \in K : f[k] = master.first + k * master.step /\ f[k] \in Int
    BY <1>1
  <2>2. IsFiniteSet(K) /\ DOMAIN f = K
    BY <1>1, FS_Interval
  <2>3. RuleStarts(master) = {f[k] : k \in K}
    BY DEF RuleStarts
  <2> HIDE DEF K, f
  <2>4. IsFiniteSet({f[k] : k \in K})
    BY <2>2, ImageFinite
  <2> QED BY <2>1, <2>3, <2>4
<1>3. ASSUME NEW s \in RuleStarts(master)
      PROVE  IsKept(master, s, range) <=>
               s \notin master.exDates /\ EventOverlaps(s, OccurrenceEnd(master, s), range)
  <2>1. s \in Int
    BY <1>2
  <2>2. /\ OccurrenceEnd(master, s) \in Int
        /\ OccurrenceEnd(master, s) <= s + master.dur + (IF master.nominal THEN 1 ELSE 0)
    BY <1>1, <2>1 DEF OccurrenceEnd
  <2>3. LowerBound(master, range) = range.from - master.dur - (IF master.nominal THEN 1 ELSE 0)
    BY <1>1 DEF LowerBound
  <2> QED BY <1>1, <2>1, <2>2, <2>3 DEF IsKept, Skips, EventOverlaps
<1>4. KeptStarts(master, range)
        = {s \in RuleStarts(master) : /\ s \notin master.exDates
                                      /\ EventOverlaps(s, OccurrenceEnd(master, s), range)}
  BY <1>3 DEF KeptStarts
<1>5. KeptStarts(master, range) \in SUBSET RuleStarts(master)
  BY DEF KeptStarts
<1> QED BY <1>2, <1>4, <1>5, FS_Subset

LEMMA ExpandsExactly ==
  ASSUME NEW master, NEW overrides, NEW range, Expandable(master, overrides, range),
         NEW cap \in Nat, NEW work
  PROVE  LET r == ExpandOccurrences(master, overrides, range, cap, work)
             wanted == Occurrences(master, overrides, range)
         IN  /\ ToSet(r.rows) \subseteq wanted
             /\ IsInjective(r.rows)
             /\ Len(r.rows) <= cap
             /\ ~r.truncated => ToSet(r.rows) = wanted
<1> DEFINE kept == KeptStarts(master, range)
           starts == Earliest(kept, cap)
           used == starts \cap DOMAIN overrides
           InRange(x) == EventOverlaps(overrides[x].start, overrides[x].end, range)
           RowOf(s) == IF s \in DOMAIN overrides THEN Row(s, overrides[s].start, overrides[s].end)
                       ELSE Row(s, s, OccurrenceEnd(master, s))
           A == {s \in starts : s \in used => InRange(s)}
           B == {x \in UnusedOverrides(overrides, used) : InRange(x)}
           listed == Ascending(A)
           rest == SetToSeq(B)
           places == listed \o rest
           length == IF Len(places) > cap THEN cap ELSE Len(places)
           rows == [i \in 1..length |-> RowOf(places[i])]
           wanted == Occurrences(master, overrides, range)
           r == ExpandOccurrences(master, overrides, range, cap, work)
           cut == Cardinality(kept) > cap \/ Len(places) > cap
<1>1. r.rows = rows /\ (r.truncated <=> cut)
  <2> HIDE DEF rows, cut
  <2>1. r = [error |-> Advances(master, range, cap) > work, truncated |-> cut, rows |-> rows]
    BY DEF ExpandOccurrences, rows, cut
  <2> HIDE DEF r
  <2> QED BY <2>1, Zenon
<1>2. /\ kept \in SUBSET Int /\ IsFiniteSet(kept)
      /\ kept = {s \in RuleStarts(master) : /\ s \notin master.exDates
                                            /\ EventOverlaps(s, OccurrenceEnd(master, s), range)}
  BY KeepsWhatOverlaps
<1> HIDE DEF kept
<1>3. starts \in SUBSET kept /\ (Cardinality(kept) <= cap => starts = kept) /\ Cardinality(kept) \in Nat
  BY <1>2, AscendingSorts DEF Earliest
<1> HIDE DEF starts
<1>4. A \in SUBSET Int /\ IsFiniteSet(A) /\ IsFiniteSet(B) /\ A \cap B = {}
  <2>1. A \in SUBSET kept /\ B \in SUBSET (DOMAIN overrides)
    BY <1>3 DEF UnusedOverrides
  <2>2. A \cap B = {}
    BY DEF UnusedOverrides
  <2> HIDE DEF A, B
  <2> QED BY <1>2, <2>1, <2>2, FS_Subset DEF Expandable
<1>5. Enumerates(listed, A) /\ Enumerates(rest, B)
  <2> HIDE DEF A, B
  <2> QED BY <1>4, AscendingSorts, SetToSeqLists
<1>6. /\ Len(places) \in Nat
      /\ \A i \in 1..Len(places) : places[i] \in A \cup B
      /\ \A x \in A \cup B : \E i \in 1..Len(places) : places[i] = x
      /\ \A i, j \in 1..Len(places) : places[i] = places[j] => i = j
  <2>1. A \cap B = {} /\ Once(listed, A) /\ Once(rest, B)
    BY <1>4, <1>5 DEF Enumerates, Lists, Once
  <2> HIDE DEF A, B, listed, rest
  <2>2. Once(places, A \cup B)
    BY <2>1, JoinedLists
  <2> HIDE DEF places
  <2> QED BY <2>2 DEF Once
<1>7. ASSUME NEW x \in A \cup B PROVE RowOf(x) \in wanted
  <2>1. CASE x \in DOMAIN overrides
    <3>1. InRange(x)
      BY <1>7, <2>1
    <3> QED BY <2>1, <3>1 DEF Occurrences
  <2>2. CASE x \notin DOMAIN overrides
    <3>1. x \in kept
      BY <1>3, <1>7, <2>2 DEF UnusedOverrides
    <3>2. /\ x \in RuleStarts(master) /\ x \notin master.exDates
          /\ EventOverlaps(x, OccurrenceEnd(master, x), range)
      BY <1>2, <3>1
    <3> QED BY <2>2, <3>2 DEF Occurrences
  <2> QED BY <2>1, <2>2
<1>8. ASSUME Cardinality(kept) <= cap, NEW w \in wanted PROVE \E x \in A \cup B : w = RowOf(x)
  <2>1. CASE \E s \in RuleStarts(master) :
               /\ s \notin master.exDates \cup DOMAIN overrides
               /\ EventOverlaps(s, OccurrenceEnd(master, s), range)
               /\ w = Row(s, s, OccurrenceEnd(master, s))
    <3>1. PICK s \in RuleStarts(master) :
               /\ s \notin master.exDates \cup DOMAIN overrides
               /\ EventOverlaps(s, OccurrenceEnd(master, s), range)
               /\ w = Row(s, s, OccurrenceEnd(master, s))
      BY <2>1
    <3>2. s \in starts
      BY <1>2, <1>3, <1>8, <3>1
    <3>3. s \in A /\ w = RowOf(s)
      BY <3>1, <3>2
    <3> QED BY <3>3
  <2>2. CASE \E x \in DOMAIN overrides :
               InRange(x) /\ w = Row(x, overrides[x].start, overrides[x].end)
    <3>1. PICK x \in DOMAIN overrides :
               InRange(x) /\ w = Row(x, overrides[x].start, overrides[x].end)
      BY <2>2
    <3>2. x \in A \cup B /\ w = RowOf(x)
      BY <3>1 DEF UnusedOverrides
    <3> QED BY <3>2
  <2> QED BY <1>8, <2>1, <2>2 DEF Occurrences
<1>9. \A x : RowOf(x).slot = x
  BY DEF Row
<1> HIDE DEF A, B, places, wanted, RowOf, r
<1>10. length \in Nat /\ length <= cap /\ length <= Len(places) /\ (~cut => length = Len(places))
  BY <1>6
<1> HIDE DEF length
<1>11. DOMAIN rows = 1..length /\ Len(rows) = length /\ \A i \in 1..length : rows[i] = RowOf(places[i])
  BY <1>10
<1> HIDE DEF rows
<1>12. ToSet(rows) = {rows[i] : i \in 1..length}
  BY <1>11 DEF ToSet
<1>13. ToSet(rows) \subseteq wanted
  <2>1. \A i \in 1..length : i \in 1..Len(places)
    BY <1>6, <1>10
  <2> QED BY <1>6, <1>7, <1>11, <1>12, <2>1
<1>14. IsInjective(rows)
  <2> SUFFICES ASSUME NEW i \in 1..length, NEW j \in 1..length, rows[i] = rows[j] PROVE i = j
    BY <1>11 DEF IsInjective
  <2>1. places[i] = places[j]
    BY <1>9, <1>11
  <2>2. i \in 1..Len(places) /\ j \in 1..Len(places)
    BY <1>6, <1>10
  <2> QED BY <1>6, <2>1, <2>2
<1>15. ASSUME ~cut PROVE wanted \subseteq ToSet(rows)
  <2>1. Cardinality(kept) <= cap /\ length = Len(places)
    BY <1>3, <1>10, <1>15
  <2> SUFFICES ASSUME NEW w \in wanted PROVE w \in ToSet(rows)
    OBVIOUS
  <2>2. PICK x \in A \cup B : w = RowOf(x)
    BY <1>8, <2>1
  <2>3. PICK i \in 1..length : places[i] = x
    BY <1>6, <2>1
  <2> QED BY <1>11, <1>12, <2>2, <2>3
<1> HIDE DEF cut
<1>16. /\ ToSet(r.rows) \subseteq wanted /\ IsInjective(r.rows) /\ Len(r.rows) <= cap
       /\ ~r.truncated => ToSet(r.rows) = wanted
  BY <1>1, <1>10, <1>11, <1>13, <1>14, <1>15
<1> QED BY <1>16 DEF r, wanted

\* For every rule, every set of exceptions and overrides, every range and cap: an
\* expansion lists occurrences of the series that reach into the range and no slot
\* twice; when it is not cut it lists all of them (recurrence.go
\* expandOccurrencesContext).
THEOREM ExpansionsAreExact == JobSpec => []ExpansionIsExact
<1>1. JobInv => ExpansionIsExact
  <2> SUFFICES ASSUME JobInv, Done("expand") PROVE ExpansionIsExact
    BY DEF ExpansionIsExact
  <2> DEFINE c == job.case
             r == ExpandOccurrences(c.master, c.overrides, c.range, c.cap, c.work)
             wanted == Occurrences(c.master, c.overrides, c.range)
  <2>1. c \in ExpandCases /\ result.value = r
    BY DEF JobInv, TakenFrom, Done
  <2>2. Expandable(c.master, c.overrides, c.range) /\ c.cap \in Nat
    BY <2>1, ExpandCasesAssumption DEF Expandable
  <2> HIDE DEF c
  <2>3. /\ ToSet(r.rows) \subseteq wanted /\ IsInjective(r.rows) /\ Len(r.rows) <= c.cap
        /\ ~r.truncated => ToSet(r.rows) = wanted
    BY <2>2, ExpandsExactly
  <2> HIDE DEF r, wanted
  <2> QED BY <2>1, <2>3 DEF ExpansionIsExact, c, wanted
<1> QED BY <1>1, JobInvariance, PTL

-----------------------------------------------------------------------------
(* search_messages: the scan over windows of UIDs. *)

\* The sort of SearchMessages.
LEMMA DescendingSorts ==
  ASSUME NEW S \in SUBSET Nat, IsFiniteSet(S)
  PROVE  /\ Lists(Descending(S), S)
         /\ \A i, j \in 1..Cardinality(S) : i < j => Descending(S)[i] > Descending(S)[j]
         /\ Cardinality(S) \in Nat /\ \A x \in S : Above(x, S) \in 0..(Cardinality(S) - 1)
         /\ \A x, y \in S : x > y <=> Above(x, S) < Above(y, S)
<1> DEFINE R == {p \in S \X S : p[1] > p[2]}
           q == Descending(S)
           n == Cardinality(S)
<1>1. \A x, y \in S : <<x, y>> \in R <=> x > y
  OBVIOUS
<1>2. StrictTotal(R, S)
  <2>1. \A x \in S : x \in Int
    OBVIOUS
  <2> HIDE DEF R
  <2> QED BY <1>1, <2>1 DEF StrictTotal
<1> HIDE DEF R
<1>3. \A x \in S : Above(x, S) = Cardinality(Below(x, S, R))
  <2>1. \A x \in S : {v \in S : v > x} = Below(x, S, R)
    BY <1>1 DEF Below
  <2> QED BY <2>1 DEF Above
<1>4. /\ n \in Nat
      /\ \A x \in S : Above(x, S) \in 0..(n - 1)
      /\ \A x, y \in S : x > y <=> Above(x, S) < Above(y, S)
      /\ \A k \in 1..n : \E x \in S : Above(x, S) = k - 1
  <2>1. /\ n \in Nat
        /\ \A x \in S : Cardinality(Below(x, S, R)) \in 0..(n - 1)
        /\ \A x, y \in S : <<x, y>> \in R <=>
             Cardinality(Below(x, S, R)) < Cardinality(Below(y, S, R))
        /\ \A k \in 1..n : \E x \in S : Cardinality(Below(x, S, R)) = k - 1
    BY <1>2, Ranks
  <2> HIDE DEF n
  <2>2. \A x, y \in S : x > y <=> Above(x, S) < Above(y, S)
    <3> SUFFICES ASSUME NEW x \in S, NEW y \in S PROVE x > y <=> Above(x, S) < Above(y, S)
      OBVIOUS
    <3>1. <<x, y>> \in R <=> x > y
      BY <1>1
    <3>2. <<x, y>> \in R <=> Cardinality(Below(x, S, R)) < Cardinality(Below(y, S, R))
      BY <2>1
    <3> QED BY <1>3, <3>1, <3>2
  <2> QED BY <1>3, <2>1, <2>2
<1>5. q = [k \in 1..n |-> CHOOSE x \in S : Above(x, S) = k - 1]
  BY DEF Descending
<1> HIDE DEF q
<1>6. ASSUME NEW k \in 1..n PROVE q[k] \in S /\ Above(q[k], S) = k - 1
  <2>1. \E x \in S : Above(x, S) = k - 1
    BY <1>4
  <2>2. q[k] = CHOOSE x \in S : Above(x, S) = k - 1
    BY <1>5
  <2> QED BY <2>1, <2>2
<1>7. q \in Seq(S) /\ Len(q) = n
  <2>1. q \in [1..n -> S]
    BY <1>5, <1>6
  <2> QED BY <1>4, <2>1, FunctionIsSeq
<1>8. ASSUME NEW x \in S PROVE \E i \in 1..n : q[i] = x
  <2> DEFINE i == Above(x, S) + 1
  <2>1. i \in 1..n /\ Above(x, S) = i - 1
    BY <1>4
  <2> HIDE DEF i
  <2>2. q[i] \in S /\ Above(q[i], S) = Above(x, S)
    BY <1>6, <2>1
  <2>3. Above(x, S) \in Int /\ x \in Int /\ q[i] \in Int
    <3>1. Above(x, S) \in Int
      BY <2>1
    <3>2. \A y \in S : y \in Int
      OBVIOUS
    <3> QED BY <2>2, <3>1, <3>2, Zenon
  <2>4. ~(Above(x, S) < Above(q[i], S)) /\ ~(Above(q[i], S) < Above(x, S))
    BY <2>2, <2>3
  <2>5. ~(q[i] > x) /\ ~(x > q[i])
    <3>1. q[i] > x <=> Above(q[i], S) < Above(x, S)
      BY <1>4, <2>2, Zenon
    <3>2. x > q[i] <=> Above(x, S) < Above(q[i], S)
      BY <1>4, <2>2, Zenon
    <3> QED BY <2>4, <3>1, <3>2
  <2> QED BY <2>1, <2>3, <2>5
<1>9. ASSUME NEW i \in 1..n, NEW j \in 1..n, i < j PROVE q[i] > q[j]
  <2>1. Above(q[i], S) < Above(q[j], S)
    BY <1>4, <1>6, <1>9
  <2> QED BY <1>4, <1>6, <2>1
<1> QED BY <1>4, <1>7, <1>8, <1>9 DEF Lists, q

Boxes == [match : SUBSET Nat, next : Nat \ {0}, validity : Nat]
Scans == [found : SUBSET Nat, scanned : Nat, high : Nat]

\* The highest UID that a call looks at.
Top(box, cursor) == IF cursor # 0 /\ cursor - 1 < box.next - 1 THEN cursor - 1 ELSE box.next - 1

Stopped(acc, limit) ==
  acc.high = 0 \/ acc.scanned >= MaxUIDsScanned \/ Cardinality(acc.found) > limit

\* The scan has searched everything from the top down to its mark.
ScanInv(acc, box, top, limit, k) ==
  /\ acc \in Scans /\ acc.high <= top /\ acc.scanned <= MaxUIDsScanned
  /\ acc.found = {u \in box.match : acc.high < u /\ u <= top}
  /\ Stopped(acc, limit) \/ acc.scanned >= k

\* One window: the search goes on below the mark and gets at least one UID further.
LEMMA ScanStep ==
  ASSUME NEW box \in Boxes, NEW top \in Nat, NEW limit \in Nat, NEW k \in Nat, NEW acc,
         ScanInv(acc, box, top, limit, k)
  PROVE  ScanInv(ScanWindow(acc, box, limit), box, top, limit, k + 1)
<1>1. /\ acc.found \subseteq Nat /\ acc.scanned \in Nat /\ acc.high \in Nat /\ acc.high <= top
      /\ box.match \subseteq Nat
      /\ acc.scanned <= MaxUIDsScanned /\ acc.found = {u \in box.match : acc.high < u /\ u <= top}
  BY DEF ScanInv, Scans, Boxes
<1>2. Window \in Nat \ {0} /\ MaxUIDsScanned \in Nat \ {0}
  BY MailReadBounds
<1>3. CASE Stopped(acc, limit)
  <2>1. ScanWindow(acc, box, limit) = acc
    BY <1>3 DEF Stopped, ScanWindow
  <2> QED BY <1>3, <2>1 DEF ScanInv
<1>4. CASE ~Stopped(acc, limit)
  <2> DEFINE width == Smaller(Window, MaxUIDsScanned - acc.scanned)
             low == IF acc.high >= width THEN acc.high - width + 1 ELSE 1
             new == ScanWindow(acc, box, limit)
  <2>1. acc.high # 0 /\ acc.scanned < MaxUIDsScanned /\ acc.scanned >= k
    BY <1>1, <1>2, <1>4 DEF Stopped, ScanInv
  <2>2. width \in Nat \ {0} /\ width <= MaxUIDsScanned - acc.scanned
    BY <1>1, <1>2, <2>1 DEF Smaller
  <2>3. new = [found |-> acc.found \cup SearchWindow(box, low, acc.high),
               scanned |-> acc.scanned + (acc.high - low + 1), high |-> low - 1]
    BY <1>4 DEF ScanWindow, Stopped
  <2> HIDE DEF width, new
  <2>4. low \in Nat \ {0} /\ low <= acc.high /\ acc.high - low + 1 <= width
    BY <1>1, <2>1, <2>2
  <2> HIDE DEF low
  <2>5. /\ new.found = acc.found \cup SearchWindow(box, low, acc.high) /\ new.high = low - 1
        /\ new.scanned = acc.scanned + (acc.high - low + 1)
    BY <2>3
  <2>6. new.found = {u \in box.match : low - 1 < u /\ u <= top}
    BY <1>1, <2>4, <2>5 DEF SearchWindow
  <2>7. /\ low - 1 \in Nat /\ low - 1 <= top /\ new.scanned \in Nat
        /\ new.scanned <= MaxUIDsScanned /\ new.scanned >= k + 1
    BY <1>1, <1>2, <2>1, <2>2, <2>4, <2>5
  <2>8. new \in Scans
    <3>1. new.found \in SUBSET Nat
      BY <1>1, <2>6
    <3> QED BY <2>3, <2>5, <2>7, <3>1 DEF Scans
  <2> QED BY <2>5, <2>6, <2>7, <2>8 DEF ScanInv, new
<1> QED BY <1>3, <1>4

LEMMA ScanTrace ==
  ASSUME NEW box \in Boxes, NEW cursor \in Nat, NEW limit \in Nat
  PROVE  \E g \in [0..MaxUIDsScanned -> Scans] :
           /\ g[0] = [found |-> {}, scanned |-> 0, high |-> Top(box, cursor)]
           /\ g[MaxUIDsScanned] = Scan(box, cursor, limit)
           /\ \A k \in 1..MaxUIDsScanned : g[k] = ScanWindow(g[k - 1], box, limit)
<1> DEFINE q == [k \in 1..MaxUIDsScanned |-> k]
           n == MaxUIDsScanned
           V == Scans
           base == [found |-> {}, scanned |-> 0, high |-> Top(box, cursor)]
           F == [p \in (1..n) \X V |-> ScanWindow(p[2], box, limit)]
           Q(x) == x = [s \in SUBSET (DOMAIN q) |->
                          IF s = {} THEN base ELSE ScanWindow(x[s \ {Max(s)}], box, limit)]
           it == CHOOSE x : Q(x)
<1>0. n \in Nat
  BY MailReadBounds
<1>1. DOMAIN q = 1..n /\ base \in V
  <2>1. Top(box, cursor) \in Nat
    BY DEF Top, Boxes
  <2> QED BY <2>1 DEF Scans
<1>2. F \in Steps(n, V)
  <2>1. ASSUME NEW acc \in V PROVE ScanWindow(acc, box, limit) \in V
    <3>1. CASE Stopped(acc, limit)
      BY <3>1 DEF Stopped, ScanWindow
    <3>2. CASE ~Stopped(acc, limit)
      <4> DEFINE width == Smaller(Window, MaxUIDsScanned - acc.scanned)
                 low == IF acc.high >= width THEN acc.high - width + 1 ELSE 1
                 new == ScanWindow(acc, box, limit)
      <4>1. /\ acc.found \subseteq Nat /\ acc.scanned \in Nat /\ acc.high \in Nat
            /\ box.match \subseteq Nat /\ Window \in Nat \ {0} /\ MaxUIDsScanned \in Nat
        BY MailReadBounds DEF Scans, Boxes
      <4>2. acc.high # 0 /\ acc.scanned < MaxUIDsScanned
        BY <3>2, <4>1 DEF Stopped
      <4>3. width \in Nat \ {0}
        BY <4>1, <4>2 DEF Smaller
      <4>4. new = [found |-> acc.found \cup SearchWindow(box, low, acc.high),
                   scanned |-> acc.scanned + (acc.high - low + 1), high |-> low - 1]
        BY <3>2 DEF ScanWindow, Stopped
      <4> HIDE DEF width, new
      <4>5. low \in Nat \ {0} /\ low <= acc.high
        BY <4>1, <4>2, <4>3
      <4> HIDE DEF low
      <4>6. /\ acc.found \cup SearchWindow(box, low, acc.high) \in SUBSET Nat
            /\ low - 1 \in Nat /\ acc.scanned + (acc.high - low + 1) \in Nat
        BY <4>1, <4>5 DEF SearchWindow
      <4> QED BY <4>4, <4>6 DEF Scans, new
    <3> QED BY <3>1, <3>2
  <2> QED BY <2>1 DEF Steps
<1>3. \A k \in 1..n, v \in V : F[<<k, v>>] = ScanWindow(v, box, limit)
  OBVIOUS
<1> HIDE DEF V, F, n, base, q
<1>4. \E x : Q(x)
  <2>1. PICK x \in [SUBSET (1..n) -> V] : Solves(x, n, V, base, F)
    BY <1>0, <1>1, <1>2, FoldExists
  <2>2. ASSUME NEW s \in SUBSET (1..n)
        PROVE  x[s] = IF s = {} THEN base ELSE ScanWindow(x[s \ {Max(s)}], box, limit)
    <3>1. CASE s = {}
      BY <2>1, <3>1 DEF Solves
    <3>2. CASE s # {}
      <4>1. Max(s) \in 1..n
        BY <1>0, <3>2, MaxIndex
      <4>2. s \ {Max(s)} \in SUBSET (1..n)
        OBVIOUS
      <4> QED BY <1>3, <2>1, <3>2, <4>1, <4>2 DEF Solves
    <3> QED BY <3>1, <3>2
  <2> QED BY <1>1, <2>2
<1>5. Q(it)
  BY <1>4
<1>6. Scan(box, cursor, limit) = it[1..n]
  <2>1. Scan(box, cursor, limit) = it[DOMAIN q]
    BY DEF Scan, FoldLeft, base, MapThenFoldSet, Top, q
  <2> QED BY <1>1, <2>1
<1> HIDE DEF it
<1>7. it[{}] = base
  BY <1>1, <1>5
<1>8. ASSUME NEW s \in SUBSET (1..n), s # {}, it[s \ {Max(s)}] \in V
      PROVE  it[s] = F[<<Max(s), it[s \ {Max(s)}]>>]
  <2>1. Max(s) \in 1..n
    BY <1>0, <1>8, MaxIndex
  <2> QED BY <1>1, <1>3, <1>5, <1>8, <2>1
<1>9. PICK g \in Trace(n, V, base, F) : g[n] = it[1..n]
  <2>1. Solves(it, n, V, base, F)
    BY <1>7, <1>8 DEF Solves
  <2> QED BY <1>0, <1>1, <1>2, <2>1, FoldTrace
<1>10. ASSUME NEW k \in 1..n PROVE g[k] = ScanWindow(g[k - 1], box, limit)
  <2>1. k - 1 \in 0..n
    BY <1>0
  <2> QED BY <1>3, <1>9, <2>1 DEF Trace
<1> QED BY <1>6, <1>9, <1>10 DEF n, V, base, Trace

\* The scan finds what matches above its mark, and stops only at the end of the
\* mailbox, at the scan limit or with more than a page.
LEMMA ScanFinds ==
  ASSUME NEW box \in Boxes, NEW cursor \in Nat, NEW limit \in Nat
  PROVE  LET scan == Scan(box, cursor, limit)
         IN  /\ scan \in Scans /\ scan.high <= Top(box, cursor)
             /\ scan.found = {u \in box.match : scan.high < u /\ u <= Top(box, cursor)}
             /\ \/ scan.high = 0
                \/ scan.scanned = MaxUIDsScanned
                \/ Cardinality(scan.found) > limit
<1> DEFINE n == MaxUIDsScanned
           top == Top(box, cursor)
<1>1. n \in Nat /\ top \in Nat
  BY MailReadBounds DEF Top, Boxes
<1>2. PICK g \in [0..n -> Scans] :
        /\ g[0] = [found |-> {}, scanned |-> 0, high |-> Top(box, cursor)]
        /\ g[n] = Scan(box, cursor, limit)
        /\ \A k \in 1..n : g[k] = ScanWindow(g[k - 1], box, limit)
  BY ScanTrace
<1> HIDE DEF n
<1> DEFINE K == {k \in Nat : k <= n => ScanInv(g[k], box, top, limit, k)}
<1>3. 0 \in K
  <2>1. g[0] \in Scans /\ g[0].found = {} /\ g[0].scanned = 0 /\ g[0].high = top
    <3>1. 0 \in 0..n /\ g[0] = [found |-> {}, scanned |-> 0, high |-> top]
      BY <1>1, <1>2
    <3>2. g[0] \in Scans
      BY <1>2, <3>1
    <3> QED BY <3>1, <3>2
  <2>2. \A u \in box.match : ~(top < u /\ u <= top)
    BY <1>1 DEF Boxes
  <2>3. ScanInv(g[0], box, top, limit, 0)
    BY <1>1, <2>1, <2>2 DEF ScanInv, n
  <2> QED BY <2>3
<1>4. ASSUME NEW k \in Nat, k \in K PROVE k + 1 \in K
  <2> SUFFICES ASSUME k + 1 <= n PROVE ScanInv(g[k + 1], box, top, limit, k + 1)
    OBVIOUS
  <2>1. k <= n /\ k + 1 \in 1..n /\ (k + 1) - 1 = k
    BY <1>1
  <2>2. ScanInv(g[k], box, top, limit, k) /\ g[k + 1] = ScanWindow(g[k], box, limit)
    BY <1>2, <1>4, <2>1
  <2> HIDE DEF top
  <2> QED BY <1>1, <2>2, ScanStep
<1>5. Nat \subseteq K
  <2> HIDE DEF K
  <2> QED BY <1>3, <1>4, Induction
<1>6. ScanInv(g[n], box, top, limit, n)
  <2>1. n \in {k \in Nat : k <= n => ScanInv(g[k], box, top, limit, k)}
    BY <1>1, <1>5
  <2>2. n <= n => ScanInv(g[n], box, top, limit, n)
    BY <2>1
  <2> QED BY <1>1, <2>2
<1>7. g[n].scanned \in Nat
  BY <1>6 DEF ScanInv, Scans
<1> QED BY <1>1, <1>2, <1>6, <1>7 DEF ScanInv, Stopped, n

-----------------------------------------------------------------------------
(* One page of search_messages. *)

Decreasing(q) == \A i, j \in 1..Len(q) : i < j => q[i] > q[j]

\* What page r of a call with a cursor promises: its rows are matching messages
\* below the cursor, in order; the next cursor is not above any of them; and what it
\* neither lists nor has passed over is below that cursor.
PageRight(r, box, gone, cursor, passed) ==
  /\ r.rows \in Seq(Nat) /\ r.next \in Nat /\ Decreasing(r.rows)
  /\ \A u \in ToSet(r.rows) : u \in box.match /\ (cursor # 0 => u < cursor)
  /\ r.next # 0 => /\ \A u \in ToSet(r.rows) : u >= r.next
                   /\ cursor # 0 => r.next <= cursor
  /\ \A u \in box.match \ gone : (cursor = 0 \/ u < cursor) =>
       u \in ToSet(r.rows) \cup passed \/ (r.next # 0 /\ u < r.next)

\* What a page passes over: if it was cut down to nothing, all that was found.
Passed(r, box, cursor, limit) ==
  IF r.truncated /\ r.rows = <<>> THEN Scan(box, cursor, limit).found ELSE {}

LEMMA JoinedDecreasing ==
  ASSUME NEW a \in Seq(Nat), NEW b \in Seq(Nat), Decreasing(a), Decreasing(b),
         \A u \in ToSet(a), v \in ToSet(b) : u > v
  PROVE  Decreasing(a \o b)
<1> DEFINE la == Len(a)
           lb == Len(b)
           c == a \o b
<1>1. /\ la \in Nat /\ lb \in Nat /\ Len(c) = la + lb
      /\ DOMAIN a = 1..la /\ DOMAIN b = 1..lb
      /\ \A j \in 1..la : c[j] = a[j]
      /\ \A j \in 1..(la + lb) : j > la => c[j] = b[j - la]
  OBVIOUS
<1>2. (\A j \in 1..la : a[j] \in ToSet(a)) /\ (\A j \in 1..lb : b[j] \in ToSet(b))
  BY <1>1 DEF ToSet
<1>3. /\ \A i, j \in 1..la : i < j => a[i] > a[j]
      /\ \A i, j \in 1..lb : i < j => b[i] > b[j]
  BY DEF Decreasing
<1> HIDE DEF la, lb, c
<1> SUFFICES ASSUME NEW x \in 1..(la + lb), NEW y \in 1..(la + lb), x < y PROVE c[x] > c[y]
  BY <1>1 DEF Decreasing, c
<1>4. CASE y <= la
  BY <1>1, <1>3, <1>4
<1>5. CASE la < x
  <2>1. x - la \in 1..lb /\ y - la \in 1..lb /\ x - la < y - la /\ y > la
    BY <1>1, <1>5
  <2> QED BY <1>1, <1>3, <1>5, <2>1
<1>6. CASE x <= la /\ la < y
  <2>1. x \in 1..la /\ y - la \in 1..lb
    BY <1>1, <1>6
  <2> QED BY <1>1, <1>2, <1>6, <2>1
<1> QED BY <1>1, <1>4, <1>5, <1>6

LEMMA PageIsRight ==
  ASSUME NEW box \in Boxes, box.match \subseteq 1..(box.next - 1), NEW gone, NEW fit \in Nat,
         NEW cursor \in Nat, NEW validity, NEW limit \in Nat, cursor # 0 => validity = box.validity
  PROVE  LET r == SearchMessages(box, gone, fit, cursor, validity, limit)
         IN  /\ r.error = "none" /\ r.validity = box.validity
             /\ Passed(r, box, cursor, limit) \in SUBSET Nat
             /\ PageRight(r, box, gone, cursor, Passed(r, box, cursor, limit))
<1> DEFINE scan == Scan(box, cursor, limit)
           found == scan.found
           high == scan.high
           top == Top(box, cursor)
           W == Newest(found, limit) \ gone
           fetched == Descending(W)
           m == Cardinality(W)
           k == Smaller(fit, Len(fetched))
           rows == SubSeq(fetched, 1, k)
           cut == Cardinality(found) > limit \/ Len(rows) < Len(fetched)
           scanLimit == scan.scanned = MaxUIDsScanned /\ scan.high > 0
           next == NextBeforeUID(cut, scanLimit, high, rows)
           r == SearchMessages(box, gone, fit, cursor, validity, limit)
           passed == Passed(r, box, cursor, limit)
<1>1. r = [error |-> "none", rows |-> rows, validity |-> box.validity, truncated |-> cut,
           scanLimit |-> scanLimit, next |-> next]
  BY DEF SearchMessages
<1>2. /\ r.error = "none" /\ r.validity = box.validity /\ r.rows = rows /\ r.next = next
      /\ (r.truncated <=> cut)
  <2> HIDE DEF r, rows, cut, scanLimit, next
  <2> QED BY <1>1, Zenon
<1>22. passed = IF cut /\ rows = <<>> THEN found ELSE {}
  <2> HIDE DEF r, rows, cut, found
  <2> QED BY <1>2 DEF Passed, found, scan
<1>3. /\ high \in Nat /\ high <= top /\ found \in SUBSET Nat
      /\ found = {u \in box.match : high < u /\ u <= top}
      /\ high = 0 \/ scan.scanned = MaxUIDsScanned \/ Cardinality(found) > limit
  BY ScanFinds DEF Scans
<1>4. top \in Nat /\ (cursor # 0 => top <= cursor - 1)
      /\ \A u \in box.match : u \in Nat /\ u # 0 /\ ((cursor = 0 \/ u < cursor) => u <= top)
  BY DEF Top, Boxes
<1> HIDE DEF scan, top, r, passed
<1>5. IsFiniteSet(found) /\ W \in SUBSET found /\ IsFiniteSet(W)
  <2>1. IsFiniteSet(1..(box.next - 1))
    BY FS_Interval DEF Boxes
  <2>2. found \in SUBSET (1..(box.next - 1))
    BY <1>3
  <2>3. IsFiniteSet(found)
    BY <2>1, <2>2, FS_Subset
  <2>4. W \in SUBSET found
    BY DEF Newest
  <2> HIDE DEF W, found
  <2> QED BY <2>3, <2>4, FS_Subset
<1> HIDE DEF found, high
<1>6. /\ Cardinality(found) \in Nat /\ \A u \in found : Above(u, found) \in 0..(Cardinality(found) - 1)
      /\ \A u, v \in found : u > v <=> Above(u, found) < Above(v, found)
  BY <1>3, <1>5, DescendingSorts
<1>7. \A u \in found : u \in W <=> Above(u, found) < limit /\ u \notin gone
  BY DEF Newest
<1>8. /\ W \in SUBSET Nat
      /\ Lists(fetched, W) /\ m \in Nat /\ \A i, j \in 1..m : i < j => fetched[i] > fetched[j]
  <2>1. W \in SUBSET Nat
    BY <1>3, <1>5
  <2> HIDE DEF W
  <2> QED BY <1>5, <2>1, DescendingSorts
<1> HIDE DEF W, fetched
<1>9. /\ fetched \in Seq(Nat) /\ Len(fetched) = m /\ \A x \in W : \E i \in 1..m : fetched[i] = x
      /\ \A i \in 1..m : fetched[i] \in W
  <2>1. fetched \in Seq(W) /\ Len(fetched) = m /\ \A x \in W : \E i \in 1..Len(fetched) : fetched[i] = x
    BY <1>8 DEF Lists
  <2>2. \A i \in 1..Len(fetched) : fetched[i] \in W
    BY <2>1
  <2>3. fetched \in Seq(Nat)
    <3>1. fetched = [i \in 1..Len(fetched) |-> fetched[i]]
      BY <2>1
    <3>2. \A i \in 1..Len(fetched) : fetched[i] \in Nat
      BY <1>8, <2>2
    <3>3. fetched \in [1..Len(fetched) -> Nat] /\ Len(fetched) \in Nat
      BY <2>1, <3>1, <3>2
    <3> QED BY <3>3, FunctionIsSeq
  <2> HIDE DEF m
  <2> QED BY <2>1, <2>2, <2>3
<1>10. k \in Nat /\ k <= m
  BY <1>8, <1>9 DEF Smaller
<1> HIDE DEF m, k
<1>11. /\ rows \in Seq(Nat) /\ Len(rows) = k
       /\ \A i \in 1..k : i \in 1..m /\ rows[i] = fetched[i] /\ rows[i] \in W
  <2>1. rows = [i \in 1..k |-> fetched[i]]
    BY <1>8, <1>9, <1>10
  <2>2. \A i \in 1..k : i \in 1..m /\ fetched[i] \in W /\ fetched[i] \in Nat
    BY <1>8, <1>9, <1>10
  <2> HIDE DEF rows
  <2>3. rows \in [1..k -> Nat]
    BY <2>1, <2>2
  <2>4. rows \in Seq(Nat) /\ Len(rows) = k
    BY <1>10, <2>3, FunctionIsSeq
  <2> QED BY <2>1, <2>2, <2>4
<1> HIDE DEF rows
<1>12. /\ ToSet(rows) = {rows[i] : i \in 1..k} /\ ToSet(rows) \subseteq W
       /\ Decreasing(rows) /\ (rows = <<>> <=> k = 0)
       /\ \A u \in ToSet(rows) : u \in found /\ u \in Nat
  <2>1. ToSet(rows) = {rows[i] : i \in 1..k}
    BY <1>11 DEF ToSet
  <2>2. Decreasing(rows)
    BY <1>8, <1>11 DEF Decreasing
  <2>3. rows = <<>> <=> k = 0
    BY <1>11
  <2> QED BY <1>5, <1>8, <1>11, <2>1, <2>2, <2>3
<1>13. ASSUME k > 0
       PROVE  /\ Last(rows) \in ToSet(rows) /\ Last(rows) \in Nat
              /\ \A u \in ToSet(rows) : u >= Last(rows)
              /\ \A u \in W : u \in ToSet(rows) \/ u < Last(rows)
  <2>1. k \in 1..k /\ Last(rows) = rows[k] /\ rows[k] = fetched[k] /\ k \in 1..m
    BY <1>10, <1>11, <1>13 DEF Last
  <2>2. \A i \in 1..k : rows[i] >= rows[k]
    BY <1>10, <1>11, <1>12, <2>1 DEF Decreasing
  <2>3. ASSUME NEW u \in W PROVE u \in ToSet(rows) \/ u < Last(rows)
    <3>1. PICK i \in 1..m : fetched[i] = u
      BY <1>9
    <3>2. CASE i <= k
      <4>1. i \in 1..k /\ rows[i] = u
        BY <1>10, <1>11, <3>1, <3>2
      <4> QED BY <1>12, <4>1
    <3>3. CASE ~(i <= k)
      <4>1. k < i
        BY <1>8, <1>10, <3>3 DEF m
      <4>2. fetched[k] > fetched[i]
        BY <1>8, <2>1, <4>1 DEF m
      <4> QED BY <1>8, <1>9, <2>1, <3>1, <4>2
    <3> QED BY <3>2, <3>3
  <2>4. rows[k] \in ToSet(rows) /\ rows[k] \in Nat
    BY <1>12, <2>1
  <2> QED BY <1>12, <2>1, <2>2, <2>3, <2>4
<1>14. k = m => W = ToSet(rows)
  <2> SUFFICES ASSUME k = m, NEW u \in W PROVE u \in ToSet(rows)
    BY <1>12
  <2>1. PICK i \in 1..m : fetched[i] = u
    BY <1>9
  <2> QED BY <1>11, <1>12, <2>1
<1>15. /\ cut /\ k > 0 => next = Last(rows)
       /\ cut /\ k = 0 => (IF high > 0 THEN next = high + 1 ELSE next = 0)
       /\ ~cut /\ scanLimit => next = high + 1
       /\ ~cut /\ ~scanLimit => next = 0
  <2>1. rows # <<>> <=> k > 0
    BY <1>10, <1>12
  <2> HIDE DEF cut, scanLimit
  <2> QED BY <2>1, <1>10 DEF NextBeforeUID, ScanLimitCursor
<1>16. cut <=> Cardinality(found) > limit \/ k < m
  BY <1>9, <1>11
<1> HIDE DEF cut, next
<1>17. next \in Nat
  BY <1>3, <1>10, <1>13, <1>15
<1>18. ASSUME next # 0
       PROVE  (\A u \in ToSet(rows) : u >= next) /\ (cursor # 0 => next <= cursor)
  <2>1. CASE next = high + 1
    <3>1. ASSUME NEW u \in ToSet(rows) PROVE u >= high + 1
      <4>1. u \in found /\ u \in Nat
        BY <1>12
      <4>2. high < u
        BY <1>3, <4>1
      <4> QED BY <1>3, <4>1, <4>2
    <3> QED BY <1>3, <1>4, <2>1, <3>1
  <2>2. CASE next = Last(rows) /\ k > 0
    <3>1. Last(rows) \in found /\ Last(rows) \in Nat
      BY <1>12, <1>13, <2>2
    <3>2. Last(rows) <= top
      BY <1>3, <3>1
    <3> QED BY <1>4, <1>13, <2>2, <3>1, <3>2
  <2> QED BY <1>10, <1>15, <1>18, <2>1, <2>2
<1>19. ASSUME ~(cut /\ rows = <<>>), NEW u \in box.match \ gone, cursor = 0 \/ u < cursor
       PROVE  u \in ToSet(rows) \/ (next # 0 /\ u < next)
  <2>1. u \in Nat /\ u # 0 /\ u <= top
    BY <1>4, <1>19
  <2>2. cut => k > 0
    BY <1>10, <1>12, <1>19
  <2>3. ASSUME cut PROVE next = Last(rows) /\ next \in found /\ next \in W /\ next # 0 /\ high < next
    <3>1. k > 0 /\ next = Last(rows) /\ Last(rows) \in ToSet(rows) /\ Last(rows) \in Nat
      BY <1>13, <1>15, <2>2, <2>3
    <3>2. next \in found /\ next \in W
      BY <1>12, <3>1
    <3>3. high < next
      BY <1>3, <3>2
    <3> QED BY <1>3, <3>1, <3>2, <3>3
  <2>4. CASE u <= high
    <3>1. CASE cut
      BY <1>3, <1>17, <2>1, <2>3, <2>4, <3>1
    <3>2. CASE ~cut
      <4>1. high > 0 /\ scan.scanned = MaxUIDsScanned
        BY <1>3, <1>16, <2>1, <2>4, <3>2
      <4>2. next = high + 1
        BY <1>15, <3>2, <4>1 DEF high
      <4> QED BY <1>3, <2>1, <2>4, <4>2
    <3> QED BY <3>1, <3>2
  <2>5. CASE u > high
    <3>1. u \in found
      BY <1>3, <2>1, <2>5
    <3>2. CASE u \in W
      <4>1. CASE cut
        BY <1>13, <2>2, <2>3, <3>2, <4>1
      <4>2. CASE ~cut
        <5>1. k = m
          BY <1>8, <1>10, <1>16, <4>2 DEF m
        <5> QED BY <1>14, <3>2, <5>1
      <4> QED BY <4>1, <4>2
    <3>3. CASE u \notin W
      <4>1. Above(u, found) \in Int /\ ~(Above(u, found) < limit) /\ Cardinality(found) > limit
        <5>1. Above(u, found) \in 0..(Cardinality(found) - 1) /\ ~(Above(u, found) < limit)
          BY <1>6, <1>7, <3>1, <3>3
        <5> QED BY <1>6, <5>1
      <4>2. next # 0 /\ next \in found /\ next \in W
        BY <1>16, <2>3, <4>1
      <4>3. Above(next, found) < limit /\ Above(next, found) \in Int
        BY <1>6, <1>7, <4>2
      <4>4. Above(next, found) < Above(u, found)
        BY <4>1, <4>3
      <4>5. next > u
        BY <1>6, <3>1, <4>2, <4>4
      <4> QED BY <1>17, <2>1, <4>2, <4>5
    <3> QED BY <3>2, <3>3
  <2> QED BY <1>3, <2>1, <2>4, <2>5
<1>23. ASSUME cut, rows = <<>>, NEW u \in box.match \ gone, cursor = 0 \/ u < cursor
       PROVE  u \in found \/ (next # 0 /\ u < next)
  <2>1. u \in Nat /\ u # 0 /\ u <= top
    BY <1>4, <1>23
  <2>2. CASE u <= high
    <3>1. high > 0 /\ k = 0
      BY <1>3, <1>12, <1>23, <2>1, <2>2
    <3> QED BY <1>3, <1>15, <1>23, <2>1, <2>2, <3>1
  <2> QED BY <1>3, <2>1, <2>2
<1>20. ASSUME NEW u \in ToSet(rows) PROVE u \in box.match /\ (cursor # 0 => u < cursor)
  <2>1. u \in found /\ u \in Nat
    BY <1>12
  <2>2. u \in box.match /\ u <= top
    BY <1>3, <2>1
  <2> QED BY <1>4, <2>1, <2>2
<1>24. \A u \in box.match \ gone : (cursor = 0 \/ u < cursor) =>
         u \in ToSet(rows) \cup passed \/ (next # 0 /\ u < next)
  BY <1>19, <1>22, <1>23
<1>21. PageRight(r, box, gone, cursor, passed)
  BY <1>2, <1>11, <1>12, <1>17, <1>18, <1>20, <1>24 DEF PageRight
<1>25. passed \in SUBSET Nat
  BY <1>3, <1>22
<1> QED BY <1>2, <1>21, <1>25 DEF r, passed

-----------------------------------------------------------------------------
(* A client that follows the cursor of search_messages. *)

Pagings == [cursor : Nat, validity : Nat, rows : Seq(Nat), pages : Nat, done : BOOLEAN,
            error : {"none", "concurrent_modification"}, skipped : SUBSET Nat]

\* A call of a client with a mailbox as the server shows it.
Sound(step) == step \in MailStep /\ step.box.match \subseteq 1..(step.box.next - 1)

\* What one call does to the client: nothing, the end with an error, or a page.
Paged(new, acc, step) ==
  /\ ~acc.done /\ (acc.cursor # 0 => acc.validity = step.box.validity)
  /\ \E r, passed :
            /\ PageRight(r, step.box, step.gone, acc.cursor, passed)
            /\ new.cursor = r.next /\ new.validity = step.box.validity
            /\ new.rows = acc.rows \o r.rows /\ new.error = "none"
            /\ new.done <=> r.next = 0
            /\ new.skipped = acc.skipped \cup passed

Ended(new, acc) == ~acc.done /\ new.done /\ new.error = "concurrent_modification" /\ new.rows = acc.rows

LEMMA FollowStep ==
  ASSUME NEW acc \in Pagings, NEW step, Sound(step), NEW limit \in Nat
  PROVE  LET new == FollowCursor(acc, step, limit)
         IN  /\ new \in Pagings
             /\ new = acc \/ Paged(new, acc, step) \/ Ended(new, acc)
<1> DEFINE new == FollowCursor(acc, step, limit)
           answer == SearchMessages(step.box, step.gone, step.fit, acc.cursor, acc.validity, limit)
           last == IF RetryableRead(step.first) THEN step.second ELSE step.first
           r == Read(step.first, step.second, answer)
           page == [cursor |-> r.next, validity |-> r.validity, rows |-> acc.rows \o r.rows,
                    pages |-> acc.pages + 1, done |-> r.next = 0, error |-> "none",
                    skipped |-> acc.skipped \cup Passed(r, step.box, acc.cursor, limit)]
           passed == Passed(r, step.box, acc.cursor, limit)
           over == [acc EXCEPT !.done = TRUE, !.error = r.error]
<1>1. /\ step.box \in Boxes /\ step.box.match \subseteq 1..(step.box.next - 1) /\ step.fit \in Nat
      /\ step.first \in {"ok", "unavailable", "protocol"} /\ step.second \in {"ok", "unavailable", "protocol"}
  BY DEF Sound, MailStep, Boxes
<1>2. /\ acc.cursor \in Nat /\ acc.validity \in Nat /\ acc.rows \in Seq(Nat) /\ acc.pages \in Nat
      /\ acc.done \in BOOLEAN /\ acc.skipped \in SUBSET Nat
  BY DEF Pagings
<1>3. \/ new = acc
      \/ ~acc.done /\ r.error = "none" /\ new = page
      \/ ~acc.done /\ r.error = "concurrent_modification" /\ new = over
  <2> HIDE DEF r
  <2> QED BY <1>2 DEF FollowCursor, Passed, r
<1>4. r.error \in {"none", "concurrent_modification"} => r = answer
  <2>1. last \in {"ok", "unavailable", "protocol"}
    BY <1>1
  <2>2. r = IF last = "ok" THEN answer ELSE [error |-> last]
    BY DEF Read
  <2> HIDE DEF last, answer, r
  <2> QED BY <2>1, <2>2
<1>5. ~(acc.cursor # 0 /\ acc.validity # step.box.validity) =>
        /\ answer.error = "none" /\ answer.validity = step.box.validity
        /\ Passed(answer, step.box, acc.cursor, limit) \in SUBSET Nat
        /\ PageRight(answer, step.box, step.gone, acc.cursor, Passed(answer, step.box, acc.cursor, limit))
  BY <1>1, <1>2, PageIsRight
<1>6. acc.cursor # 0 /\ acc.validity # step.box.validity => answer.error = "concurrent_modification"
  BY DEF SearchMessages
<1> HIDE DEF answer, r
<1>7. CASE ~acc.done /\ r.error = "none" /\ new = page
  <2>1. /\ r = answer /\ (acc.cursor # 0 => acc.validity = step.box.validity)
        /\ r.validity = step.box.validity /\ PageRight(r, step.box, step.gone, acc.cursor, passed)
        /\ passed \in SUBSET Nat
    BY <1>4, <1>5, <1>6, <1>7
  <2> HIDE DEF passed
  <2>2. r.next \in Nat /\ r.rows \in Seq(Nat) /\ r.validity \in Nat
    BY <1>1, <2>1 DEF PageRight, Boxes
  <2>3. acc.rows \o r.rows \in Seq(Nat) /\ acc.pages + 1 \in Nat
    BY <1>2, <2>2
  <2>4. (r.next = 0) \in BOOLEAN /\ acc.skipped \cup passed \in SUBSET Nat
    BY <1>2, <2>1
  <2>5. page \in Pagings
    BY <2>2, <2>3, <2>4, Zenon DEF Pagings, passed
  <2>6. /\ page.cursor = r.next /\ page.validity = r.validity /\ page.rows = acc.rows \o r.rows
        /\ page.error = "none" /\ page.done = (r.next = 0)
        /\ page.skipped = acc.skipped \cup passed
    BY Zenon DEF passed
  <2> HIDE DEF page, new
  <2>7. Paged(page, acc, step)
    BY <1>7, <2>1, <2>6, Zenon DEF Paged
  <2> QED BY <1>7, <2>5, <2>7 DEF new
<1>8. CASE ~acc.done /\ r.error = "concurrent_modification" /\ new = over
  <2>1. over \in Pagings
    BY <1>2, <1>8 DEF Pagings
  <2>2. over.done = TRUE /\ over.error = r.error /\ over.rows = acc.rows
    BY DEF Pagings
  <2> HIDE DEF over, new
  <2>3. Ended(over, acc)
    BY <1>8, <2>2 DEF Ended
  <2> QED BY <1>8, <2>1, <2>3 DEF new
<1> HIDE DEF new, page, over
<1> QED BY <1>3, <1>7, <1>8 DEF new

LEMMA PagingTrace ==
  ASSUME NEW steps \in Seq(MailStep), \A k \in 1..Len(steps) : Sound(steps[k]), NEW limit \in Nat
  PROVE  \E g \in [0..Len(steps) -> Pagings] :
           /\ g[0] = StartPaging /\ g[Len(steps)] = Paging(steps, limit)
           /\ \A k \in 1..Len(steps) : g[k] = FollowCursor(g[k - 1], steps[k], limit)
<1> DEFINE n == Len(steps)
           V == Pagings
           base == StartPaging
           F == [p \in (1..n) \X V |-> FollowCursor(p[2], steps[p[1]], limit)]
           Q(x) == x = [s \in SUBSET (DOMAIN steps) |->
                          IF s = {} THEN base ELSE FollowCursor(x[s \ {Max(s)}], steps[Max(s)], limit)]
           it == CHOOSE x : Q(x)
<1>1. n \in Nat /\ DOMAIN steps = 1..n /\ base \in V
  <2>1. <<>> \in Seq(Nat)
    OBVIOUS
  <2> QED BY <2>1 DEF StartPaging, Pagings
<1>2. F \in Steps(n, V)
  <2>1. ASSUME NEW p \in (1..n) \X V PROVE FollowCursor(p[2], steps[p[1]], limit) \in V
    <3>1. p[2] \in V /\ p[1] \in 1..n /\ Sound(steps[p[1]])
      OBVIOUS
    <3> QED BY <3>1, FollowStep
  <2> QED BY <2>1 DEF Steps
<1>3. \A k \in 1..n, v \in V : F[<<k, v>>] = FollowCursor(v, steps[k], limit)
  OBVIOUS
<1> HIDE DEF V, F, n, base
<1>4. \E x : Q(x)
  <2>1. PICK x \in [SUBSET (1..n) -> V] : Solves(x, n, V, base, F)
    BY <1>1, <1>2, FoldExists
  <2>2. ASSUME NEW s \in SUBSET (1..n)
        PROVE  x[s] = IF s = {} THEN base ELSE FollowCursor(x[s \ {Max(s)}], steps[Max(s)], limit)
    <3>1. CASE s = {}
      BY <2>1, <3>1 DEF Solves
    <3>2. CASE s # {}
      <4>1. Max(s) \in 1..n
        BY <1>1, <3>2, MaxIndex
      <4>2. s \ {Max(s)} \in SUBSET (1..n)
        OBVIOUS
      <4> QED BY <1>3, <2>1, <3>2, <4>1, <4>2 DEF Solves
    <3> QED BY <3>1, <3>2
  <2> QED BY <1>1, <2>2
<1>5. Q(it)
  BY <1>4
<1>6. Paging(steps, limit) = it[1..n]
  BY <1>1 DEF Paging, FoldLeft, base, MapThenFoldSet
<1> HIDE DEF it
<1>7. it[{}] = base
  BY <1>1, <1>5
<1>8. ASSUME NEW s \in SUBSET (1..n), s # {}, it[s \ {Max(s)}] \in V
      PROVE  it[s] = F[<<Max(s), it[s \ {Max(s)}]>>]
  <2>1. Max(s) \in 1..n
    BY <1>1, <1>8, MaxIndex
  <2> QED BY <1>1, <1>3, <1>5, <1>8, <2>1
<1>9. PICK g \in Trace(n, V, base, F) : g[n] = it[1..n]
  <2>1. Solves(it, n, V, base, F)
    BY <1>7, <1>8 DEF Solves
  <2> QED BY <1>1, <1>2, <2>1, FoldTrace
<1>10. ASSUME NEW k \in 1..n PROVE g[k] = FollowCursor(g[k - 1], steps[k], limit)
  <2>1. k - 1 \in 0..n
    BY <1>1
  <2> QED BY <1>3, <1>9, <2>1 DEF Trace
<1> QED BY <1>6, <1>9, <1>10 DEF n, V, base, Trace

\* The rows are in order and not below the cursor; a message that stayed through
\* every call is listed, was passed over or is still ahead; a row is of the mailbox the cursor is of.
Stays(u, steps) == \A k \in 1..Len(steps) : u \in steps[k].box.match \ steps[k].gone

PagingInv(acc, steps) ==
  /\ acc \in Pagings /\ Decreasing(acc.rows)
  /\ acc.done => Len(steps) > 0
  /\ ~acc.done => acc.error = "none" /\ \A u \in ToSet(acc.rows) : acc.cursor # 0 /\ u >= acc.cursor
  /\ acc.error = "none" =>
       \A u \in Nat : Stays(u, steps) =>
         u \in ToSet(acc.rows) \cup acc.skipped \/ (~acc.done /\ (acc.cursor = 0 \/ u < acc.cursor))
  /\ acc.error = "none" =>
       \A u \in ToSet(acc.rows) :
         \E k \in 1..Len(steps) : steps[k].box.validity = acc.validity /\ u \in steps[k].box.match

LEMMA PagingStep ==
  ASSUME NEW steps \in Seq(MailStep), NEW i \in 1..Len(steps), NEW acc, NEW new \in Pagings,
         PagingInv(acc, steps), Sound(steps[i]), Paged(new, acc, steps[i])
  PROVE  PagingInv(new, steps)
<1> DEFINE step == steps[i]
<1>1. PICK r, passed :
               /\ PageRight(r, step.box, step.gone, acc.cursor, passed)
               /\ new.cursor = r.next /\ new.validity = step.box.validity
               /\ new.rows = acc.rows \o r.rows /\ new.error = "none"
               /\ new.done <=> r.next = 0
               /\ new.skipped = acc.skipped \cup passed
  BY DEF Paged
<1>2. /\ acc \in Pagings /\ Decreasing(acc.rows) /\ ~acc.done /\ acc.error = "none"
      /\ (acc.cursor # 0 => acc.validity = step.box.validity)
      /\ \A u \in ToSet(acc.rows) : acc.cursor # 0 /\ u >= acc.cursor
  BY DEF PagingInv, Paged
<1>3. acc.rows \in Seq(Nat) /\ r.rows \in Seq(Nat) /\ acc.cursor \in Nat /\ r.next \in Nat
  BY <1>1, <1>2 DEF Pagings, PageRight
<1>4. /\ Decreasing(r.rows)
      /\ \A u \in ToSet(r.rows) : u \in step.box.match /\ (acc.cursor # 0 => u < acc.cursor)
      /\ r.next # 0 => /\ \A u \in ToSet(r.rows) : u >= r.next
                       /\ acc.cursor # 0 => r.next <= acc.cursor
      /\ \A u \in step.box.match \ step.gone : (acc.cursor = 0 \/ u < acc.cursor) =>
           u \in ToSet(r.rows) \cup passed \/ (r.next # 0 /\ u < r.next)
  BY <1>1 DEF PageRight
<1> HIDE DEF step
<1>5. /\ ToSet(new.rows) = ToSet(acc.rows) \cup ToSet(r.rows)
      /\ \A u \in ToSet(new.rows) : u \in Nat
  <2> DEFINE a == acc.rows
             b == r.rows
  <2>1. a \in Seq(Nat) /\ b \in Seq(Nat) /\ new.rows = a \o b
    BY <1>1, <1>3
  <2> HIDE DEF a, b
  <2>2. ToSet(a \o b) = ToSet(a) \cup ToSet(b) /\ ToSet(a) \subseteq Nat /\ ToSet(b) \subseteq Nat
    BY <2>1, JoinedSet
  <2> QED BY <2>1, <2>2 DEF a, b
<1>6. Decreasing(new.rows)
  <2> DEFINE a == acc.rows
             b == r.rows
  <2>1. a \in Seq(Nat) /\ b \in Seq(Nat) /\ new.rows = a \o b /\ Decreasing(a) /\ Decreasing(b)
    BY <1>1, <1>2, <1>3, <1>4
  <2>2. ASSUME NEW u \in ToSet(a), NEW v \in ToSet(b) PROVE u > v
    <3>1. acc.cursor # 0 /\ u >= acc.cursor /\ v < acc.cursor
      BY <1>2, <1>4
    <3>2. u \in Nat /\ v \in Nat
      BY <1>5
    <3> HIDE DEF a, b
    <3> QED BY <1>3, <3>1, <3>2
  <2> HIDE DEF a, b
  <2> QED BY <2>1, <2>2, JoinedDecreasing
<1>7. ASSUME ~new.done, NEW u \in ToSet(new.rows) PROVE new.cursor # 0 /\ u >= new.cursor
  <2>1. r.next # 0 /\ u \in Nat /\ new.cursor = r.next
    BY <1>1, <1>5, <1>7
  <2>2. CASE u \in ToSet(r.rows)
    BY <1>4, <2>1, <2>2
  <2>3. CASE u \in ToSet(acc.rows)
    <3>1. acc.cursor # 0 /\ u >= acc.cursor /\ r.next <= acc.cursor
      BY <1>2, <1>4, <2>1, <2>3
    <3> QED BY <1>3, <2>1, <3>1
  <2> QED BY <1>5, <2>2, <2>3
<1>8. ASSUME NEW u \in Nat, Stays(u, steps)
      PROVE  u \in ToSet(new.rows) \cup new.skipped \/ (~new.done /\ (new.cursor = 0 \/ u < new.cursor))
  <2>1. u \in step.box.match \ step.gone
    BY <1>8 DEF Stays, step
  <2>2. u \in ToSet(acc.rows) \cup acc.skipped \/ acc.cursor = 0 \/ u < acc.cursor
    BY <1>2, <1>8 DEF PagingInv
  <2>3. CASE u \in ToSet(acc.rows) \cup acc.skipped
    BY <1>1, <1>5, <2>3
  <2>4. CASE acc.cursor = 0 \/ u < acc.cursor
    <3>1. u \in ToSet(r.rows) \cup passed \/ (r.next # 0 /\ u < r.next)
      BY <1>4, <2>1, <2>4
    <3> QED BY <1>1, <1>5, <3>1
  <2> QED BY <2>2, <2>3, <2>4
<1>9. ASSUME NEW u \in ToSet(new.rows)
      PROVE  \E k \in 1..Len(steps) : steps[k].box.validity = new.validity /\ u \in steps[k].box.match
  <2>1. CASE u \in ToSet(r.rows)
    BY <1>1, <1>4, <2>1 DEF step
  <2>2. CASE u \in ToSet(acc.rows)
    <3>1. acc.validity = new.validity
      BY <1>1, <1>2, <2>2
    <3> QED BY <1>2, <2>2, <3>1 DEF PagingInv
  <2> QED BY <1>5, <2>1, <2>2
<1>10. Len(steps) > 0
  OBVIOUS
<1> QED BY <1>1, <1>6, <1>7, <1>8, <1>9, <1>10 DEF PagingInv

\* For every mailbox, window, page size and scan limit, whatever is delivered or
\* expunged between the calls and however they fail: a client that follows the
\* cursor gets the messages of one mailbox incarnation in descending order without
\* repetition, and at the end every message that stayed, apart from what was found
\* for a page that was cut down to no row (service.go:SearchMessages).
THEOREM PagingLosesNothing == JobSpec => []MailPagingIsComplete
<1>1. JobInv => MailPagingIsComplete
  <2> SUFFICES ASSUME JobInv, Done("page") PROVE PagingIsComplete(job.case.steps, result.value)
    BY DEF MailPagingIsComplete
  <2> DEFINE steps == job.case.steps
             limit == job.case.limit
             n == Len(steps)
  <2>1. job.case \in MailPageCases /\ result.value = Paging(steps, limit)
    BY DEF JobInv, TakenFrom, Done
  <2>2. /\ limit \in Nat /\ steps \in Seq(MailStep)
        /\ \A k \in DOMAIN steps : steps[k].box.match \subseteq 1..(steps[k].box.next - 1)
    BY <2>1, MailPageCasesAssumption
  <2> HIDE DEF steps, limit
  <2>3. n \in Nat /\ DOMAIN steps = 1..n /\ \A k \in 1..n : Sound(steps[k])
    BY <2>2 DEF Sound
  <2>4. PICK g \in [0..n -> Pagings] :
          /\ g[0] = StartPaging /\ g[n] = Paging(steps, limit)
          /\ \A k \in 1..n : g[k] = FollowCursor(g[k - 1], steps[k], limit)
    BY <2>2, <2>3, PagingTrace
  <2> DEFINE K == {k \in Nat : k <= n => PagingInv(g[k], steps)}
  <2>5. 0 \in K
    <3>1. g[0] \in Pagings
      BY <2>3, <2>4
    <3>2. /\ g[0].cursor = 0 /\ g[0].rows = <<>> /\ g[0].done = FALSE /\ g[0].error = "none"
      BY <2>4 DEF StartPaging
    <3>3. ToSet(g[0].rows) = {} /\ Decreasing(g[0].rows)
      BY <3>2 DEF ToSet, Decreasing
    <3>4. PagingInv(g[0], steps)
      BY <3>1, <3>2, <3>3 DEF PagingInv
    <3> QED BY <3>4
  <2>6. ASSUME NEW k \in Nat, k \in K PROVE k + 1 \in K
    <3> SUFFICES ASSUME k + 1 <= n PROVE PagingInv(g[k + 1], steps)
      OBVIOUS
    <3>1. k <= n /\ k + 1 \in 1..n /\ (k + 1) - 1 = k
      BY <2>3
    <3>2. PagingInv(g[k], steps) /\ g[k + 1] = FollowCursor(g[k], steps[k + 1], limit) /\ Sound(steps[k + 1])
      BY <2>3, <2>4, <2>6, <3>1
    <3> HIDE DEF n
    <3> DEFINE acc == g[k]
               new == g[k + 1]
    <3>3. acc \in Pagings /\ PagingInv(acc, steps)
      BY <3>2 DEF PagingInv
    <3>4. new \in Pagings /\ (new = acc \/ Paged(new, acc, steps[k + 1]) \/ Ended(new, acc))
      BY <2>2, <3>2, <3>3, FollowStep
    <3> HIDE DEF acc, new
    <3>5. CASE new = acc
      BY <3>3, <3>5 DEF new
    <3>6. CASE Paged(new, acc, steps[k + 1])
      BY <2>2, <3>1, <3>2, <3>3, <3>4, <3>6, PagingStep DEF n, new
    <3>7. CASE Ended(new, acc)
      <4>1. /\ new.done /\ new.error = "concurrent_modification" /\ new.rows = acc.rows
            /\ Decreasing(acc.rows) /\ Len(steps) > 0
        BY <2>3, <3>1, <3>3, <3>7 DEF Ended, PagingInv, n
      <4>2. PagingInv(new, steps)
        BY <3>4, <4>1 DEF PagingInv
      <4> QED BY <4>2 DEF new
    <3> QED BY <3>4, <3>5, <3>6, <3>7
  <2>7. Nat \subseteq K
    <3> HIDE DEF K
    <3> QED BY <2>5, <2>6, Induction
  <2>8. PagingInv(g[n], steps)
    <3>1. n \in K
      BY <2>3, <2>7
    <3> QED BY <2>3, <3>1
  <2>9. PagingIsComplete(steps, g[n])
    <3> DEFINE res == g[n]
               stayed == {u \in steps[1].box.match :
                            \A k \in DOMAIN steps : u \in steps[k].box.match \ steps[k].gone}
    <3>1. res \in Pagings /\ res.rows \in Seq(Nat) /\ PagingInv(res, steps)
      BY <2>8 DEF PagingInv, Pagings
    <3> HIDE DEF res
    <3>2. \A x, y \in DOMAIN res.rows : x < y => res.rows[x] > res.rows[y]
      <4> DEFINE q == res.rows
      <4>1. q \in Seq(Nat) /\ Decreasing(q)
        BY <3>1 DEF PagingInv
      <4> HIDE DEF q
      <4>2. \A x, y \in DOMAIN q : x < y => q[x] > q[y]
        BY <4>1 DEF Decreasing
      <4> QED BY <4>2 DEF q
    <3>3. ASSUME res.done, res.error = "none", NEW u \in stayed
           PROVE  u \in ToSet(res.rows) \cup res.skipped
      <4>1. Len(steps) > 0
        BY <3>1, <3>3 DEF PagingInv
      <4>2. 1 \in 1..n /\ steps[1].box.match \subseteq Nat
        <5>1. 1 \in 1..n
          BY <2>3, <4>1
        <5>2. Sound(steps[1])
          BY <2>3, <5>1
        <5> QED BY <5>1, <5>2 DEF Sound, MailStep
      <4>3. u \in Nat /\ Stays(u, steps)
        BY <2>3, <3>3, <4>2 DEF Stays
      <4> QED BY <3>1, <3>3, <4>3 DEF PagingInv
    <3>4. res.error = "none" =>
            \A u \in ToSet(res.rows) :
              \E k \in DOMAIN steps : steps[k].box.validity = res.validity /\ u \in steps[k].box.match
      BY <2>3, <3>1 DEF PagingInv
    <3>5. PagingIsComplete(steps, res)
      BY <3>2, <3>3, <3>4 DEF PagingIsComplete
    <3> QED BY <3>5 DEF res
  <2> QED BY <2>1, <2>4, <2>9 DEF steps, limit
<1> QED BY <1>1, JobInvariance, PTL

-----------------------------------------------------------------------------
(* The contact search. *)

\* Cards that are told apart by their uid.
Distinct(C) == C \subseteq Card /\ \A c, d \in C : c.uid = d.uid => c = d

Sorted(q, S) == Once(q, S) /\ \A i, j \in 1..Len(q) : i < j => Before(q[i], q[j])

\* The order of summaries is strict and total on such cards.
LEMMA BeforeOrders ==
  ASSUME NEW C, Distinct(C)
  PROVE  /\ \A x \in C : ~Before(x, x)
         /\ \A x, y, z \in C : Before(x, y) /\ Before(y, z) => Before(x, z)
         /\ \A x, y \in C : x = y \/ Before(x, y) \/ Before(y, x)
<1>1. \A x \in C : x.key \in Int /\ x.uid \in Int
  BY DEF Distinct, Card
<1>2. \A x, y \in C : x.uid = y.uid => x = y
  BY DEF Distinct
<1> QED BY <1>1, <1>2 DEF Before

\* The sort of summaries.
LEMMA SummariesSort ==
  ASSUME NEW S, Distinct(S), NEW s, Once(s, S)
  PROVE  Sorted(SortSummaries(s), S) /\ Len(SortSummaries(s)) = Len(s)
<1> DEFINE n == Len(s)
           D == 1..n
           R == {p \in D \X D : InFront(s, p[1], p[2])}
           q == SortSummaries(s)
<1>0. /\ n \in Nat /\ DOMAIN s = D /\ \A i \in D : s[i] \in S
      /\ \A x \in S : \E i \in D : s[i] = x
      /\ \A i, j \in D : s[i] = s[j] => i = j
  BY DEF Once
<1>1. \A i, j \in D : <<i, j>> \in R <=> Before(s[i], s[j])
  <2>1. \A i, j \in D : i # j => s[i] # s[j]
    BY <1>0
  <2>2. \A i, j \in D : InFront(s, i, j) <=> Before(s[i], s[j])
    <3> SUFFICES ASSUME NEW i \in D, NEW j \in D PROVE InFront(s, i, j) <=> Before(s[i], s[j])
      OBVIOUS
    <3>1. s[i] \in S /\ s[j] \in S /\ ~Before(s[i], s[i])
      BY <1>0, BeforeOrders
    <3>2. CASE i = j
      BY <3>1, <3>2 DEF InFront
    <3>3. CASE i # j
      BY <2>1, <3>1, <3>3, BeforeOrders DEF InFront
    <3> QED BY <3>2, <3>3
  <2> HIDE DEF D
  <2> QED BY <2>2
<1>2. StrictTotal(R, D)
  <2>1. \A i \in D : <<i, i>> \notin R
    BY <1>0, <1>1, BeforeOrders
  <2>2. ASSUME NEW i \in D, NEW j \in D, NEW k \in D, <<i, j>> \in R, <<j, k>> \in R PROVE <<i, k>> \in R
    <3> HIDE DEF R, D
    <3>1. s[i] \in S /\ s[j] \in S /\ s[k] \in S /\ Before(s[i], s[j]) /\ Before(s[j], s[k])
      BY <1>0, <1>1, <2>2
    <3>2. Before(s[i], s[k])
      BY <3>1, BeforeOrders
    <3> QED BY <1>1, <3>2
  <2>3. ASSUME NEW i \in D, NEW j \in D PROVE i = j \/ <<i, j>> \in R \/ <<j, i>> \in R
    <3> HIDE DEF R, D
    <3>1. s[i] \in S /\ s[j] \in S
      BY <1>0
    <3>2. s[i] = s[j] \/ Before(s[i], s[j]) \/ Before(s[j], s[i])
      BY <3>1, BeforeOrders
    <3> QED BY <1>0, <1>1, <3>2
  <2> HIDE DEF R, D
  <2> QED BY <2>1, <2>2, <2>3 DEF StrictTotal
<1> DEFINE rank(j) == Cardinality({i \in D : InFront(s, i, j)})
<1>3. \A j \in D : rank(j) = Cardinality(Below(j, D, R))
  <2>1. \A j \in D : {i \in D : InFront(s, i, j)} = Below(j, D, R)
    BY DEF Below
  <2> QED BY <2>1
<1>4. /\ \A j \in D : rank(j) \in 0..(n - 1)
      /\ \A i, j \in D : <<i, j>> \in R <=> rank(i) < rank(j)
      /\ \A k \in D : \E j \in D : rank(j) = k - 1
  <2>1. IsFiniteSet(D) /\ Cardinality(D) = n
    BY <1>0, FS_Interval
  <2> HIDE DEF R
  <2>2. /\ \A j \in D : Cardinality(Below(j, D, R)) \in 0..(Cardinality(D) - 1)
        /\ \A i, j \in D : <<i, j>> \in R <=> Cardinality(Below(i, D, R)) < Cardinality(Below(j, D, R))
        /\ \A k \in 1..Cardinality(D) : \E j \in D : Cardinality(Below(j, D, R)) = k - 1
    BY <1>2, <2>1, Ranks
  <2> HIDE DEF n, rank
  <2> QED BY <1>3, <2>1, <2>2
<1> DEFINE f == [k \in D |-> CHOOSE j \in D : rank(j) = k - 1]
<1>5. \A k \in D : f[k] \in D /\ rank(f[k]) = k - 1
  BY <1>4
<1>6. q = [k \in D |-> s[f[k]]]
  BY <1>0 DEF SortSummaries
<1> HIDE DEF f, q, R, rank
<1>7. q \in Seq(S) /\ Len(q) = n
  <2>1. q \in [1..n -> S]
    BY <1>0, <1>5, <1>6
  <2> QED BY <1>0, <2>1, FunctionIsSeq
<1>8. ASSUME NEW x \in S PROVE \E i \in D : q[i] = x
  <2>1. PICK j \in D : s[j] = x
    BY <1>0
  <2> DEFINE r == rank(j)
  <2>2. r \in 0..(n - 1)
    BY <1>4
  <2> HIDE DEF r
  <2>3. r + 1 \in D /\ r = (r + 1) - 1 /\ ~(r < r)
    BY <1>0, <2>2
  <2>4. PICK k \in D : k = r + 1
    BY <2>3
  <2>5. f[k] \in D /\ rank(f[k]) = r
    BY <1>5, <2>3, <2>4
  <2>6. <<f[k], j>> \notin R /\ <<j, f[k]>> \notin R
    <3> HIDE DEF D
    <3> QED BY <1>4, <2>3, <2>5 DEF r
  <2>7. f[k] = j
    BY <1>2, <2>5, <2>6 DEF StrictTotal
  <2> QED BY <1>6, <2>1, <2>7
<1>9. ASSUME NEW i \in D, NEW j \in D, i < j PROVE Before(q[i], q[j])
  <2>1. f[i] \in D /\ f[j] \in D /\ rank(f[i]) < rank(f[j])
    BY <1>0, <1>5, <1>9
  <2>2. Before(s[f[i]], s[f[j]])
    BY <1>1, <1>4, <2>1
  <2> QED BY <1>6, <2>2
<1>10. ASSUME NEW i \in D, NEW j \in D, q[i] = q[j] PROVE i = j
  <2>1. q[i] \in S /\ ~Before(q[i], q[i])
    BY <1>0, <1>5, <1>6, BeforeOrders
  <2>2. ~(i < j) /\ ~(j < i) /\ i \in Int /\ j \in Int
    BY <1>0, <1>9, <1>10, <2>1
  <2> QED BY <2>2
<1> QED BY <1>7, <1>8, <1>9, <1>10 DEF Sorted, Once, q

\* What a prefix is.
LEMMA PrefixIs ==
  ASSUME NEW S, NEW s \in Seq(S), NEW n \in Nat
  PROVE  /\ Prefix(s, n) \in Seq(S) /\ Len(Prefix(s, n)) = Least(n, Len(s))
         /\ \A i \in 1..Least(n, Len(s)) : i \in 1..Len(s) /\ Prefix(s, n)[i] = s[i]
<1> DEFINE m == Least(n, Len(s))
<1>1. m \in Nat /\ m <= Len(s) /\ Len(s) \in Nat
  BY DEF Least
<1>2. Prefix(s, n) = SubSeq(s, 1, m)
  BY DEF Prefix
<1> HIDE DEF m
<1>3. /\ SubSeq(s, 1, m) \in Seq(S) /\ Len(SubSeq(s, 1, m)) = m
      /\ \A i \in 1..m : i \in 1..Len(s) /\ SubSeq(s, 1, m)[i] = s[i]
  BY <1>1
<1> QED BY <1>2, <1>3 DEF m

LEMMA SameSequence ==
  ASSUME NEW S, NEW T, NEW s \in Seq(S), NEW t \in Seq(T), Len(s) = Len(t),
         \A i \in 1..Len(s) : s[i] = t[i]
  PROVE  s = t
<1>1. s = [i \in 1..Len(s) |-> s[i]] /\ t = [i \in 1..Len(t) |-> t[i]]
  OBVIOUS
<1> QED BY <1>1

\* What is sorted into a larger set stands there at least as far behind.
LEMMA LaterInMore ==
  ASSUME NEW A, Distinct(A), NEW U \in SUBSET A, NEW p, Sorted(p, U), NEW q, Sorted(q, A)
  PROVE  \A i \in 1..Len(p), j \in 1..Len(q) : q[j] = p[i] => i <= j
<1> DEFINE lp == Len(p)
           lq == Len(q)
<1>1. /\ lp \in Nat /\ \A i \in 1..lp : p[i] \in U
      /\ \A i, j \in 1..lp : i < j => Before(p[i], p[j])
  <2>1. p \in Seq(U) /\ \A i, j \in 1..lp : i < j => Before(p[i], p[j])
    BY Zenon DEF Sorted, Once
  <2>2. lp \in Nat /\ \A i \in 1..lp : p[i] \in U
    BY <2>1
  <2> QED BY <2>1, <2>2
<1>2. /\ lq \in Nat /\ \A i \in 1..lq : q[i] \in A
      /\ \A x \in A : \E i \in 1..lq : q[i] = x
      /\ \A i, j \in 1..lq : i < j => Before(q[i], q[j])
  BY DEF Sorted, Once
<1> HIDE DEF lp, lq
<1> DEFINE S == {i \in Nat : i \in 1..lp => \A j \in 1..lq : q[j] = p[i] => i <= j}
<1>3. 0 \in S
  OBVIOUS
<1>4. ASSUME NEW i \in Nat, i \in S PROVE i + 1 \in S
  <2> SUFFICES ASSUME i + 1 \in 1..lp, NEW j \in 1..lq, q[j] = p[i + 1] PROVE i + 1 <= j
    OBVIOUS
  <2>1. CASE i = 0
    BY <1>2, <2>1
  <2>2. CASE i # 0
    <3>1. i \in 1..lp /\ i < i + 1
      BY <1>1, <2>2
    <3>2. p[i] \in A /\ Before(p[i], p[i + 1])
      BY <1>1, <3>1
    <3>3. PICK k \in 1..lq : q[k] = p[i]
      BY <1>2, <3>2
    <3>4. i <= k
      BY <1>4, <3>1, <3>3
    <3>5. Before(q[k], q[j]) /\ q[k] \in A /\ q[j] \in A
      BY <1>2, <3>2, <3>3
    <3>6. ~Before(q[j], q[k]) /\ q[j] # q[k]
      BY <3>5, BeforeOrders
    <3>7. ~(j < k) /\ j # k
      BY <1>2, <3>6
    <3> QED BY <1>2, <3>4, <3>7
  <2> QED BY <2>1, <2>2
<1>5. Nat \subseteq S
  <2> HIDE DEF S
  <2> QED BY <1>3, <1>4, Induction
<1>6. \A i \in 1..lp : i \in Nat
  OBVIOUS
<1>7. \A i \in 1..lp, j \in 1..lq : q[j] = p[i] => i <= j
  BY <1>5, <1>6
<1> QED BY <1>7 DEF lp, lq

\* A prefix that is long enough is the whole, and a prefix of a prefix is one.
LEMMA WholePrefix ==
  ASSUME NEW S, NEW s \in Seq(S), NEW n \in Nat, Len(s) <= n
  PROVE  Prefix(s, n) = s
<1>1. Least(n, Len(s)) = Len(s)
  BY DEF Least
<1>2. /\ Prefix(s, n) \in Seq(S) /\ Len(Prefix(s, n)) = Len(s)
      /\ \A i \in 1..Len(s) : Prefix(s, n)[i] = s[i]
  BY <1>1, PrefixIs
<1> QED BY <1>2, SameSequence

LEMMA PrefixOfPrefix ==
  ASSUME NEW S, NEW s \in Seq(S), NEW m \in Nat, NEW n \in Nat
  PROVE  Prefix(Prefix(s, m), n) = Prefix(s, Least(n, m)) /\ Least(n, m) \in Nat
<1> DEFINE l == Len(s)
           t == Prefix(s, m)
           k == Least(n, m)
<1>1. l \in Nat /\ k \in Nat /\ Least(n, Least(m, l)) = Least(k, l)
  BY DEF Least
<1>2. /\ t \in Seq(S) /\ Len(t) = Least(m, l)
      /\ \A i \in 1..Least(m, l) : t[i] = s[i]
  BY PrefixIs
<1> HIDE DEF t, k
<1>3. /\ Prefix(t, n) \in Seq(S) /\ Len(Prefix(t, n)) = Least(k, l)
      /\ \A i \in 1..Least(k, l) : i \in 1..Least(m, l) /\ Prefix(t, n)[i] = t[i]
  <2>1. Least(n, Len(t)) = Least(k, l) /\ Len(t) = Least(m, l)
    BY <1>1, <1>2 DEF k
  <2>2. /\ Prefix(t, n) \in Seq(S) /\ Len(Prefix(t, n)) = Least(n, Len(t))
        /\ \A i \in 1..Least(n, Len(t)) : i \in 1..Len(t) /\ Prefix(t, n)[i] = t[i]
    BY <1>2, PrefixIs
  <2> QED BY <2>1, <2>2
<1>4. /\ Prefix(s, k) \in Seq(S) /\ Len(Prefix(s, k)) = Least(k, l)
      /\ \A i \in 1..Least(k, l) : Prefix(s, k)[i] = s[i]
  BY <1>1, PrefixIs
<1>5. \A i \in 1..Least(k, l) : Prefix(t, n)[i] = Prefix(s, k)[i]
  BY <1>2, <1>3, <1>4
<1>6. Prefix(t, n) = Prefix(s, k)
  BY <1>3, <1>4, <1>5, SameSequence
<1> QED BY <1>1, <1>6 DEF t, k

\* The bytes of a response, summed up row by row.
LEMMA BytesTrace ==
  ASSUME NEW rows \in Seq(Card)
  PROVE  \E g \in [0..Len(rows) -> Int] :
           /\ g[0] = 0 /\ g[Len(rows)] = Bytes(rows)
           /\ \A k \in 1..Len(rows) : g[k] = g[k - 1] + rows[k].size
<1> DEFINE n == Len(rows)
           V == Int
           base == 0
           F == [p \in (1..n) \X V |-> p[2] + rows[p[1]].size]
           Q(x) == x = [s \in SUBSET (DOMAIN rows) |->
                          IF s = {} THEN base ELSE x[s \ {Max(s)}] + rows[Max(s)].size]
           it == CHOOSE x : Q(x)
<1>1. n \in Nat /\ DOMAIN rows = 1..n /\ base \in V
  OBVIOUS
<1>2. F \in Steps(n, V)
  <2>1. ASSUME NEW p \in (1..n) \X V PROVE p[2] + rows[p[1]].size \in V
    <3>1. p[1] \in 1..n /\ p[2] \in Int
      OBVIOUS
    <3>2. rows[p[1]] \in Card
      BY <3>1
    <3>3. rows[p[1]].size \in Int
      BY <3>2 DEF Card
    <3> QED BY <3>1, <3>3
  <2> QED BY <2>1 DEF Steps
<1>3. \A k \in 1..n, v \in V : F[<<k, v>>] = v + rows[k].size
  OBVIOUS
<1> HIDE DEF V, F, n, base
<1>4. \E x : Q(x)
  <2>1. PICK x \in [SUBSET (1..n) -> V] : Solves(x, n, V, base, F)
    BY <1>1, <1>2, FoldExists
  <2>2. ASSUME NEW s \in SUBSET (1..n)
        PROVE  x[s] = IF s = {} THEN base ELSE x[s \ {Max(s)}] + rows[Max(s)].size
    <3>1. CASE s = {}
      BY <2>1, <3>1 DEF Solves
    <3>2. CASE s # {}
      <4>1. Max(s) \in 1..n
        BY <1>1, <3>2, MaxIndex
      <4>2. s \ {Max(s)} \in SUBSET (1..n)
        OBVIOUS
      <4> QED BY <1>3, <2>1, <3>2, <4>1, <4>2 DEF Solves
    <3> QED BY <3>1, <3>2
  <2> QED BY <1>1, <2>2
<1>5. Q(it)
  BY <1>4
<1>6. Bytes(rows) = it[1..n]
  BY <1>1 DEF Bytes, FoldLeft, base, MapThenFoldSet
<1> HIDE DEF it
<1>7. it[{}] = base
  BY <1>1, <1>5
<1>8. ASSUME NEW s \in SUBSET (1..n), s # {}, it[s \ {Max(s)}] \in V
      PROVE  it[s] = F[<<Max(s), it[s \ {Max(s)}]>>]
  <2>1. Max(s) \in 1..n
    BY <1>1, <1>8, MaxIndex
  <2> QED BY <1>1, <1>3, <1>5, <1>8, <2>1
<1>9. PICK g \in Trace(n, V, base, F) : g[n] = it[1..n]
  <2>1. Solves(it, n, V, base, F)
    BY <1>7, <1>8 DEF Solves
  <2> QED BY <1>1, <1>2, <2>1, FoldTrace
<1>10. ASSUME NEW k \in 1..n PROVE g[k] = g[k - 1] + rows[k].size
  <2>1. k - 1 \in 0..n
    BY <1>1
  <2> QED BY <1>3, <1>9, <2>1 DEF Trace
<1> QED BY <1>6, <1>9, <1>10 DEF n, V, base, Trace

\* What is kept of one more card.
Kept(out, c, K) == IF c \in K THEN Append(out, c) ELSE out

\* The cards of a set, found one after the other.
LEMMA KeepTrace ==
  ASSUME NEW cards \in Seq(Card), NEW K
  PROVE  \E g \in [0..Len(cards) -> Seq(Card)] :
           /\ g[0] = <<>> /\ g[Len(cards)] = Keep(cards, K)
           /\ \A k \in 1..Len(cards) : g[k] = Kept(g[k - 1], cards[k], K)
<1> DEFINE n == Len(cards)
           V == Seq(Card)
           base == <<>>
           F == [p \in (1..n) \X V |-> Kept(p[2], cards[p[1]], K)]
           Q(x) == x = [s \in SUBSET (DOMAIN cards) |->
                          IF s = {} THEN base ELSE Kept(x[s \ {Max(s)}], cards[Max(s)], K)]
           it == CHOOSE x : Q(x)
<1>1. n \in Nat /\ DOMAIN cards = 1..n /\ base \in V
  OBVIOUS
<1>2. F \in Steps(n, V)
  <2>1. ASSUME NEW p \in (1..n) \X V PROVE Kept(p[2], cards[p[1]], K) \in V
    BY DEF Kept
  <2> QED BY <2>1 DEF Steps
<1>3. \A k \in 1..n, v \in V : F[<<k, v>>] = Kept(v, cards[k], K)
  OBVIOUS
<1> HIDE DEF V, F, n, base
<1>4. \E x : Q(x)
  <2>1. PICK x \in [SUBSET (1..n) -> V] : Solves(x, n, V, base, F)
    BY <1>1, <1>2, FoldExists
  <2>2. ASSUME NEW s \in SUBSET (1..n)
        PROVE  x[s] = IF s = {} THEN base ELSE Kept(x[s \ {Max(s)}], cards[Max(s)], K)
    <3>1. CASE s = {}
      BY <2>1, <3>1 DEF Solves
    <3>2. CASE s # {}
      <4>1. Max(s) \in 1..n
        BY <1>1, <3>2, MaxIndex
      <4>2. s \ {Max(s)} \in SUBSET (1..n)
        OBVIOUS
      <4> QED BY <1>3, <2>1, <3>2, <4>1, <4>2 DEF Solves
    <3> QED BY <3>1, <3>2
  <2> QED BY <1>1, <2>2
<1>5. Q(it)
  BY <1>4
<1>6. Keep(cards, K) = it[1..n]
  BY <1>1 DEF Keep, Kept, FoldLeft, base, MapThenFoldSet
<1> HIDE DEF it
<1>7. it[{}] = base
  BY <1>1, <1>5
<1>8. ASSUME NEW s \in SUBSET (1..n), s # {}, it[s \ {Max(s)}] \in V
      PROVE  it[s] = F[<<Max(s), it[s \ {Max(s)}]>>]
  <2>1. Max(s) \in 1..n
    BY <1>1, <1>8, MaxIndex
  <2> QED BY <1>1, <1>3, <1>5, <1>8, <2>1
<1>9. PICK g \in Trace(n, V, base, F) : g[n] = it[1..n]
  <2>1. Solves(it, n, V, base, F)
    BY <1>7, <1>8 DEF Solves
  <2> QED BY <1>1, <1>2, <2>1, FoldTrace
<1>10. ASSUME NEW k \in 1..n PROVE g[k] = Kept(g[k - 1], cards[k], K)
  <2>1. k - 1 \in 0..n
    BY <1>1
  <2> QED BY <1>3, <1>9, <2>1 DEF Trace
<1> QED BY <1>6, <1>9, <1>10 DEF n, V, base, Trace

\* Those cards are kept, each once.
LEMMA KeepOnce ==
  ASSUME NEW C \in SUBSET Card, NEW cards, Once(cards, C), NEW K
  PROVE  Once(Keep(cards, K), C \cap K)
<1> DEFINE n == Len(cards)
           M(k) == {cards[i] : i \in {j \in 1..k : cards[j] \in K}}
<1>1. /\ n \in Nat /\ cards \in Seq(Card) /\ \A i \in 1..n : cards[i] \in C
      /\ \A x \in C : \E i \in 1..n : cards[i] = x
      /\ \A i, j \in 1..n : cards[i] = cards[j] => i = j
  <2>1. cards \in [1..n -> C] /\ n \in Nat
    BY DEF Once
  <2>2. cards \in [1..n -> Card]
    BY <2>1
  <2> QED BY <2>1, <2>2, FunctionIsSeq DEF Once
<1> HIDE DEF n
<1>2. PICK g \in [0..n -> Seq(Card)] :
        /\ g[0] = <<>> /\ g[n] = Keep(cards, K)
        /\ \A k \in 1..n : g[k] = Kept(g[k - 1], cards[k], K)
  BY <1>1, KeepTrace DEF n
<1> DEFINE S == {k \in Nat : k <= n => Once(g[k], M(k))}
<1>3. 0 \in S
  <2>1. M(0) = {} /\ g[0] = <<>>
    BY <1>2
  <2>2. Once(<<>>, {})
    BY DEF Once
  <2> QED BY <2>1, <2>2
<1>4. ASSUME NEW k \in Nat, k \in S PROVE k + 1 \in S
  <2> SUFFICES ASSUME k + 1 <= n PROVE Once(g[k + 1], M(k + 1))
    OBVIOUS
  <2>1. Once(g[k], M(k)) /\ k + 1 \in 1..n /\ k <= n
    BY <1>1, <1>4
  <2>2. g[k + 1] = Kept(g[k], cards[k + 1], K)
    <3>1. (k + 1) - 1 = k
      OBVIOUS
    <3> QED BY <1>2, <2>1, <3>1
  <2>3. \A j \in 1..(k + 1) : j \in 1..k \/ j = k + 1
    OBVIOUS
  <2>4. CASE ~cards[k + 1] \in K
    <3>1. M(k + 1) = M(k)
      BY <2>3, <2>4
    <3> QED BY <2>1, <2>2, <2>4, <3>1 DEF Kept
  <2>5. CASE cards[k + 1] \in K
    <3> DEFINE c == cards[k + 1]
    <3>1. M(k + 1) = M(k) \cup {c}
      BY <2>3, <2>5
    <3>2. c \notin M(k)
      BY <1>1, <2>1
    <3>3. g[k + 1] = Append(g[k], c)
      BY <2>2, <2>5 DEF Kept
    <3>4. g[k] \in Seq(M(k))
      BY <2>1 DEF Once
    <3>5. Append(g[k], c) = g[k] \o <<c>>
      <4> HIDE DEF c, M
      <4> QED BY <3>4
    <3>6. Once(<<c>>, {c})
      BY DEF Once
    <3> HIDE DEF c, M
    <3>7. Once(g[k] \o <<c>>, M(k) \cup {c})
      BY <2>1, <3>2, <3>6, JoinedLists
    <3> QED BY <3>1, <3>3, <3>5, <3>7
  <2> QED BY <2>4, <2>5
<1>5. Nat \subseteq S
  <2> HIDE DEF S
  <2> QED BY <1>3, <1>4, Induction
<1>6. Once(g[n], M(n))
  <2>1. n \in S
    BY <1>1, <1>5
  <2> HIDE DEF M
  <2> QED BY <1>1, <2>1
<1>7. M(n) = C \cap K
  <2>1. ASSUME NEW c \in M(n) PROVE c \in C /\ c \in K
    BY <1>1
  <2>2. ASSUME NEW c \in C, c \in K PROVE c \in M(n)
    <3>1. PICK i \in 1..n : cards[i] = c
      BY <1>1
    <3> QED BY <2>2, <3>1
  <2> HIDE DEF M
  <2> QED BY <2>1, <2>2
<1> QED BY <1>2, <1>6, <1>7

\* If they are all in the set, nothing changes.
LEMMA KeepAll ==
  ASSUME NEW cards \in Seq(Card), NEW K, \A i \in 1..Len(cards) : cards[i] \in K
  PROVE  Keep(cards, K) = cards
<1> DEFINE n == Len(cards)
<1>1. PICK g \in [0..n -> Seq(Card)] :
        /\ g[0] = <<>> /\ g[n] = Keep(cards, K)
        /\ \A k \in 1..n : g[k] = Kept(g[k - 1], cards[k], K)
  BY KeepTrace
<1>2. n \in Nat /\ \A i \in 1..n : cards[i] \in K
  OBVIOUS
<1> HIDE DEF n
<1> DEFINE S == {k \in Nat : k <= n => Len(g[k]) = k /\ \A i \in 1..k : g[k][i] = cards[i]}
<1>3. 0 \in S
  BY <1>1
<1>4. ASSUME NEW k \in Nat, k \in S PROVE k + 1 \in S
  <2> SUFFICES ASSUME k + 1 <= n
               PROVE  Len(g[k + 1]) = k + 1 /\ \A i \in 1..(k + 1) : g[k + 1][i] = cards[i]
    OBVIOUS
  <2>1. k \in 0..n /\ k + 1 \in 1..n /\ (k + 1) - 1 = k
    BY <1>2
  <2>2. g[k] \in Seq(Card) /\ Len(g[k]) = k /\ \A i \in 1..k : g[k][i] = cards[i]
    BY <1>1, <1>2, <1>4, <2>1
  <2>3. g[k + 1] = Append(g[k], cards[k + 1])
    BY <1>1, <1>2, <2>1 DEF Kept
  <2> DEFINE old == g[k]
             new == g[k + 1]
             c == cards[k + 1]
  <2>4. /\ new = Append(old, c) /\ Len(old) = k /\ \E T : old \in Seq(T)
        /\ \A i \in 1..k : old[i] = cards[i]
    BY <2>2, <2>3
  <2> HIDE DEF old, new, c
  <2>5. Len(new) = k + 1 /\ new[k + 1] = c /\ \A i \in 1..k : new[i] = old[i]
    BY <2>4
  <2> QED BY <2>4, <2>5 DEF new, c
<1>5. Nat \subseteq S
  <2> HIDE DEF S
  <2> QED BY <1>3, <1>4, Induction
<1>6. n \in S /\ n \in 0..n
  BY <1>2, <1>5
<1>7. g[n] \in Seq(Card) /\ Len(g[n]) = Len(cards) /\ \A i \in 1..Len(g[n]) : g[n][i] = cards[i]
  BY <1>1, <1>6 DEF n
<1> QED BY <1>1, <1>7, SameSequence

\* A list of cards, each once, is a sequence of cards, and their set is the set.
LEMMA OnceIs ==
  ASSUME NEW C \in SUBSET Card, NEW cards, Once(cards, C)
  PROVE  /\ cards \in Seq(C) /\ cards \in Seq(Card) /\ ToSet(cards) = C
         /\ \A i \in 1..Len(cards) : cards[i] \in C
<1>1. /\ cards \in [1..Len(cards) -> C] /\ Len(cards) \in Nat
      /\ \A x \in C : \E i \in 1..Len(cards) : cards[i] = x
  BY DEF Once
<1>2. cards \in [1..Len(cards) -> Card]
  BY <1>1
<1>3. ToSet(cards) = C
  BY <1>1 DEF ToSet
<1>4. cards \in Seq(C) /\ cards \in Seq(Card)
  BY <1>1, <1>2, FunctionIsSeq
<1> QED BY <1>1, <1>3, <1>4

\* The matches are kept, and the rows with data, each once.
LEMMA FiltersOnce ==
  ASSUME NEW C \in SUBSET Card, NEW cards, Once(cards, C)
  PROVE  /\ Once(Matches(cards), {c \in C : c.match})
         /\ Once(WithData(cards), {c \in C : c.data})
         /\ (\A c \in C : c.data) => WithData(cards) = cards
<1> DEFINE M == {c \in C : c.match}
           D == {c \in C : c.data}
<1>1. ToSet(cards) = C /\ cards \in Seq(Card) /\ \A i \in 1..Len(cards) : cards[i] \in C
  BY OnceIs
<1>2. Matches(cards) = Keep(cards, M) /\ WithData(cards) = Keep(cards, D)
  BY <1>1 DEF Matches, WithData
<1>3. C \cap M = M /\ C \cap D = D
  OBVIOUS
<1>4. Once(Keep(cards, C \cap M), C \cap M) /\ Once(Keep(cards, C \cap D), C \cap D)
  <2>1. C \cap (C \cap M) = C \cap M /\ C \cap (C \cap D) = C \cap D
    OBVIOUS
  <2> HIDE DEF M, D
  <2>2. Once(Keep(cards, C \cap M), C \cap (C \cap M)) /\ Once(Keep(cards, C \cap D), C \cap (C \cap D))
    BY KeepOnce
  <2> QED BY <2>1, <2>2
<1>5. ASSUME \A c \in C : c.data PROVE Keep(cards, D) = cards
  <2>1. \A i \in 1..Len(cards) : cards[i] \in D
    BY <1>1, <1>5
  <2> HIDE DEF D
  <2> QED BY <1>1, <2>1, KeepAll
<1> HIDE DEF M, D
<1> QED BY <1>2, <1>3, <1>4, <1>5 DEF M, D

\* The state of a scan over books.
BookScans == [error : BOOLEAN, done : BOOLEAN, scanLimit : BOOLEAN, matches : Seq(Card),
              cards : Nat, bytes : Int]

\* A part of a list has each of its elements once.
LEMMA PrefixOnce ==
  ASSUME NEW S, NEW s, Once(s, S), NEW n \in Nat
  PROVE  \E T \in SUBSET S : Once(Prefix(s, n), T) /\ (Len(s) <= n => T = S)
<1> DEFINE t == Prefix(s, n)
           m == Least(n, Len(s))
           T == {t[i] : i \in 1..m}
<1>1. s \in Seq(S) /\ Len(s) \in Nat /\ m \in Nat
  BY DEF Once, Least
<1>2. t \in Seq(S) /\ Len(t) = m /\ \A i \in 1..m : i \in 1..Len(s) /\ t[i] = s[i]
  BY <1>1, PrefixIs
<1> HIDE DEF t, m
<1>3. T \in SUBSET S
  <2>1. \A i \in 1..m : s[i] \in S
    BY <1>1, <1>2
  <2> QED BY <1>2, <2>1
<1>4. t \in Seq(T)
  <2>1. t = [i \in 1..m |-> t[i]]
    BY <1>2
  <2>2. t \in [1..m -> T]
    BY <2>1
  <2> HIDE DEF T
  <2> QED BY <1>1, <2>2, FunctionIsSeq
<1>5. ASSUME NEW i \in 1..m, NEW j \in 1..m, t[i] = t[j] PROVE i = j
  BY <1>2, <1>5 DEF Once
<1>6. ASSUME Len(s) <= n PROVE T = S
  <2>1. t = s
    BY <1>1, <1>6, WholePrefix DEF t
  <2>2. m = Len(s)
    BY <1>2, <2>1
  <2> QED BY <1>3, <2>1, <2>2 DEF Once
<1>7. \A x \in T : \E i \in 1..m : t[i] = x
  OBVIOUS
<1> HIDE DEF T
<1>8. Once(t, T)
  BY <1>2, <1>4, <1>5, <1>7 DEF Once
<1> QED BY <1>3, <1>6, <1>8 DEF t

\* What the scan takes of a report are cards that the server has shown, and all of
\* them for a book shown whole unless there is a sign that there are more.
LEMMA BookReport ==
  ASSUME NEW book, NEW C \in SUBSET Card, Once(book.rows, C), NEW cards \in Nat, NEW bytes, NEW honours
  PROVE  LET r == Report(book, RequestLimit(cards), bytes, honours)
             complete == Least(Len(r.objects), cards)
         IN  /\ r.used \in Int /\ complete \in Nat /\ complete <= cards
             /\ \E D \in SUBSET CardsShown(book) :
                  /\ Once(Prefix(r.objects, complete), D)
                  /\ ShownWhole(book) /\ ~(Len(r.objects) > complete) => D = CardsShown(book)
<1> DEFINE r == Report(book, RequestLimit(cards), bytes, honours)
           n == cards + 1
           all == book.rows
           rows == ServerRows(all, n, honours)
           sent == IF book.multi THEN rows ELSE <<>>
           head == Prefix(sent, n)
           objects == WithData(head)
           complete == Least(Len(objects), cards)
<1>1. RequestLimit(cards) = n /\ n \in Nat /\ Least(n, n) = n
  BY DEF RequestLimit, Least
<1>2. r.used = Bytes(rows) /\ r.objects = objects
  <2>1. r = [error |-> Bytes(rows) > bytes, used |-> Bytes(rows),
             objects |-> WithData(DecodeMultiStatus(sent, n).objects), overflow |-> DecodeMultiStatus(sent, n).overflow]
    BY <1>1 DEF Report
  <2>2. DecodeMultiStatus(sent, n).objects = head
    BY DEF DecodeMultiStatus
  <2> HIDE DEF r, rows, sent, head, n
  <2> QED BY <2>1, <2>2
<1>3. /\ all \in Seq(C) /\ all \in Seq(Card) /\ ToSet(all) = C /\ Len(all) \in Nat
      /\ \A i \in 1..Len(all) : all[i] \in C
  <2>1. Once(all, C)
    OBVIOUS
  <2> HIDE DEF all
  <2>2. all \in Seq(C) /\ all \in Seq(Card) /\ ToSet(all) = C /\ \A i \in 1..Len(all) : all[i] \in C
    BY <2>1, OnceIs
  <2> QED BY <2>2
<1>4. rows = Prefix(all, n) \/ rows = all
  BY DEF ServerRows
<1> HIDE DEF r, rows, all, n
<1>5. rows \in Seq(Card)
  <2>1. Prefix(all, n) \in Seq(Card)
    BY <1>1, <1>3, PrefixIs
  <2> QED BY <1>3, <1>4, <2>1
<1>6. Bytes(rows) \in Int
  <2>1. PICK g \in [0..Len(rows) -> Int] : g[Len(rows)] = Bytes(rows)
    BY <1>5, BytesTrace
  <2>2. Len(rows) \in 0..Len(rows)
    BY <1>5
  <2> QED BY <2>1, <2>2
<1>7. PICK E \in SUBSET C :
        /\ Once(head, E) /\ (~book.multi => E = {})
        /\ book.multi => Len(head) = Least(n, Len(all)) /\ (Len(all) <= n => E = C)
  <2>1. CASE book.multi
    <3>1. head = Prefix(all, n)
      <4>1. Prefix(Prefix(all, n), n) = Prefix(all, n)
        BY <1>1, <1>3, PrefixOfPrefix
      <4> QED BY <1>4, <2>1, <4>1
    <3>2. Len(Prefix(all, n)) = Least(n, Len(all))
      BY <1>1, <1>3, PrefixIs
    <3>3. \E T \in SUBSET C : Once(Prefix(all, n), T) /\ (Len(all) <= n => T = C)
      <4>1. Once(all, C)
        BY DEF all
      <4> QED BY <1>1, <4>1, PrefixOnce
    <3> HIDE DEF head
    <3> QED BY <2>1, <3>1, <3>2, <3>3
  <2>2. CASE ~book.multi
    <3>1. sent = <<>> /\ <<>> \in Seq(Card) /\ Len(<<>>) = 0
      BY <2>2
    <3>2. head = <<>>
      <4> HIDE DEF sent
      <4>1. sent \in Seq(Card) /\ Len(sent) = 0
        BY <3>1
      <4>2. Len(sent) <= n
        BY <1>1, <4>1
      <4>3. Prefix(sent, n) = sent
        BY <1>1, <4>1, <4>2, WholePrefix
      <4> QED BY <3>1, <4>3
    <3>3. Once(<<>>, {})
      BY DEF Once
    <3> HIDE DEF head
    <3> QED BY <2>2, <3>2, <3>3
  <2> QED BY <2>1, <2>2
<1> HIDE DEF head
<1> DEFINE F == {c \in E : c.data}
<1>8. Once(objects, F) /\ ((\A c \in E : c.data) => objects = head)
  BY <1>7, FiltersOnce
<1> HIDE DEF objects, F
<1>9. Len(objects) \in Nat /\ complete \in Nat /\ complete <= cards
  <2>1. Len(objects) \in Nat
    BY <1>8 DEF Once
  <2> QED BY <2>1 DEF Least
<1> HIDE DEF complete
<1>10. ~(Len(objects) > complete) => Len(objects) <= complete
  BY <1>9
<1>11. PICK D \in SUBSET F : Once(Prefix(objects, complete), D) /\ (Len(objects) <= complete => D = F)
  <2>1. Once(objects, F) /\ complete \in Nat
    BY <1>8, <1>9
  <2> QED BY <2>1, PrefixOnce
<1>12. F \subseteq CardsShown(book) /\ (book.multi => CardsShown(book) = {c \in C : c.data})
  BY <1>3, <1>7 DEF F, CardsShown, all
<1>13. ASSUME ShownWhole(book), ~(Len(objects) > complete) PROVE D = CardsShown(book)
  <2>1. book.multi /\ \A c \in C : c.data
    BY <1>3, <1>13 DEF ShownWhole, all
  <2>2. objects = head
    BY <1>8, <2>1
  <2>3. Len(objects) <= cards /\ Len(objects) = Least(n, Len(all))
    BY <1>7, <1>9, <1>10, <1>13, <2>1, <2>2
  <2>4. Len(all) <= n
    BY <1>3, <2>3 DEF n, Least
  <2>5. E = C
    BY <1>7, <2>1, <2>4
  <2> QED BY <1>10, <1>11, <1>12, <1>13, <2>1, <2>5 DEF F
<1>14. \E T \in SUBSET CardsShown(book) :
         /\ Once(Prefix(objects, complete), T)
         /\ ShownWhole(book) /\ ~(Len(objects) > complete) => T = CardsShown(book)
  BY <1>11, <1>12, <1>13
<1> QED BY <1>2, <1>6, <1>9, <1>14 DEF complete, r

\* One round of the scan takes a list of cards.
Round(new, acc, list, more, cards, bytes) ==
  new = [error |-> FALSE, done |-> more, scanLimit |-> more,
         matches |-> acc.matches \o Matches(list),
         cards |-> acc.cards - cards, bytes |-> bytes]

Ends(new, acc) ==
  \/ new = [acc EXCEPT !.scanLimit = TRUE, !.done = TRUE]
  \/ new = [acc EXCEPT !.error = TRUE, !.done = TRUE]

\* Of the cards shown of a book D are taken, and all of them for a book shown
\* whole unless there are more.
Takes(list, D, book, more) ==
  D \in SUBSET CardsShown(book) /\ Once(list, D) /\ (ShownWhole(book) /\ ~more => D = CardsShown(book))

ScanCases(new, acc, book) ==
  \/ acc.done /\ new = acc
  \/ ~acc.done /\ Ends(new, acc)
  \/ \E list, D : \E more \in BOOLEAN, cards \in Nat, bytes \in Int :
       /\ ~acc.done /\ Round(new, acc, list, more, cards, bytes)
       /\ cards <= acc.cards /\ Takes(list, D, book, more)

LEMMA BookScanCases ==
  ASSUME NEW acc \in BookScans, NEW book, NEW C \in SUBSET Card, Once(book.rows, C), NEW isLast, NEW honours
  PROVE  ScanCases(ScanBook(acc, book, isLast, honours), acc, book)
<1> DEFINE new == ScanBook(acc, book, isLast, honours)
           r == Report(book, RequestLimit(acc.cards), acc.bytes, honours)
           complete == Least(Len(r.objects), acc.cards)
           more == \/ r.overflow
                   \/ Len(r.objects) > complete
                   \/ acc.cards = complete /\ ~isLast
           list == Prefix(r.objects, complete)
           next == [error |-> FALSE, done |-> more, scanLimit |-> more,
                    matches |-> acc.matches \o Matches(list),
                    cards |-> acc.cards - complete, bytes |-> acc.bytes - r.used]
<1>1. acc.cards \in Nat /\ acc.bytes \in Int
  BY DEF BookScans
<1>2. /\ r.used \in Int /\ complete \in Nat /\ complete <= acc.cards
      /\ \E D \in SUBSET CardsShown(book) :
           /\ Once(list, D)
           /\ ShownWhole(book) /\ ~(Len(r.objects) > complete) => D = CardsShown(book)
  BY <1>1, BookReport
<1>3. (acc.done /\ new = acc) \/ (~acc.done /\ Ends(new, acc)) \/ (~acc.done /\ new = next)
  <2> HIDE DEF r
  <2> QED BY DEF ScanBook, Ends, r
<1>4. acc.bytes - r.used \in Int /\ more \in BOOLEAN
  <2>1. more \in BOOLEAN
    BY Zenon
  <2> QED BY <1>1, <1>2, <2>1
<1>5. \E D : Takes(list, D, book, more)
  BY <1>2 DEF Takes
<1> HIDE DEF r, complete, more, next, new, list
<1>6. ASSUME ~acc.done, new = next
      PROVE  \E l, D : \E m \in BOOLEAN, cards \in Nat, bytes \in Int :
               /\ ~acc.done /\ Round(new, acc, l, m, cards, bytes)
               /\ cards <= acc.cards /\ Takes(l, D, book, m)
  <2>1. Round(new, acc, list, more, complete, acc.bytes - r.used)
    BY <1>6, Zenon DEF Round, next
  <2> QED BY <1>2, <1>4, <1>5, <1>6, <2>1
<1>7. ScanCases(new, acc, book)
  BY <1>3, <1>6 DEF ScanCases
<1> QED BY <1>7 DEF new

\* The cards of a book that are shown are cards.
LEMMA ShownCards ==
  ASSUME NEW book, NEW C \in SUBSET Card, Once(book.rows, C)
  PROVE  CardsShown(book) \in SUBSET Card
<1>1. ToSet(book.rows) = C
  BY OnceIs
<1> QED BY <1>1 DEF CardsShown

LEMMA BookScanType ==
  ASSUME NEW acc \in BookScans, NEW book, NEW C \in SUBSET Card, Once(book.rows, C), NEW isLast, NEW honours
  PROVE  ScanBook(acc, book, isLast, honours) \in BookScans
<1> DEFINE new == ScanBook(acc, book, isLast, honours)
<1>1. ASSUME new = acc PROVE new \in BookScans
  BY <1>1
<1>2. ASSUME Ends(new, acc) PROVE new \in BookScans
  <2> DEFINE a == [acc EXCEPT !.scanLimit = TRUE, !.done = TRUE]
             b == [acc EXCEPT !.error = TRUE, !.done = TRUE]
  <2>1. a \in BookScans /\ b \in BookScans
    BY DEF BookScans
  <2>2. new = a \/ new = b
    <3> HIDE DEF new
    <3> QED BY <1>2 DEF Ends
  <2> HIDE DEF a, b
  <2> QED BY <2>1, <2>2
<1>3. ASSUME NEW list, NEW D, NEW more \in BOOLEAN, NEW cards \in Nat, NEW bytes \in Int, cards <= acc.cards,
             Round(new, acc, list, more, cards, bytes), Takes(list, D, book, more)
      PROVE  new \in BookScans
  <2>1. acc.matches \in Seq(Card) /\ acc.cards \in Nat
    BY DEF BookScans
  <2>2. D \in SUBSET Card /\ Once(list, D)
    BY <1>3, ShownCards DEF Takes
  <2>3. Matches(list) \in Seq(Card)
    <3>1. Once(Matches(list), {c \in D : c.match}) /\ {c \in D : c.match} \in SUBSET Card
      BY <2>2, FiltersOnce
    <3> QED BY <3>1, OnceIs
  <2>4. acc.matches \o Matches(list) \in Seq(Card) /\ acc.cards - cards \in Nat
    BY <1>3, <2>1, <2>3
  <2> HIDE DEF new
  <2> QED BY <1>3, <2>4, Zenon DEF Round, BookScans
<1>4. ScanCases(new, acc, book)
  BY BookScanCases
<1> HIDE DEF new
<1>5. new \in BookScans
  BY <1>1, <1>2, <1>3, <1>4 DEF ScanCases
<1> QED BY <1>5 DEF new

\* Books in which no card is listed twice.
SoundBooks(books) ==
  /\ books \in Seq(Book)
  /\ \A i, j \in 1..Len(books) : \A x \in 1..Len(books[i].rows), y \in 1..Len(books[j].rows) :
       books[i].rows[x].uid = books[j].rows[y].uid => i = j /\ x = y

CardsOf(book) == {book.rows[x] : x \in 1..Len(book.rows)}

\* The matches that are shown in the first k books, and those in the books among
\* them that are shown whole.
MatchesOf(book) == {c \in CardsShown(book) : c.match}
WholeOf(book) == IF ShownWhole(book) THEN MatchesOf(book) ELSE {}
MatchesIn(books, k) == UNION {MatchesOf(books[i]) : i \in 1..k}
WholeIn(books, k) == UNION {WholeOf(books[i]) : i \in 1..k}

LEMMA BooksApart ==
  ASSUME NEW books, SoundBooks(books)
  PROVE  /\ Len(books) \in Nat /\ DOMAIN books = 1..Len(books)
         /\ \A i \in 1..Len(books) :
              Once(books[i].rows, CardsOf(books[i])) /\ CardsOf(books[i]) \in SUBSET Card
         /\ \A i \in 1..Len(books) : CardsShown(books[i]) \subseteq CardsOf(books[i])
         /\ \A i, j \in 1..Len(books) : i # j => CardsShown(books[i]) \cap CardsShown(books[j]) = {}
         /\ Distinct(MatchesIn(books, Len(books)))
<1> DEFINE n == Len(books)
<1>1. n \in Nat /\ DOMAIN books = 1..n /\ \A i \in 1..n : books[i].rows \in Seq(Card)
  <2>1. books \in Seq(Book) /\ \A b \in Book : b.rows \in Seq(Card)
    BY DEF SoundBooks, Book
  <2>2. \A i \in 1..n : books[i] \in Book
    BY <2>1
  <2> QED BY <2>1, <2>2
<1>2. \A i, j \in 1..n : \A x \in 1..Len(books[i].rows), y \in 1..Len(books[j].rows) :
        books[i].rows[x].uid = books[j].rows[y].uid => i = j /\ x = y
  BY DEF SoundBooks
<1> HIDE DEF n
<1>3. ASSUME NEW i \in 1..n PROVE Once(books[i].rows, CardsOf(books[i])) /\ CardsOf(books[i]) \in SUBSET Card
  <2> DEFINE b == books[i].rows
             l == Len(b)
             T == CardsOf(books[i])
  <2>1. b \in Seq(Card) /\ l \in Nat /\ b = [x \in 1..l |-> b[x]] /\ \A x \in 1..l : b[x] \in Card
    BY <1>1
  <2>2. \A x, y \in 1..l : b[x] = b[y] => x = y
    BY <1>2
  <2>3. T = {b[x] : x \in 1..l}
    BY DEF CardsOf
  <2> HIDE DEF b, l, T
  <2>4. b \in [1..l -> T]
    BY <2>1, <2>3
  <2>5. b \in Seq(T) /\ Len(b) = l
    BY <2>1, <2>4, FunctionIsSeq
  <2>6. Once(b, T)
    BY <2>2, <2>3, <2>5 DEF Once
  <2>7. T \subseteq Card
    BY <2>1, <2>3
  <2> QED BY <2>6, <2>7 DEF b, T
<1>4. ASSUME NEW i \in 1..n PROVE CardsShown(books[i]) \subseteq CardsOf(books[i])
  <2>1. ToSet(books[i].rows) = CardsOf(books[i])
    BY <1>3, OnceIs
  <2> QED BY <2>1 DEF CardsShown
<1>5. ASSUME NEW i \in 1..n, NEW j \in 1..n, i # j PROVE CardsShown(books[i]) \cap CardsShown(books[j]) = {}
  <2>1. \A x \in 1..Len(books[i].rows), y \in 1..Len(books[j].rows) :
          books[i].rows[x] # books[j].rows[y]
    BY <1>2, <1>5
  <2>2. CardsOf(books[i]) \cap CardsOf(books[j]) = {}
    BY <2>1, Zenon DEF CardsOf
  <2> QED BY <1>4, <2>2
<1>6. ASSUME NEW i \in 1..n, NEW j \in 1..n, NEW c \in CardsOf(books[i]), NEW d \in CardsOf(books[j]), c.uid = d.uid
      PROVE  c = d
  <2>1. PICK x \in 1..Len(books[i].rows) : c = books[i].rows[x]
    BY DEF CardsOf
  <2>2. PICK y \in 1..Len(books[j].rows) : d = books[j].rows[y]
    BY DEF CardsOf
  <2>3. i = j /\ x = y
    BY <1>2, <1>6, <2>1, <2>2
  <2> QED BY <2>1, <2>2, <2>3
<1>7. Distinct(MatchesIn(books, n))
  <2>1. \A c \in MatchesIn(books, n) : \E i \in 1..n : c \in CardsOf(books[i])
    BY <1>4 DEF MatchesIn, MatchesOf
  <2> QED BY <1>3, <1>6, <2>1 DEF Distinct
<1> QED BY <1>1, <1>3, <1>4, <1>5, <1>7 DEF n

\* One book more.
LEMMA MatchingGrows ==
  ASSUME NEW books, SoundBooks(books), NEW k \in Nat, k + 1 <= Len(books)
  PROVE  /\ MatchesIn(books, k + 1) = MatchesIn(books, k) \cup MatchesOf(books[k + 1])
         /\ WholeIn(books, k + 1) = WholeIn(books, k) \cup WholeOf(books[k + 1])
         /\ MatchesIn(books, k) \cap CardsShown(books[k + 1]) = {}
         /\ k + 1 \in 1..Len(books)
<1>1. k + 1 \in 1..Len(books) /\ \A i \in 1..k : i \in 1..Len(books) /\ i # k + 1
  BY BooksApart
<1>2. \A i \in 1..(k + 1) : i \in 1..k \/ i = k + 1
  OBVIOUS
<1>3. \A i \in 1..k : CardsShown(books[i]) \cap CardsShown(books[k + 1]) = {}
  BY <1>1, BooksApart
<1>4. MatchesIn(books, k) \cap CardsShown(books[k + 1]) = {}
  BY <1>3 DEF MatchesIn, MatchesOf
<1>5. \A c : c \in MatchesIn(books, k + 1) <=> c \in MatchesIn(books, k) \/ c \in MatchesOf(books[k + 1])
  BY <1>2 DEF MatchesIn
<1>6. \A c : c \in WholeIn(books, k + 1) <=> c \in WholeIn(books, k) \/ c \in WholeOf(books[k + 1])
  BY <1>2 DEF WholeIn
<1> QED BY <1>1, <1>4, <1>5, <1>6

LEMMA NoBooks == ASSUME NEW books PROVE MatchesIn(books, 0) = {} /\ WholeIn(books, 0) = {}
BY DEF MatchesIn, WholeIn

\* A scan that goes on has found the matches of the books shown whole among those
\* it has read; one that was ended by its budget has found some of them and says so.
BookScanInv(acc, A, W) ==
  /\ acc \in BookScans
  /\ acc.error => acc.done
  /\ ~acc.error => (acc.done <=> acc.scanLimit)
  /\ \E M \in SUBSET A : Once(acc.matches, M) /\ (~acc.error /\ ~acc.scanLimit => W \subseteq M)

LEMMA BookScanStep ==
  ASSUME NEW acc, NEW A, NEW W, BookScanInv(acc, A, W), NEW book, NEW C \in SUBSET Card, Once(book.rows, C),
         A \cap CardsShown(book) = {}, NEW isLast, NEW honours
  PROVE  BookScanInv(ScanBook(acc, book, isLast, honours), A \cup MatchesOf(book), W \cup WholeOf(book))
<1> DEFINE new == ScanBook(acc, book, isLast, honours)
           A1 == A \cup MatchesOf(book)
           W1 == W \cup WholeOf(book)
<1>1. acc \in BookScans /\ new \in BookScans
  BY BookScanType DEF BookScanInv
<1>2. CASE acc.done /\ new = acc
  <2>1. acc.scanLimit \/ acc.error
    BY <1>2 DEF BookScanInv
  <2>2. \E M \in SUBSET A1 : Once(acc.matches, M)
    BY DEF BookScanInv
  <2> HIDE DEF new, A1, W1
  <2>3. BookScanInv(acc, A1, W1)
    BY <1>2, <2>1, <2>2 DEF BookScanInv
  <2> QED BY <1>2, <2>3 DEF new, A1, W1
<1>3. CASE ~acc.done /\ Ends(new, acc)
  <2>1. /\ new.done /\ new.matches = acc.matches
        /\ (new.error \/ (new.scanLimit /\ new.error = acc.error))
    BY <1>1, <1>3 DEF Ends, BookScans
  <2>2. \E M \in SUBSET A1 : Once(acc.matches, M)
    BY DEF BookScanInv
  <2> HIDE DEF new, A1, W1
  <2>3. BookScanInv(new, A1, W1)
    BY <1>1, <2>1, <2>2 DEF BookScanInv
  <2> QED BY <2>3 DEF new, A1, W1
<1>4. ASSUME NEW list, NEW D, NEW more \in BOOLEAN, NEW cards \in Nat, NEW bytes \in Int, ~acc.done,
             cards <= acc.cards, Round(new, acc, list, more, cards, bytes), Takes(list, D, book, more)
      PROVE  BookScanInv(new, A1, W1)
  <2>1. /\ ~new.error /\ new.done = more /\ new.scanLimit = more
        /\ new.matches = acc.matches \o Matches(list)
    <3> HIDE DEF new
    <3> QED BY <1>4, Zenon DEF Round
  <2>2. ~acc.error /\ ~acc.scanLimit
    BY <1>4 DEF BookScanInv
  <2>3. PICK M \in SUBSET A : Once(acc.matches, M) /\ W \subseteq M
    BY <2>2 DEF BookScanInv
  <2>4. D \in SUBSET CardsShown(book) /\ Once(list, D) /\ (ShownWhole(book) /\ ~more => D = CardsShown(book))
    BY <1>4 DEF Takes
  <2> DEFINE N == {c \in D : c.match}
  <2>5. Once(Matches(list), N)
    <3>1. D \in SUBSET Card
      BY <2>4, ShownCards
    <3> QED BY <2>4, <3>1, FiltersOnce
  <2>6. M \cap N = {} /\ M \cup N \in SUBSET A1
    BY <2>4 DEF MatchesOf
  <2>7. Once(new.matches, M \cup N)
    <3> HIDE DEF N, new
    <3> QED BY <2>1, <2>3, <2>5, <2>6, JoinedLists
  <2>8. ~more => W1 \subseteq M \cup N
    BY <2>3, <2>4 DEF WholeOf, MatchesOf
  <2> HIDE DEF new, A1, W1, N
  <2>9. PICK L \in SUBSET A1 : Once(new.matches, L) /\ (~more => W1 \subseteq L)
    BY <2>6, <2>7, <2>8
  <2> QED BY <1>1, <2>1, <2>9 DEF BookScanInv
<1> HIDE DEF new, A1, W1
<1> QED BY <1>1, <1>2, <1>3, <1>4, BookScanCases DEF ScanCases, new, A1, W1, BookScanInv

\* The i-th round of the scan, by the sequence of indexes that the fold goes over
\* and by the index itself.
Indexes(index, books) == index = [i \in DOMAIN books |-> i]
ScanAt(acc, books, index, i, honours) == ScanBook(acc, books[index[i]], index[i] = Len(books), honours)
ScanRound(acc, books, k, honours) == ScanBook(acc, books[k], k = Len(books), honours)

\* The scan, book after book.
LEMMA BookScanTrace ==
  ASSUME NEW books, SoundBooks(books), NEW honours, NEW index, Indexes(index, books)
  PROVE  \E g \in [0..Len(index) -> BookScans] :
           /\ g[0] = StartScan /\ g[Len(index)] = ScanBooks(books, honours)
           /\ \A k \in 1..Len(index) : g[k] = ScanAt(g[k - 1], books, index, k, honours)
<1> DEFINE n == Len(index)
           V == BookScans
           base == StartScan
           F == [p \in (1..n) \X V |-> ScanAt(p[2], books, index, p[1], honours)]
           Q(x) == x = [s \in SUBSET (DOMAIN index) |->
                          IF s = {} THEN base ELSE ScanAt(x[s \ {Max(s)}], books, index, Max(s), honours)]
           it == CHOOSE x : Q(x)
<1>1. n \in Nat /\ DOMAIN index = 1..n /\ base \in V
  <2>1. <<>> \in Seq(Card)
    OBVIOUS
  <2>2. StartScan \in BookScans
    <3>1. MaxCardsScanned \in Nat /\ MaxReportBytes \in Int
      BY SearchBounds
    <3> QED BY <2>1, <3>1, Zenon DEF StartScan, BookScans
  <2>3. Len(books) \in Nat /\ DOMAIN books = 1..Len(books)
    BY BooksApart
  <2>4. index \in Seq(Nat) /\ Len(index) = Len(books)
    BY <2>3, FunctionIsSeq DEF Indexes
  <2> QED BY <2>2, <2>3, <2>4 DEF Indexes
<1>2. F \in Steps(n, V)
  <2>1. ASSUME NEW p \in (1..n) \X V PROVE ScanAt(p[2], books, index, p[1], honours) \in V
    <3>1. p[2] \in V /\ p[1] \in 1..n /\ DOMAIN index = 1..n /\ DOMAIN books = DOMAIN index
      BY <1>1 DEF Indexes
    <3> DEFINE book == books[index[p[1]]]
    <3>2. Once(book.rows, CardsOf(book)) /\ CardsOf(book) \in SUBSET Card
      BY <3>1, BooksApart DEF Indexes
    <3> HIDE DEF book
    <3>3. ScanBook(p[2], book, index[p[1]] = Len(books), honours) \in V
      BY <3>1, <3>2, BookScanType
    <3> QED BY <3>3 DEF ScanAt, book
  <2> QED BY <2>1 DEF Steps
<1>3. \A k \in 1..n, v \in V : F[<<k, v>>] = ScanAt(v, books, index, k, honours)
  OBVIOUS
<1> HIDE DEF V, F, n, base
<1>4. \E x : Q(x)
  <2>1. PICK x \in [SUBSET (1..n) -> V] : Solves(x, n, V, base, F)
    BY <1>1, <1>2, FoldExists
  <2>2. ASSUME NEW s \in SUBSET (1..n)
        PROVE  x[s] = IF s = {} THEN base ELSE ScanAt(x[s \ {Max(s)}], books, index, Max(s), honours)
    <3>1. CASE s = {}
      BY <2>1, <3>1 DEF Solves
    <3>2. CASE s # {}
      <4>1. Max(s) \in 1..n
        BY <1>1, <3>2, MaxIndex
      <4>2. s \ {Max(s)} \in SUBSET (1..n)
        OBVIOUS
      <4> QED BY <1>3, <2>1, <3>2, <4>1, <4>2 DEF Solves
    <3> QED BY <3>1, <3>2
  <2> QED BY <1>1, <2>2
<1>5. Q(it)
  BY <1>4
<1>6. ScanBooks(books, honours) = it[1..n]
  BY <1>1 DEF ScanBooks, ScanAt, Indexes, FoldLeft, base, MapThenFoldSet
<1> HIDE DEF it
<1>7. it[{}] = base
  BY <1>1, <1>5
<1>8. ASSUME NEW s \in SUBSET (1..n), s # {}, it[s \ {Max(s)}] \in V
      PROVE  it[s] = F[<<Max(s), it[s \ {Max(s)}]>>]
  <2>1. Max(s) \in 1..n
    BY <1>1, <1>8, MaxIndex
  <2> QED BY <1>1, <1>3, <1>5, <1>8, <2>1
<1>9. PICK g \in Trace(n, V, base, F) : g[n] = it[1..n]
  <2>1. Solves(it, n, V, base, F)
    BY <1>7, <1>8 DEF Solves
  <2> QED BY <1>1, <1>2, <2>1, FoldTrace
<1>10. ASSUME NEW k \in 1..n PROVE g[k] = ScanAt(g[k - 1], books, index, k, honours)
  <2>1. k - 1 \in 0..n
    BY <1>1
  <2> QED BY <1>3, <1>9, <2>1 DEF Trace
<1> QED BY <1>6, <1>9, <1>10 DEF n, V, base, Trace

LEMMA BookScanRounds ==
  ASSUME NEW books, SoundBooks(books), NEW honours
  PROVE  \E g \in [0..Len(books) -> BookScans] :
           /\ g[0] = StartScan /\ g[Len(books)] = ScanBooks(books, honours)
           /\ \A k \in 1..Len(books) : g[k] = ScanRound(g[k - 1], books, k, honours)
<1> SUFFICES ASSUME NEW index, Indexes(index, books)
             PROVE  \E g \in [0..Len(books) -> BookScans] :
                      /\ g[0] = StartScan /\ g[Len(books)] = ScanBooks(books, honours)
                      /\ \A k \in 1..Len(books) : g[k] = ScanRound(g[k - 1], books, k, honours)
  BY DEF Indexes
<1> DEFINE n == Len(books)
<1>1. n \in Nat /\ DOMAIN books = 1..n
  BY BooksApart
<1>2. Len(index) = n /\ \A k \in 1..n : index[k] = k
  <2>1. index \in [1..n -> Nat]
    BY <1>1 DEF Indexes
  <2> QED BY <1>1, <2>1, FunctionIsSeq DEF Indexes
<1>3. PICK g \in [0..Len(index) -> BookScans] :
        /\ g[0] = StartScan /\ g[Len(index)] = ScanBooks(books, honours)
        /\ \A k \in 1..Len(index) : g[k] = ScanAt(g[k - 1], books, index, k, honours)
  BY BookScanTrace
<1>4. ASSUME NEW k \in 1..n PROVE g[k] = ScanRound(g[k - 1], books, k, honours)
  <2>1. g[k] = ScanAt(g[k - 1], books, index, k, honours) /\ index[k] = k
    BY <1>2, <1>3
  <2> QED BY <2>1 DEF ScanAt, ScanRound
<1> QED BY <1>2, <1>3, <1>4

LEMMA BooksScanned ==
  ASSUME NEW books, SoundBooks(books), NEW honours
  PROVE  BookScanInv(ScanBooks(books, honours), MatchesIn(books, Len(books)), WholeIn(books, Len(books)))
<1> DEFINE n == Len(books)
<1>1. n \in Nat /\ DOMAIN books = 1..n
  BY BooksApart
<1>3. PICK g \in [0..n -> BookScans] :
        /\ g[0] = StartScan /\ g[n] = ScanBooks(books, honours)
        /\ \A k \in 1..n : g[k] = ScanRound(g[k - 1], books, k, honours)
  BY <1>1, BookScanRounds
<1> HIDE DEF n
<1> DEFINE S == {k \in Nat : k <= n => BookScanInv(g[k], MatchesIn(books, k), WholeIn(books, k))}
<1>4. 0 \in S
  <2>1. MatchesIn(books, 0) = {} /\ WholeIn(books, 0) = {}
    BY NoBooks
  <2>2. /\ ~StartScan.error /\ ~StartScan.done /\ ~StartScan.scanLimit /\ StartScan.matches = <<>>
    BY DEF StartScan
  <2>3. StartScan \in BookScans
    BY <1>1, <1>3
  <2>4. Once(<<>>, {})
    BY DEF Once
  <2>5. BookScanInv(StartScan, {}, {})
    BY <2>2, <2>3, <2>4 DEF BookScanInv
  <2> QED BY <1>3, <2>1, <2>5
<1>5. ASSUME NEW k \in Nat, k \in S PROVE k + 1 \in S
  <2> SUFFICES ASSUME k + 1 <= n PROVE BookScanInv(g[k + 1], MatchesIn(books, k + 1), WholeIn(books, k + 1))
    OBVIOUS
  <2>1. k + 1 \in 1..n /\ (k + 1) - 1 = k /\ BookScanInv(g[k], MatchesIn(books, k), WholeIn(books, k))
    BY <1>1, <1>5
  <2>2. g[k + 1] = ScanRound(g[k], books, k + 1, honours)
    BY <1>3, <2>1
  <2>3. Once(books[k + 1].rows, CardsOf(books[k + 1])) /\ CardsOf(books[k + 1]) \in SUBSET Card
    BY <2>1, BooksApart DEF n
  <2>4. /\ MatchesIn(books, k + 1) = MatchesIn(books, k) \cup MatchesOf(books[k + 1])
        /\ WholeIn(books, k + 1) = WholeIn(books, k) \cup WholeOf(books[k + 1])
        /\ MatchesIn(books, k) \cap CardsShown(books[k + 1]) = {}
    BY MatchingGrows DEF n
  <2>5. BookScanInv(ScanRound(g[k], books, k + 1, honours),
                    MatchesIn(books, k) \cup MatchesOf(books[k + 1]),
                    WholeIn(books, k) \cup WholeOf(books[k + 1]))
    BY <2>1, <2>2, <2>3, <2>4, BookScanStep DEF ScanRound
  <2> QED BY <2>2, <2>4, <2>5
<1>6. Nat \subseteq S
  <2> HIDE DEF S
  <2> QED BY <1>4, <1>5, Induction
<1>7. BookScanInv(g[n], MatchesIn(books, n), WholeIn(books, n))
  BY <1>1, <1>6
<1> QED BY <1>3, <1>7 DEF n

SearchAnswers == [error : BOOLEAN, contacts : Seq(Card), truncated : BOOLEAN, scanLimit : BOOLEAN]

\* The cuts of a search.
Cut(limit) == Least(limit, MaxResult)

\* What SearchContacts answers: the first of the matches it has found, among them
\* all of the books shown whole unless it says that the scan was ended.
LEMMA SearchFinds ==
  ASSUME NEW books, SoundBooks(books), NEW limit \in Nat, NEW honours
  PROVE  LET r == SearchContacts(books, limit, honours)
             A == MatchesIn(books, Len(books))
             W == WholeIn(books, Len(books))
         IN  /\ r \in SearchAnswers
             /\ \E M \in SUBSET A : \E q :
                  /\ Sorted(q, M) /\ r.contacts = Prefix(q, Cut(limit))
                  /\ Len(q) > Cut(limit) => r.truncated
                  /\ ~r.error /\ ~r.scanLimit => W \subseteq M
<1> DEFINE r == SearchContacts(books, limit, honours)
           A == MatchesIn(books, Len(books))
           W == WholeIn(books, Len(books))
           scan == ScanBooks(books, honours)
           n == Cut(limit)
<1>1. BookScanInv(scan, A, W)
  BY BooksScanned
<1>2. n \in Nat
  <2>1. MaxResult \in Nat
    BY SearchBounds
  <2> QED BY <2>1 DEF Cut, Least
<1>3. r = [error |-> scan.error, contacts |-> Prefix(SortSummaries(scan.matches), n),
           scanLimit |-> scan.scanLimit, truncated |-> Len(scan.matches) > n]
  BY DEF SearchContacts, ScanResult, Cut
<1>4. Distinct(A)
  BY BooksApart
<1> HIDE DEF r, A, W, scan, n
<1>5. PICK M \in SUBSET A : Once(scan.matches, M) /\ (~scan.error /\ ~scan.scanLimit => W \subseteq M)
  BY <1>1 DEF BookScanInv
<1> DEFINE q == SortSummaries(scan.matches)
<1>6. Distinct(M) /\ M \subseteq Card
  BY <1>4 DEF Distinct
<1>7. Sorted(q, M) /\ Len(q) = Len(scan.matches)
  BY <1>5, <1>6, SummariesSort
<1> HIDE DEF q
<1>8. q \in Seq(Card)
  <2>1. q \in [1..Len(q) -> M] /\ Len(q) \in Nat
    BY <1>7 DEF Sorted, Once
  <2>2. q \in [1..Len(q) -> Card]
    BY <1>6, <2>1
  <2> QED BY <2>1, <2>2, FunctionIsSeq
<1>9. Prefix(q, n) \in Seq(Card)
  BY <1>2, <1>8, PrefixIs
<1>10. /\ r.error = scan.error /\ r.contacts = Prefix(q, n) /\ r.scanLimit = scan.scanLimit
       /\ r.truncated = (Len(q) > n)
  BY <1>3, <1>7, Zenon DEF q
<1>11. r \in SearchAnswers
  <2>1. scan.error \in BOOLEAN /\ scan.scanLimit \in BOOLEAN
    BY <1>1 DEF BookScanInv, BookScans
  <2>2. (Len(scan.matches) > n) \in BOOLEAN
    OBVIOUS
  <2> QED BY <1>3, <1>9, <2>1, <2>2, Zenon DEF SearchAnswers, q
<1>12. \E L \in SUBSET A : \E p :
         /\ Sorted(p, L) /\ r.contacts = Prefix(p, n)
         /\ Len(p) > n => r.truncated
         /\ ~r.error /\ ~r.scanLimit => W \subseteq L
  BY <1>5, <1>7, <1>10
<1> QED BY <1>11, <1>12 DEF r, A, W, n

\* The join of the answers, book after book.
LEMMA JoinTrace ==
  ASSUME NEW books, SoundBooks(books), NEW limit, NEW honours,
         \A k \in 1..Len(books) : SearchContacts(<<books[k]>>, limit, honours) \in SearchAnswers
  PROVE  \E g \in [0..Len(books) -> SearchAnswers] :
           /\ g[0] = StartJoin /\ g[Len(books)] = JoinBooks(books, limit, honours)
           /\ \A k \in 1..Len(books) : g[k] = JoinScoped(g[k - 1], SearchContacts(<<books[k]>>, limit, honours))
<1> DEFINE n == Len(books)
           V == SearchAnswers
           base == StartJoin
           F == [p \in (1..n) \X V |-> JoinScoped(p[2], SearchContacts(<<books[p[1]]>>, limit, honours))]
           Q(x) == x = [s \in SUBSET (DOMAIN books) |->
                          IF s = {} THEN base ELSE JoinScoped(x[s \ {Max(s)}], SearchContacts(<<books[Max(s)]>>, limit, honours))]
           it == CHOOSE x : Q(x)
<1>1. n \in Nat /\ DOMAIN books = 1..n /\ base \in V
  <2>1. <<>> \in Seq(Card) /\ n \in Nat /\ DOMAIN books = 1..n
    BY BooksApart
  <2>2. base \in V
    BY <2>1, Zenon DEF StartJoin, SearchAnswers
  <2> QED BY <2>1, <2>2
<1>2. F \in Steps(n, V)
  <2>1. ASSUME NEW p \in (1..n) \X V PROVE JoinScoped(p[2], SearchContacts(<<books[p[1]]>>, limit, honours)) \in V
    <3> DEFINE part == SearchContacts(<<books[p[1]]>>, limit, honours)
    <3>1. p[2] \in SearchAnswers /\ part \in SearchAnswers
      OBVIOUS
    <3> HIDE DEF part
    <3>2. /\ p[2].contacts \o part.contacts \in Seq(Card)
          /\ (p[2].error \/ part.error) \in BOOLEAN
          /\ (p[2].truncated \/ part.truncated) \in BOOLEAN
          /\ (p[2].scanLimit \/ part.scanLimit) \in BOOLEAN
      BY <3>1 DEF SearchAnswers
    <3>3. JoinScoped(p[2], part) \in SearchAnswers
      BY <3>2, Zenon DEF JoinScoped, SearchAnswers
    <3> QED BY <3>3 DEF part
  <2> QED BY <2>1 DEF Steps
<1>3. \A k \in 1..n, v \in V : F[<<k, v>>] = JoinScoped(v, SearchContacts(<<books[k]>>, limit, honours))
  OBVIOUS
<1> HIDE DEF V, F, n, base
<1>4. \E x : Q(x)
  <2>1. PICK x \in [SUBSET (1..n) -> V] : Solves(x, n, V, base, F)
    BY <1>1, <1>2, FoldExists
  <2>2. ASSUME NEW s \in SUBSET (1..n)
        PROVE  x[s] = IF s = {} THEN base ELSE JoinScoped(x[s \ {Max(s)}], SearchContacts(<<books[Max(s)]>>, limit, honours))
    <3>1. CASE s = {}
      BY <2>1, <3>1 DEF Solves
    <3>2. CASE s # {}
      <4>1. Max(s) \in 1..n
        BY <1>1, <3>2, MaxIndex
      <4>2. s \ {Max(s)} \in SUBSET (1..n)
        OBVIOUS
      <4> QED BY <1>3, <2>1, <3>2, <4>1, <4>2 DEF Solves
    <3> QED BY <3>1, <3>2
  <2> QED BY <1>1, <2>2
<1>5. Q(it)
  BY <1>4
<1>6. JoinBooks(books, limit, honours) = it[1..n]
  BY <1>1 DEF JoinBooks, FoldLeft, base, MapThenFoldSet
<1> HIDE DEF it
<1>7. it[{}] = base
  BY <1>1, <1>5
<1>8. ASSUME NEW s \in SUBSET (1..n), s # {}, it[s \ {Max(s)}] \in V
      PROVE  it[s] = F[<<Max(s), it[s \ {Max(s)}]>>]
  <2>1. Max(s) \in 1..n
    BY <1>1, <1>8, MaxIndex
  <2> QED BY <1>1, <1>3, <1>5, <1>8, <2>1
<1>9. PICK g \in Trace(n, V, base, F) : g[n] = it[1..n]
  <2>1. Solves(it, n, V, base, F)
    BY <1>7, <1>8 DEF Solves
  <2> QED BY <1>1, <1>2, <2>1, FoldTrace
<1>10. ASSUME NEW k \in 1..n PROVE g[k] = JoinScoped(g[k - 1], SearchContacts(<<books[k]>>, limit, honours))
  <2>1. k - 1 \in 0..n
    BY <1>1
  <2> QED BY <1>3, <1>9, <2>1 DEF Trace
<1> QED BY <1>6, <1>9, <1>10 DEF n, V, base, Trace

\* At least n cards of the set come before the card.
Behind(c, U, n) == \E S \in SUBSET U : \E s : Sorted(s, S) /\ Len(s) >= n /\ \A i \in 1..Len(s) : Before(s[i], c)

\* The join has every match of the books shown whole among those it has read, or it
\* says that it was cut and what it lacks comes after n cards that it has.
JoinInv(acc, A, W, n) ==
  /\ acc \in SearchAnswers
  /\ \E U \in SUBSET A :
       /\ Once(acc.contacts, U)
       /\ ~acc.error /\ ~acc.scanLimit => \A c \in W \ U : acc.truncated /\ Behind(c, U, n)

LEMMA JoinStep ==
  ASSUME NEW acc, NEW A, NEW W, NEW n \in Nat, JoinInv(acc, A, W, n), NEW part \in SearchAnswers, NEW B,
         NEW V, A \cap B = {}, NEW M \in SUBSET B, NEW q, Sorted(q, M), part.contacts = Prefix(q, n),
         Len(q) > n => part.truncated,
         ~part.error /\ ~part.scanLimit => V \subseteq M
  PROVE  JoinInv(JoinScoped(acc, part), A \cup B, W \cup V, n)
<1> DEFINE new == JoinScoped(acc, part)
<1>1. PICK U \in SUBSET A :
        /\ Once(acc.contacts, U)
        /\ ~acc.error /\ ~acc.scanLimit => \A c \in W \ U : acc.truncated /\ Behind(c, U, n)
  BY DEF JoinInv
<1>2. acc \in SearchAnswers
  BY DEF JoinInv
<1>3. /\ Once(q, M) /\ q \in Seq(M) /\ Len(q) \in Nat
      /\ \A x, y \in 1..Len(q) : x < y => Before(q[x], q[y])
  <2>1. Once(q, M) /\ \A x, y \in 1..Len(q) : x < y => Before(q[x], q[y])
    BY Zenon DEF Sorted
  <2>2. q \in Seq(M)
    BY <2>1, Zenon DEF Once
  <2> QED BY <2>1, <2>2
<1>4. PICK T \in SUBSET M : Once(part.contacts, T) /\ (Len(q) <= n => T = M)
  BY <1>3, PrefixOnce
<1>5. /\ new.error = (acc.error \/ part.error) /\ new.contacts = acc.contacts \o part.contacts
      /\ new.truncated = (acc.truncated \/ part.truncated)
      /\ new.scanLimit = (acc.scanLimit \/ part.scanLimit)
  BY Zenon DEF JoinScoped
<1>6. new \in SearchAnswers
  <2>1. /\ acc.contacts \o part.contacts \in Seq(Card)
        /\ (acc.error \/ part.error) \in BOOLEAN
        /\ (acc.truncated \/ part.truncated) \in BOOLEAN
        /\ (acc.scanLimit \/ part.scanLimit) \in BOOLEAN
    BY <1>2 DEF SearchAnswers
  <2> QED BY <2>1, Zenon DEF JoinScoped, SearchAnswers
<1> HIDE DEF new
<1>7. Once(new.contacts, U \cup T)
  <2>1. U \cap T = {}
    OBVIOUS
  <2> QED BY <1>1, <1>4, <1>5, <2>1, JoinedLists
<1>8. \A c : Behind(c, U, n) \/ Behind(c, T, n) => Behind(c, U \cup T, n)
  BY DEF Behind
<1>9. /\ Len(part.contacts) = Least(n, Len(q))
      /\ \A i \in 1..Len(part.contacts) : i \in 1..Len(q) /\ part.contacts[i] = q[i]
  <2>1. /\ Len(Prefix(q, n)) = Least(n, Len(q))
        /\ \A i \in 1..Least(n, Len(q)) : i \in 1..Len(q) /\ Prefix(q, n)[i] = q[i]
    BY <1>3, PrefixIs
  <2> QED BY <2>1
<1> DEFINE p == part.contacts
<1>10. Sorted(p, T)
  <2>1. Once(p, T)
    BY <1>4
  <2>2. \A i \in 1..Len(p) : i \in 1..Len(q) /\ p[i] = q[i]
    BY <1>9
  <2> HIDE DEF p
  <2> QED BY <1>3, <2>1, <2>2 DEF Sorted
<1>11. ASSUME NEW c \in V \ T, ~part.error, ~part.scanLimit PROVE part.truncated /\ Behind(c, T, n)
  <2>1. c \in M
    BY <1>11
  <2>2. PICK m \in 1..Len(q) : q[m] = c
    BY <1>3, <2>1 DEF Once
  <2>3. m > n
    <3> SUFFICES ASSUME m <= n PROVE FALSE
      BY <1>3
    <3>1. m \in 1..Len(p)
      BY <1>3, <1>9 DEF Least
    <3>2. p[m] = c
      BY <1>9, <2>2, <3>1
    <3>3. p \in Seq(T)
      BY <1>4 DEF Once
    <3>4. c \in T
      <4> HIDE DEF p
      <4> QED BY <3>1, <3>2, <3>3
    <3> QED BY <1>11, <3>4
  <2>4. Len(q) > n /\ Len(p) = n
    BY <1>3, <1>9, <2>3 DEF Least
  <2>5. \A i \in 1..Len(p) : Before(p[i], c)
    <3>1. ASSUME NEW i \in 1..Len(p) PROVE Before(p[i], c)
      <4>1. i \in 1..Len(q) /\ p[i] = q[i] /\ i < m
        BY <1>3, <1>9, <2>3, <2>4, <3>1
      <4> HIDE DEF p
      <4> QED BY <1>3, <2>2, <4>1
    <3> QED BY <3>1
  <2> HIDE DEF p
  <2>6. Behind(c, T, n)
    BY <1>10, <2>4, <2>5 DEF Behind
  <2> QED BY <2>4, <2>6
<1>12. ASSUME ~new.error, ~new.scanLimit, NEW c \in (W \cup V) \ (U \cup T)
       PROVE  new.truncated /\ Behind(c, U \cup T, n)
  <2>1. ~acc.error /\ ~acc.scanLimit /\ ~part.error /\ ~part.scanLimit
    BY <1>5, <1>12
  <2>2. CASE c \in W
    BY <1>1, <1>5, <1>8, <1>12, <2>1, <2>2
  <2>3. CASE c \in V
    BY <1>5, <1>8, <1>11, <1>12, <2>1, <2>3
  <2> QED BY <1>12, <2>2, <2>3
<1>13. U \cup T \in SUBSET (A \cup B)
  OBVIOUS
<1>14. JoinInv(new, A \cup B, W \cup V, n)
  BY <1>6, <1>7, <1>12, <1>13 DEF JoinInv
<1> QED BY <1>14 DEF new

\* A book by itself.
LEMMA OneBook ==
  ASSUME NEW books, SoundBooks(books), NEW k \in 1..Len(books)
  PROVE  /\ SoundBooks(<<books[k]>>)
         /\ MatchesIn(<<books[k]>>, Len(<<books[k]>>)) = MatchesOf(books[k])
         /\ WholeIn(<<books[k]>>, Len(<<books[k]>>)) = WholeOf(books[k])
<1> DEFINE b == books[k]
           one == <<b>>
<1>1. b \in Book
  BY DEF SoundBooks
<1>2. \A x, y \in 1..Len(b.rows) : b.rows[x].uid = b.rows[y].uid => x = y
  BY DEF SoundBooks
<1> HIDE DEF b
<1>3. one \in Seq(Book) /\ Len(one) = 1 /\ one[1] = b /\ \A i \in 1..1 : i = 1
  BY <1>1
<1> HIDE DEF one
<1>4. SoundBooks(one)
  BY <1>2, <1>3 DEF SoundBooks
<1>5. MatchesIn(one, 1) = MatchesOf(b) /\ WholeIn(one, 1) = WholeOf(b)
  BY <1>3 DEF MatchesIn, WholeIn
<1> QED BY <1>3, <1>4, <1>5 DEF b, one

LEMMA BooksJoined ==
  ASSUME NEW books, SoundBooks(books), NEW limit \in Nat, NEW honours
  PROVE  JoinInv(JoinBooks(books, limit, honours), MatchesIn(books, Len(books)),
                 WholeIn(books, Len(books)), Cut(limit))
<1> DEFINE n == Len(books)
           cut == Cut(limit)
           part(k) == SearchContacts(<<books[k]>>, limit, honours)
           B(k) == MatchesOf(books[k])
           V(k) == WholeOf(books[k])
<1>1. n \in Nat /\ cut \in Nat
  <2>1. MaxResult \in Nat
    BY SearchBounds
  <2>2. cut \in Nat
    BY <2>1 DEF Cut, Least
  <2> QED BY <2>2, BooksApart
<1>2. ASSUME NEW k \in 1..n
      PROVE  /\ part(k) \in SearchAnswers
             /\ \E M \in SUBSET B(k) : \E q :
                  /\ Sorted(q, M) /\ part(k).contacts = Prefix(q, cut)
                  /\ Len(q) > cut => part(k).truncated
                  /\ ~part(k).error /\ ~part(k).scanLimit => V(k) \subseteq M
  <2>1. /\ SoundBooks(<<books[k]>>) /\ MatchesIn(<<books[k]>>, Len(<<books[k]>>)) = B(k)
        /\ WholeIn(<<books[k]>>, Len(<<books[k]>>)) = V(k)
    BY OneBook
  <2> QED BY <2>1, SearchFinds
<1> HIDE DEF n, cut, part
<1>3. PICK g \in [0..n -> SearchAnswers] :
        /\ g[0] = StartJoin /\ g[n] = JoinBooks(books, limit, honours)
        /\ \A k \in 1..n : g[k] = JoinScoped(g[k - 1], part(k))
  <2>1. \A k \in 1..Len(books) : SearchContacts(<<books[k]>>, limit, honours) \in SearchAnswers
    BY <1>2 DEF part, n
  <2>2. \E g \in [0..Len(books) -> SearchAnswers] :
          /\ g[0] = StartJoin /\ g[Len(books)] = JoinBooks(books, limit, honours)
          /\ \A k \in 1..Len(books) :
               g[k] = JoinScoped(g[k - 1], SearchContacts(<<books[k]>>, limit, honours))
    BY <1>1, <2>1, JoinTrace
  <2> QED BY <2>2 DEF part, n
<1> DEFINE S == {k \in Nat : k <= n => JoinInv(g[k], MatchesIn(books, k), WholeIn(books, k), cut)}
<1>4. 0 \in S
  <2>1. MatchesIn(books, 0) = {} /\ WholeIn(books, 0) = {}
    BY NoBooks
  <2>2. StartJoin.contacts = <<>> /\ StartJoin \in SearchAnswers
    <3>1. StartJoin \in SearchAnswers
      BY <1>1, <1>3
    <3> QED BY <3>1 DEF StartJoin
  <2>3. Once(<<>>, {})
    BY DEF Once
  <2>4. JoinInv(StartJoin, {}, {}, cut)
    BY <2>2, <2>3 DEF JoinInv
  <2> QED BY <1>3, <2>1, <2>4
<1>5. ASSUME NEW k \in Nat, k \in S PROVE k + 1 \in S
  <2> SUFFICES ASSUME k + 1 <= n PROVE JoinInv(g[k + 1], MatchesIn(books, k + 1), WholeIn(books, k + 1), cut)
    OBVIOUS
  <2>1. k + 1 \in 1..n /\ (k + 1) - 1 = k /\ JoinInv(g[k], MatchesIn(books, k), WholeIn(books, k), cut)
    BY <1>1, <1>5
  <2>2. g[k + 1] = JoinScoped(g[k], part(k + 1))
    BY <1>3, <2>1
  <2>3. /\ MatchesIn(books, k + 1) = MatchesIn(books, k) \cup B(k + 1)
        /\ WholeIn(books, k + 1) = WholeIn(books, k) \cup V(k + 1)
        /\ MatchesIn(books, k) \cap B(k + 1) = {}
    <3>1. /\ MatchesIn(books, k + 1) = MatchesIn(books, k) \cup MatchesOf(books[k + 1])
          /\ WholeIn(books, k + 1) = WholeIn(books, k) \cup WholeOf(books[k + 1])
          /\ MatchesIn(books, k) \cap CardsShown(books[k + 1]) = {}
      BY MatchingGrows DEF n
    <3> QED BY <3>1 DEF MatchesOf
  <2>5. part(k + 1) \in SearchAnswers
    BY <1>2, <2>1
  <2>6. PICK M \in SUBSET B(k + 1) : \E q :
          /\ Sorted(q, M) /\ part(k + 1).contacts = Prefix(q, cut)
          /\ Len(q) > cut => part(k + 1).truncated
          /\ ~part(k + 1).error /\ ~part(k + 1).scanLimit => V(k + 1) \subseteq M
    BY <1>2, <2>1
  <2>7. PICK q :
          /\ Sorted(q, M) /\ part(k + 1).contacts = Prefix(q, cut)
          /\ Len(q) > cut => part(k + 1).truncated
          /\ ~part(k + 1).error /\ ~part(k + 1).scanLimit => V(k + 1) \subseteq M
    BY <2>6
  <2> HIDE DEF B, V
  <2>8. JoinInv(JoinScoped(g[k], part(k + 1)), MatchesIn(books, k) \cup B(k + 1), WholeIn(books, k) \cup V(k + 1), cut)
    BY <1>1, <2>1, <2>3, <2>5, <2>7, JoinStep
  <2> QED BY <2>2, <2>3, <2>8
<1>6. Nat \subseteq S
  <2> HIDE DEF S
  <2> QED BY <1>4, <1>5, Induction
<1>7. JoinInv(g[n], MatchesIn(books, n), WholeIn(books, n), cut)
  BY <1>1, <1>6
<1> QED BY <1>3, <1>7 DEF n, cut

\* What the handler is given, with and without a restricted scope: the first n of
\* the cards that were found, no fewer than it will show.
Found(r, A, W, cut) ==
  \E U \in SUBSET A : \E p : \E n \in Nat :
    /\ Sorted(p, U) /\ r.contacts = Prefix(p, n) /\ cut <= n
    /\ Len(p) > n => r.truncated
    /\ ~r.error /\ ~r.scanLimit => \A c \in W \ U : r.truncated /\ Behind(c, U, cut)

LEMMA ScopedFinds ==
  ASSUME NEW books, SoundBooks(books), NEW limit \in Nat, NEW honours
  PROVE  Found(SearchScoped(books, limit, honours), MatchesIn(books, Len(books)),
               WholeIn(books, Len(books)), Cut(limit))
<1> DEFINE A == MatchesIn(books, Len(books))
           W == WholeIn(books, Len(books))
           all == JoinBooks(books, limit, honours)
           r == SearchScoped(books, limit, honours)
           cut == Cut(limit)
<1>1. JoinInv(all, A, W, cut) /\ Distinct(A)
  BY BooksJoined, BooksApart
<1>2. cut \in Nat /\ cut <= limit
  <2>1. MaxResult \in Nat
    BY SearchBounds
  <2> QED BY <2>1 DEF Cut, Least
<1>3. r = [error |-> all.error, contacts |-> Prefix(SortSummaries(all.contacts), limit),
           truncated |-> all.truncated \/ Len(all.contacts) > limit, scanLimit |-> all.scanLimit]
  BY DEF SearchScoped, JoinResult
<1> HIDE DEF A, W, all, r, cut
<1>4. PICK U \in SUBSET A :
        /\ Once(all.contacts, U)
        /\ ~all.error /\ ~all.scanLimit => \A c \in W \ U : all.truncated /\ Behind(c, U, cut)
  BY <1>1 DEF JoinInv
<1> DEFINE p == SortSummaries(all.contacts)
<1>5. Distinct(U)
  BY <1>1 DEF Distinct
<1>6. Sorted(p, U) /\ Len(p) = Len(all.contacts)
  BY <1>4, <1>5, SummariesSort
<1> HIDE DEF p
<1>7. /\ r.error = all.error /\ r.contacts = Prefix(p, limit) /\ r.scanLimit = all.scanLimit
      /\ r.truncated = (all.truncated \/ Len(p) > limit)
  BY <1>3, <1>6, Zenon DEF p
<1>8. Found(r, A, W, cut)
  <2>1. /\ Len(p) > limit => r.truncated
        /\ ~r.error /\ ~r.scanLimit => \A c \in W \ U : r.truncated /\ Behind(c, U, cut)
    BY <1>4, <1>7
  <2> QED BY <1>2, <1>6, <1>7, <2>1 DEF Found
<1> QED BY <1>8 DEF r, A, W, cut

LEMMA PlainFinds ==
  ASSUME NEW books, SoundBooks(books), NEW limit \in Nat, NEW honours
  PROVE  Found(SearchContacts(books, limit, honours), MatchesIn(books, Len(books)),
               WholeIn(books, Len(books)), Cut(limit))
<1> DEFINE A == MatchesIn(books, Len(books))
           W == WholeIn(books, Len(books))
           r == SearchContacts(books, limit, honours)
           cut == Cut(limit)
<1>1. \E M \in SUBSET A : \E q :
        /\ Sorted(q, M) /\ r.contacts = Prefix(q, cut)
        /\ Len(q) > cut => r.truncated
        /\ ~r.error /\ ~r.scanLimit => W \subseteq M
  BY SearchFinds
<1>2. cut \in Nat
  <2>1. MaxResult \in Nat
    BY SearchBounds
  <2> QED BY <2>1 DEF Cut, Least
<1> HIDE DEF A, W, r, cut
<1>3. cut <= cut
  BY <1>2
<1>4. Found(r, A, W, cut)
  BY <1>1, <1>2, <1>3 DEF Found
<1> QED BY <1>4 DEF A, W, r, cut

\* What the handler answers: the first of the cards that were found.
Answered(r, A, W, cut) ==
  \E U \in SUBSET A : \E p :
    /\ Sorted(p, U) /\ r.contacts = Prefix(p, cut)
    /\ Len(p) > cut => r.truncated
    /\ ~r.error /\ ~r.scanLimit => \A c \in W \ U : r.truncated /\ Behind(c, U, cut)

LEMMA HandlerAnswers ==
  ASSUME NEW books, SoundBooks(books), NEW restricted, NEW limit \in Nat, NEW honours
  PROVE  Answered(SearchContactsHandler(books, restricted, limit, honours),
                  MatchesIn(books, Len(books)), WholeIn(books, Len(books)), Cut(limit))
<1> DEFINE A == MatchesIn(books, Len(books))
           W == WholeIn(books, Len(books))
           found == IF restricted THEN SearchScoped(books, limit, honours)
                    ELSE SearchContacts(books, limit, honours)
           r == SearchContactsHandler(books, restricted, limit, honours)
           cut == Cut(limit)
           kept == Prefix(found.contacts, cut)
<1>1. Found(found, A, W, cut)
  BY ScopedFinds, PlainFinds
<1>2. r = [error |-> found.error, contacts |-> kept,
           truncated |-> found.truncated \/ kept # found.contacts, scanLimit |-> found.scanLimit]
  BY DEF SearchContactsHandler, HandlerResult, Cut
<1>3. cut \in Nat
  <2>1. MaxResult \in Nat
    BY SearchBounds
  <2> QED BY <2>1 DEF Cut, Least
<1> HIDE DEF A, W, found, r, cut
<1>4. PICK U \in SUBSET A : \E p : \E n \in Nat :
        /\ Sorted(p, U) /\ found.contacts = Prefix(p, n) /\ cut <= n
        /\ Len(p) > n => found.truncated
        /\ ~found.error /\ ~found.scanLimit => \A c \in W \ U : found.truncated /\ Behind(c, U, cut)
  BY <1>1 DEF Found
<1>5. PICK p : \E n \in Nat :
        /\ Sorted(p, U) /\ found.contacts = Prefix(p, n) /\ cut <= n
        /\ Len(p) > n => found.truncated
        /\ ~found.error /\ ~found.scanLimit => \A c \in W \ U : found.truncated /\ Behind(c, U, cut)
  BY <1>4
<1>6. PICK n \in Nat :
        /\ Sorted(p, U) /\ found.contacts = Prefix(p, n) /\ cut <= n
        /\ Len(p) > n => found.truncated
        /\ ~found.error /\ ~found.scanLimit => \A c \in W \ U : found.truncated /\ Behind(c, U, cut)
  BY <1>5
<1>7. p \in Seq(U) /\ Len(p) \in Nat
  BY <1>6 DEF Sorted, Once
<1>8. kept = Prefix(p, cut)
  <2>1. Least(cut, n) = cut
    BY <1>3, <1>6 DEF Least
  <2> QED BY <1>3, <1>6, <1>7, <2>1, PrefixOfPrefix
<1> HIDE DEF kept
<1>9. /\ r.error = found.error /\ r.contacts = kept /\ r.scanLimit = found.scanLimit
      /\ r.truncated = (found.truncated \/ kept # found.contacts)
  BY <1>2, Zenon
<1>10. ASSUME Len(p) > cut PROVE r.truncated
  <2> SUFFICES ASSUME ~found.truncated PROVE kept # found.contacts
    BY <1>9
  <2>1. found.contacts = p
    BY <1>6, <1>7, WholePrefix
  <2>2. Len(kept) = cut
    <3>1. Len(Prefix(p, cut)) = Least(cut, Len(p))
      BY <1>3, <1>7, PrefixIs
    <3> QED BY <1>3, <1>7, <1>8, <1>10, <3>1 DEF Least
  <2> QED BY <1>3, <1>7, <1>10, <2>1, <2>2
<1>11. Answered(r, A, W, cut)
  BY <1>6, <1>8, <1>9, <1>10 DEF Answered
<1> QED BY <1>11 DEF r, A, W, cut

\* The answer of search_contacts is honest.
LEMMA SearchIsComplete ==
  ASSUME NEW books, SoundBooks(books), NEW restricted, NEW limit \in Nat, NEW honours
  PROVE  ContactsAreHonest(books, SearchContactsHandler(books, restricted, limit, honours))
<1> DEFINE A == MatchesIn(books, Len(books))
           W == WholeIn(books, Len(books))
           r == SearchContactsHandler(books, restricted, limit, honours)
           cut == Cut(limit)
<1>1. Answered(r, A, W, cut)
  BY HandlerAnswers
<1>2. Distinct(A)
  BY BooksApart
<1>3. cut \in Nat
  <2>1. MaxResult \in Nat
    BY SearchBounds
  <2> QED BY <2>1 DEF Cut, Least
<1>4. ToSet(books) = {books[i] : i \in 1..Len(books)}
  BY BooksApart DEF ToSet
<1>5. \A c \in A : c.match /\ \E b \in ToSet(books) : c \in CardsShown(b)
  BY <1>4 DEF MatchesIn, MatchesOf
<1>6. \A b \in ToSet(books) : ShownWhole(b) => \A c \in CardsShown(b) : c.match => c \in W
  BY <1>4 DEF WholeIn, WholeOf, MatchesOf
<1> HIDE DEF A, W, r, cut
<1>7. PICK U \in SUBSET A : \E p :
        /\ Sorted(p, U) /\ r.contacts = Prefix(p, cut)
        /\ Len(p) > cut => r.truncated
        /\ ~r.error /\ ~r.scanLimit => \A c \in W \ U : r.truncated /\ Behind(c, U, cut)
  BY <1>1 DEF Answered
<1>8. PICK p :
        /\ Sorted(p, U) /\ r.contacts = Prefix(p, cut)
        /\ Len(p) > cut => r.truncated
        /\ ~r.error /\ ~r.scanLimit => \A c \in W \ U : r.truncated /\ Behind(c, U, cut)
  BY <1>7
<1>9. /\ p \in Seq(U) /\ Len(p) \in Nat /\ Distinct(U)
      /\ \A x \in U : \E i \in 1..Len(p) : p[i] = x
      /\ \A i, j \in 1..Len(p) : i < j => Before(p[i], p[j])
  BY <1>2, <1>8 DEF Sorted, Once, Distinct
<1> DEFINE t == r.contacts
<1>10. /\ t \in Seq(U) /\ Len(t) = Least(cut, Len(p)) /\ DOMAIN t = 1..Len(t)
       /\ \A i \in 1..Len(t) : i \in 1..Len(p) /\ t[i] = p[i] /\ t[i] \in U /\ i <= cut
  <2>1. /\ Prefix(p, cut) \in Seq(U) /\ Len(Prefix(p, cut)) = Least(cut, Len(p))
        /\ \A i \in 1..Least(cut, Len(p)) : i \in 1..Len(p) /\ Prefix(p, cut)[i] = p[i]
    BY <1>3, <1>9, PrefixIs
  <2>2. \A i \in 1..Least(cut, Len(p)) : i <= cut
    BY <1>3, <1>9 DEF Least
  <2>3. t = Prefix(p, cut)
    BY <1>8
  <2> HIDE DEF t
  <2>4. t \in Seq(U) /\ Len(t) = Least(cut, Len(p))
    BY <2>1, <2>3
  <2>5. \A i \in 1..Len(t) : t[i] \in U
    BY <2>4
  <2> QED BY <2>1, <2>2, <2>3, <2>4, <2>5
<1> HIDE DEF t
<1>11. \A c \in ToSet(t) : c.match /\ \E b \in ToSet(books) : c \in CardsShown(b)
  <2>1. \A c \in ToSet(t) : c \in A
    BY <1>10 DEF ToSet
  <2> QED BY <1>5, <2>1
<1>12. \A i, j \in DOMAIN t : i < j => Before(t[i], t[j])
  BY <1>9, <1>10
<1>13. ASSUME ~r.error, ~r.scanLimit, NEW c \in W, c \notin ToSet(t)
       PROVE  r.truncated /\ \A i \in DOMAIN t : Before(t[i], c)
  <2>1. CASE c \in U
    <3>1. PICK m \in 1..Len(p) : p[m] = c
      BY <1>9, <2>1
    <3>2. m > cut
      <4> SUFFICES ASSUME m <= cut PROVE FALSE
        BY <1>3, <1>9
      <4>1. m \in 1..Len(t)
        BY <1>3, <1>9, <1>10, <3>1 DEF Least
      <4>2. t[m] = c
        BY <1>10, <3>1, <4>1
      <4> QED BY <1>10, <1>13, <4>1, <4>2 DEF ToSet
    <3>3. Len(p) > cut
      BY <1>3, <1>9, <3>1, <3>2
    <3>4. ASSUME NEW i \in DOMAIN t PROVE Before(t[i], c)
      <4>1. i \in 1..Len(p) /\ t[i] = p[i] /\ i < m
        BY <1>3, <1>9, <1>10, <3>2
      <4> QED BY <1>9, <3>1, <4>1
    <3> QED BY <1>8, <3>3, <3>4
  <2>2. CASE c \notin U
    <3>1. r.truncated /\ Behind(c, U, cut)
      BY <1>8, <1>13, <2>2
    <3>2. PICK S \in SUBSET U : \E s : Sorted(s, S) /\ Len(s) >= cut /\ \A i \in 1..Len(s) : Before(s[i], c)
      BY <3>1 DEF Behind
    <3>3. PICK s : Sorted(s, S) /\ Len(s) >= cut /\ \A i \in 1..Len(s) : Before(s[i], c)
      BY <3>2
    <3>4. Len(s) \in Nat /\ \A i \in 1..Len(s) : s[i] \in U
      <4>1. s \in Seq(S)
        BY <3>3 DEF Sorted, Once
      <4> QED BY <4>1
    <3>5. ASSUME NEW i \in DOMAIN t PROVE Before(t[i], c)
      <4>1. i \in 1..Len(p) /\ t[i] = p[i] /\ t[i] \in U /\ i \in 1..Len(s)
        BY <1>3, <1>10, <3>3, <3>4
      <4>2. PICK m \in 1..Len(p) : p[m] = s[i]
        BY <1>9, <3>4, <4>1
      <4>3. i <= m
        <5>1. \A x \in 1..Len(s), y \in 1..Len(p) : p[y] = s[x] => x <= y
          BY <1>8, <1>9, <3>3, LaterInMore
        <5> QED BY <4>1, <4>2, <5>1
      <4>4. t[i] = s[i] \/ Before(t[i], s[i])
        BY <1>9, <4>1, <4>2, <4>3
      <4>5. Before(s[i], c)
        BY <3>3, <4>1
      <4>6. t[i] \in Card /\ s[i] \in Card /\ U \subseteq Card
        BY <1>9, <3>4, <4>1 DEF Distinct
      <4>7. Before(t[i], s[i]) /\ Before(s[i], c) => Before(t[i], c)
        <5>1. c \in W /\ WholeIn(books, Len(books)) \subseteq A
          BY DEF W, A, WholeIn, WholeOf, MatchesIn
        <5>2. c \in A
          BY <5>1 DEF W
        <5> QED BY <1>2, <4>1, <3>4, <5>2, BeforeOrders
      <4> QED BY <4>4, <4>5, <4>7
    <3> QED BY <3>1, <3>5
  <2> QED BY <2>1, <2>2
<1>14. ContactsAreHonest(books, r)
  <2>1. ~r.error /\ ~r.scanLimit =>
          \A b \in ToSet(books) : ShownWhole(b) =>
            \A c \in CardsShown(b) \ ToSet(t) :
              c.match => r.truncated /\ \A i \in DOMAIN t : Before(t[i], c)
    BY <1>6, <1>13
  <2> QED BY <1>11, <1>12, <2>1 DEF ContactsAreHonest, t
<1> QED BY <1>14 DEF r

\* For all books, budgets and limits, with and without a restricted scope, and for
\* servers that heed the limit of a request and servers that do not: what
\* search_contacts lists are matching contacts in order, and a match that it lacks of
\* a book shown whole comes after them in an answer marked as cut, unless the answer
\* says that the scan was ended
\* (operations.go:SearchContacts, resources.go:searchScopedContacts).
THEOREM ContactSearchesAreHonest == JobSpec => []ContactSearchIsHonest
<1>1. JobInv => ContactSearchIsHonest
  <2> SUFFICES ASSUME JobInv, Done("search") PROVE ContactsAreHonest(job.case.books, result.value)
    BY DEF ContactSearchIsHonest
  <2> DEFINE c == job.case
             books == c.books
  <2>1. c \in SearchCases
    BY DEF JobInv, TakenFrom, Done
  <2>2. /\ books \in Seq(Book) /\ c.limit \in Nat
        /\ \A i, j \in DOMAIN books : \A x \in DOMAIN books[i].rows, y \in DOMAIN books[j].rows :
             books[i].rows[x].uid = books[j].rows[y].uid => i = j /\ x = y
    BY <2>1, SearchCasesAssumption
  <2>3. result.value = SearchContactsHandler(books, c.restricted, c.limit, c.honours)
    BY DEF JobInv
  <2> HIDE DEF c, books
  <2>4. /\ DOMAIN books = 1..Len(books)
        /\ \A i \in 1..Len(books) : DOMAIN books[i].rows = 1..Len(books[i].rows)
    <3>1. DOMAIN books = 1..Len(books) /\ \A i \in 1..Len(books) : books[i] \in Book
      BY <2>2
    <3>2. \A i \in 1..Len(books) : books[i].rows \in Seq(Card)
      BY <3>1 DEF Book
    <3> QED BY <3>1, <3>2
  <2>5. SoundBooks(books)
    <3>1. ASSUME NEW i \in 1..Len(books), NEW j \in 1..Len(books), NEW x \in 1..Len(books[i].rows),
                 NEW y \in 1..Len(books[j].rows), books[i].rows[x].uid = books[j].rows[y].uid
          PROVE  i = j /\ x = y
      <4>1. i \in DOMAIN books /\ j \in DOMAIN books /\ x \in DOMAIN books[i].rows /\ y \in DOMAIN books[j].rows
        BY <2>4, Zenon
      <4> QED BY <2>2, <3>1, <4>1, Zenon
    <3> QED BY <2>2, <3>1, Zenon DEF SoundBooks
  <2>6. ContactsAreHonest(books, result.value)
    BY <2>2, <2>3, <2>5, SearchIsComplete
  <2> QED BY <2>6 DEF books, c
<1> QED BY <1>1, JobInvariance, PTL

-----------------------------------------------------------------------------
(* The walk over the days of a window, where every midnight exists. *)

\* The day of an instant is the last one that has begun.
LEMMA LocalDayIs ==
  ASSUME EveryMidnightExists, NEW t \in Int, NEW d \in CivilDays, DayBegins[d] <= t
  PROVE  /\ LocalDay(t) \in CivilDays /\ LocalDay(t) >= d /\ LocalDay(t) = DayOf(t)
         /\ WallClock[LocalDay(t)][0] <= t
<1>1. \A x \in CivilDays : DayBegins[x] = WallClock[x][0]
  BY DEF EveryMidnightExists
<1>2. LocalDay(t) = DayOf(t)
  BY <1>1 DEF LocalDay, DayOf
<1>3. DayOf(t) \in CivilDays /\ WallClock[DayOf(t)][0] <= t
  BY <1>1, DayOfInstant
<1>4. DayOf(t) >= d
  <2>1. \E z \in CivilDays : WallClock[z][0] <= t /\ \A y \in CivilDays : WallClock[y][0] <= t => y <= z
    BY <1>1, LastDay
  <2>2. \A y \in CivilDays : WallClock[y][0] <= t => y <= DayOf(t)
    BY <2>1 DEF DayOf
  <2> QED BY <1>1, <1>3, <2>2, WallClockAssumption
<1> QED BY <1>2, <1>3, <1>4

LEMMA DayOfMidnight ==
  ASSUME EveryMidnightExists, NEW d \in CivilDays
  PROVE  LocalDay(WallClock[d][0]) = d
<1> DEFINE t == WallClock[d][0]
<1>1. t \in Int /\ DayBegins[d] = t /\ CivilDays \subseteq Int
  BY DayBeginsAssumption, WallClockAssumption DEF EveryMidnightExists
<1>2. \A x, y \in CivilDays : x < y => DayBegins[x] < DayBegins[y]
  BY DayBeginsAssumption
<1>3. \A x \in CivilDays : DayBegins[x] \in Int
  BY DayBeginsAssumption
<1>4. LocalDay(t) \in CivilDays /\ LocalDay(t) >= d /\ DayBegins[LocalDay(t)] <= t
  <2>1. LocalDay(t) \in CivilDays /\ LocalDay(t) >= d /\ WallClock[LocalDay(t)][0] <= t
    BY <1>1, <1>3, LocalDayIs
  <2> QED BY <2>1 DEF EveryMidnightExists
<1> DEFINE l == LocalDay(t)
<1>5. l \in Int /\ d \in Int /\ l \in CivilDays /\ l >= d /\ DayBegins[l] <= DayBegins[d]
  BY <1>1, <1>4
<1> HIDE DEF l
<1>6. ~(d < l)
  BY <1>2, <1>3, <1>5
<1>7. l = d
  BY <1>5, <1>6
<1> QED BY <1>7 DEF l

\* The walk stands at the midnight of a day, has visited the days asked for before
\* it, and the last of them had begun by the end of the window.
First(c) == DayOf(c.win.start) - (IF Overnight(c.opts) THEN 1 ELSE 0)

WalkInv ==
  /\ trip \in WalkCases
  /\ First(trip) \in CivilDays
  /\ \E d \in CivilDays :
       /\ midnight = WallClock[d][0] /\ d >= First(trip)
       /\ visited = {x \in CivilDays : /\ First(trip) <= x /\ x < d
                                       /\ trip.opts.days # {} => x \in trip.opts.days}
       /\ d > First(trip) => WallClock[d - 1][0] <= trip.win.end

LEMMA WalkStarts == EveryMidnightExists /\ WalkInit => WalkInv
<1> SUFFICES ASSUME EveryMidnightExists, WalkInit PROVE WalkInv
  OBVIOUS
<1> DEFINE t == trip.win.start
           s == DayOf(t)
           f == First(trip)
<1>1. trip \in WalkCases /\ midnight = FirstDay(trip) /\ visited = {}
  BY DEF WalkInit
<1>2. t \in Int /\ \E d \in CivilDays : DayBegins[d] <= t /\ d - 2 \in CivilDays
  BY <1>1, WalkCasesAssumption
<1>3. PICK d \in CivilDays : DayBegins[d] <= t /\ d - 2 \in CivilDays
  BY <1>2
<1> HIDE DEF t
<1>4. LocalDay(t) = s /\ s \in CivilDays /\ s >= d
  BY <1>2, <1>3, LocalDayIs
<1>5. s \in Int /\ s - 1 \in CivilDays
  BY <1>3, <1>4, WallClockAssumption
<1>6. LocalDay(WallClock[s][0]) = s
  BY <1>4, DayOfMidnight
<1> HIDE DEF s
<1>7. f \in CivilDays /\ f \in Int /\ midnight = WallClock[f][0]
  <2>1. CASE Overnight(trip.opts)
    <3>1. f = s - 1
      BY <2>1 DEF First, s, t
    <3>2. midnight = WallClock[s - 1][0]
      BY <1>1, <1>4, <1>6, <2>1 DEF FirstDay, StartOfLocalDay, PrevLocalCivilDay, t
    <3> QED BY <1>5, <3>1, <3>2
  <2>2. CASE ~Overnight(trip.opts)
    <3>1. f = s
      BY <1>5, <2>2 DEF First, s, t
    <3>2. midnight = WallClock[s][0]
      BY <1>1, <1>4, <2>2 DEF FirstDay, StartOfLocalDay, t
    <3> QED BY <1>4, <1>5, <3>1, <3>2
  <2> QED BY <2>1, <2>2
<1>8. \A x \in CivilDays : x \in Int
  BY WallClockAssumption
<1> HIDE DEF f
<1>9. visited = {x \in CivilDays : /\ f <= x /\ x < f
                                   /\ trip.opts.days # {} => x \in trip.opts.days}
  <2>1. \A x \in CivilDays : ~(f <= x /\ x < f)
    BY <1>7, <1>8
  <2> QED BY <1>1, <2>1
<1>10. f >= f /\ ~(f > f)
  BY <1>7
<1> QED BY <1>1, <1>7, <1>9, <1>10 DEF WalkInv, f

LEMMA WalkGoesOn == EveryMidnightExists /\ WalkInv /\ [WalkNext]_walkVars => WalkInv'
<1> SUFFICES ASSUME EveryMidnightExists, WalkInv, [WalkNext]_walkVars PROVE WalkInv'
  OBVIOUS
<1>1. CASE UNCHANGED walkVars
  BY <1>1 DEF WalkInv, walkVars
<1>2. CASE WalkNext
  <2> DEFINE f == First(trip)
             asked == trip.opts.days
  <2>1. /\ trip \in WalkCases /\ f \in CivilDays /\ trip' = trip
        /\ midnight <= trip.win.end /\ midnight' = NextLocalCivilDay(midnight)
    BY <1>2 DEF WalkInv, WalkNext, SkipDay, UseDay, Walking
  <2>2. PICK d \in CivilDays :
          /\ midnight = WallClock[d][0] /\ d >= f
          /\ visited = {x \in CivilDays : f <= x /\ x < d /\ (asked # {} => x \in asked)}
    BY DEF WalkInv
  <2>3. LocalDay(midnight) = d
    BY <2>2, DayOfMidnight
  <2>4. d \in Int /\ f \in Int /\ d + 1 \in CivilDays /\ \A x \in CivilDays : x \in Int
    <3>1. d + 2 \in CivilDays
      BY <2>1, <2>2, WalkCasesAssumption
    <3>2. PICK first \in CivilDays, last \in CivilDays : CivilDays = first..last
      BY WallClockAssumption
    <3>3. first \in Int /\ last \in Int /\ d \in Int /\ \A x \in CivilDays : x \in Int
      BY WallClockAssumption
    <3>4. d + 1 \in CivilDays
      BY <3>1, <3>2, <3>3
    <3> QED BY <2>1, <3>3, <3>4
  <2>5. midnight' = WallClock[d + 1][0]
    BY <2>1, <2>3 DEF NextLocalCivilDay
  <2> HIDE DEF f, asked
  <2>5a. (\A x \in CivilDays : x < d + 1 <=> x < d \/ x = d) /\ f <= d
    BY <2>2, <2>4
  <2>6. visited' = {x \in CivilDays : f <= x /\ x < d + 1 /\ (asked # {} => x \in asked)}
    <3>1. CASE SkipDay
      <4>1. visited' = visited /\ asked # {} /\ d \notin asked
        BY <2>3, <3>1 DEF SkipDay, DayFiltered, asked
      <4> QED BY <2>2, <2>5a, <4>1
    <3>2. CASE UseDay
      <4>1. visited' = visited \cup {d} /\ (asked # {} => d \in asked)
        BY <2>3, <3>2 DEF UseDay, DayFiltered, asked
      <4> QED BY <2>2, <2>5a, <4>1
    <3> QED BY <1>2, <3>1, <3>2 DEF WalkNext
  <2>7. d + 1 >= f /\ (d + 1) - 1 = d
    BY <2>2, <2>4
  <2>8. WallClock[(d + 1) - 1][0] <= trip.win.end
    BY <2>1, <2>2, <2>7
  <2>9. /\ trip' \in WalkCases /\ First(trip') \in CivilDays
        /\ midnight' = WallClock[d + 1][0] /\ d + 1 >= First(trip')
        /\ visited' = {x \in CivilDays : /\ First(trip') <= x /\ x < d + 1
                                         /\ trip'.opts.days # {} => x \in trip'.opts.days}
        /\ WallClock[(d + 1) - 1][0] <= trip'.win.end
    BY <2>1, <2>5, <2>6, <2>7, <2>8 DEF f, asked
  <2> QED BY <2>4, <2>9 DEF WalkInv
<1> QED BY <1>1, <1>2

\* In every zone in which every midnight exists, whatever the length of its days,
\* the window, the weekdays and the hours: the loop of clipWorkingHours intersects
\* the window with exactly the days that FreeSlots takes (freeslots.go).
THEOREM DayWalkIsExact ==
  ASSUME EveryMidnightExists
  PROVE  WalkSpec => []WalkIsExact
<1>1. WalkInv => WalkIsExact
  <2> SUFFICES ASSUME WalkInv, ~Walking PROVE visited = DaysWalked(trip.win, trip.opts)
    BY DEF WalkIsExact
  <2> DEFINE f == First(trip)
             asked == trip.opts.days
             end == trip.win.end
  <2>1. f \in CivilDays /\ end \in Int
    BY WalkCasesAssumption DEF WalkInv
  <2>2. PICK d \in CivilDays :
          /\ midnight = WallClock[d][0] /\ d >= f
          /\ visited = {x \in CivilDays : f <= x /\ x < d /\ (asked # {} => x \in asked)}
          /\ d > f => WallClock[d - 1][0] <= end
    BY DEF WalkInv
  <2>3. \A x, y \in CivilDays : x < y => WallClock[x][0] < WallClock[y][0]
    BY DayBeginsAssumption DEF EveryMidnightExists
  <2>4. (\A x \in CivilDays : x \in Int /\ WallClock[x][0] \in Int) /\ ~(WallClock[d][0] <= end)
    BY <2>2, WallClockAssumption DEF Walking
  <2>5. DaysWalked(trip.win, trip.opts)
          = {x \in CivilDays : x >= f /\ WallClock[x][0] <= end /\ (asked # {} => x \in asked)}
    BY DEF DaysWalked, First
  <2>6. PICK first \in CivilDays, last \in CivilDays : CivilDays = first..last
    BY WallClockAssumption
  <2> HIDE DEF f, asked, end
  <2>7. ASSUME NEW x \in CivilDays, f <= x PROVE x < d <=> WallClock[x][0] <= end
    <3>1. CASE x < d
      <4>1. d > f /\ d - 1 \in CivilDays /\ x <= d - 1
        BY <2>1, <2>4, <2>6, <2>7, <3>1
      <4>2. WallClock[x][0] <= WallClock[d - 1][0]
        BY <2>3, <2>4, <4>1
      <4> QED BY <2>1, <2>2, <2>4, <3>1, <4>1, <4>2
    <3>2. CASE ~(x < d)
      <4>1. WallClock[d][0] <= WallClock[x][0]
        BY <2>3, <2>4, <3>2
      <4> QED BY <2>1, <2>4, <3>2, <4>1
    <3> QED BY <3>1, <3>2
  <2> QED BY <2>1, <2>2, <2>4, <2>5, <2>7
<1> QED BY <1>1, WalkStarts, WalkGoesOn, PTL DEF WalkSpec
=============================================================================
