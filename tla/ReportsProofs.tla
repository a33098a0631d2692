---------------------------- MODULE ReportsProofs ---------------------------
(***************************************************************************)
(* The figures of a report, for any monitors and components, any rules,    *)
(* weights and agreed service time, any windows and any readings: what     *)
(* Compute adds up from intervals is what the finest bucket says second by *)
(* second.                                                                 *)
(***************************************************************************)
EXTENDS Reports, FiniteSetTheorems, FunctionTheorems, WellFoundedInduction, NaturalsInduction, TLAPS

\* Every set of numbers has a least one.
LEMMA LeastNat ==
    ASSUME NEW T \in SUBSET Nat, T # {}
    PROVE  \E x \in T : \A y \in T : x <= y
<1> DEFINE R == OpToRel(<, Nat)
<1>1. \A x, y \in Nat : x < y => <<x, y>> \in R
  BY DEF OpToRel
<1>2. PICK x \in T : \A y \in T : ~ (<<y, x>> \in R)
  <2>1. IsWellFoundedOn(R, Nat)
    BY NatLessThanWellFounded, Zenon
  <2> HIDE DEF R
  <2>. QED BY <2>1, WFMin
<1> HIDE DEF R
<1>3. \A y \in T : ~ (y < x)
  BY <1>1, <1>2, Zenon
<1>4. \A y \in T : x <= y
  BY <1>3
<1>. QED BY <1>4

-----------------------------------------------------------------------------
(* Lists of intervals, as sets, and in order.                              *)

Intervals == [from : Int, to : Int]
IsList(S) == S \subseteq Intervals /\ IsFiniteSet(S)

\* A second an interval covers.
In(iv, t) == iv.from <= t /\ t < iv.to

LEMMA ListElems ==
    ASSUME NEW s \in Seq(Intervals)
    PROVE  /\ Len(s) \in Nat
           /\ \A n \in 1..Len(s) : s[n] \in Intervals /\ s[n].from \in Int /\ s[n].to \in Int
<1>1. Len(s) \in Nat /\ \A n \in 1..Len(s) : s[n] \in Intervals
  OBVIOUS
<1>2. \A iv \in Intervals : iv.from \in Int /\ iv.to \in Int
  BY DEF Intervals
<1>. QED BY <1>1, <1>2

LEMMA IntervalIs ==
    ASSUME NEW a \in Int, NEW b \in Int
    PROVE  /\ Interval(a, b) \in Intervals /\ Interval(a, b).from = a /\ Interval(a, b).to = b
BY DEF Interval, Intervals

\* The seconds of a list are those its intervals cover.
LEMMA SecsIs ==
    ASSUME NEW S, S \subseteq Intervals
    PROVE  \A t : t \in Secs(S) <=> t \in Int /\ \E iv \in S : In(iv, t)
<1> SUFFICES ASSUME NEW t PROVE t \in Secs(S) <=> t \in Int /\ \E iv \in S : In(iv, t)
  OBVIOUS
<1>1. \A iv \in S : iv.from \in Int /\ iv.to \in Int
  BY DEF Intervals
<1>2. \A iv \in S : t \in iv.from..(iv.to - 1) <=> t \in Int /\ In(iv, t)
  BY <1>1 DEF In
<1>. QED BY <1>2 DEF Secs

\* How many intervals come before one.
Rank(S, x) == Cardinality({y \in S : Earlier(y, x)})

LEMMA RankBelow ==
    ASSUME NEW S, IsList(S), NEW x \in S
    PROVE  Rank(S, x) \in 0..(Cardinality(S) - 1) /\ Cardinality(S) \in Nat
<1> DEFINE T == {y \in S : Earlier(y, x)}
<1>1. IsFiniteSet(S) /\ Cardinality(S) \in Nat
  BY FS_CardinalityType DEF IsList
<1>2. x \notin T
  BY DEF IsList, Intervals, Earlier
<1>3. IsFiniteSet(S \ {x}) /\ Cardinality(S \ {x}) = Cardinality(S) - 1
  BY <1>1, FS_RemoveElement
<1>4. T \in SUBSET (S \ {x})
  BY <1>2
<1> HIDE DEF T
<1>5. IsFiniteSet(T) /\ Cardinality(T) <= Cardinality(S \ {x})
  BY <1>3, <1>4, FS_Subset
<1>6. Cardinality(T) \in Nat
  BY <1>5, FS_CardinalityType
<1>. QED BY <1>1, <1>3, <1>5, <1>6 DEF Rank, T

LEMMA RankGrows ==
    ASSUME NEW S, IsList(S), NEW x \in S, NEW y \in S, Earlier(x, y)
    PROVE  Rank(S, x) < Rank(S, y)
<1> DEFINE T == {z \in S : Earlier(z, x)}
           U == {z \in S : Earlier(z, y)}
<1>1. IsFiniteSet(S)
  BY DEF IsList
<1>2. x \in U /\ T \in SUBSET (U \ {x}) /\ U \in SUBSET S
  BY DEF IsList, Intervals, Earlier
<1> HIDE DEF T, U
<1>3. IsFiniteSet(U)
  BY <1>1, <1>2, FS_Subset
<1>4. IsFiniteSet(U \ {x}) /\ Cardinality(U \ {x}) = Cardinality(U) - 1
  BY <1>2, <1>3, FS_RemoveElement
<1>5. IsFiniteSet(T) /\ Cardinality(T) <= Cardinality(U \ {x})
  BY <1>2, <1>4, FS_Subset
<1>6. Cardinality(T) \in Nat /\ Cardinality(U) \in Nat
  BY <1>3, <1>5, FS_CardinalityType
<1>. QED BY <1>4, <1>5, <1>6 DEF Rank, T, U

LEMMA EarlierTotal ==
    ASSUME NEW x \in Intervals, NEW y \in Intervals
    PROVE  /\ Earlier(x, y) \/ Earlier(y, x) \/ x = y
           /\ ~(Earlier(x, y) /\ Earlier(y, x))
BY DEF Intervals, Earlier

\* Every place of the order is taken.
LEMMA RankOnto ==
    ASSUME NEW S, IsList(S), NEW n \in 0..(Cardinality(S) - 1)
    PROVE  \E x \in S : Rank(S, x) = n
<1> DEFINE f == [x \in S |-> Rank(S, x)]
           T == 0..(Cardinality(S) - 1)
<1>1. IsFiniteSet(S) /\ Cardinality(S) \in Nat
  BY FS_CardinalityType DEF IsList
<1>2. f \in [S -> T]
  BY RankBelow
<1>3. ASSUME NEW x \in S, NEW y \in S, f[x] = f[y] PROVE x = y
  <2>1. Rank(S, x) = Rank(S, y) /\ Rank(S, x) \in Int
    BY <1>3, RankBelow
  <2>2. ~Earlier(x, y) /\ ~Earlier(y, x)
    BY <2>1, RankGrows
  <2>3. x \in Intervals /\ y \in Intervals
    BY DEF IsList
  <2>. QED BY <2>2, <2>3, EarlierTotal
<1>4. IsFiniteSet(T) /\ Cardinality(T) = Cardinality(S)
  BY <1>1, FS_Interval
<1>5. f \in Injection(S, T)
  BY <1>2, <1>3 DEF Injection, IsInjective
<1> HIDE DEF f, T
<1>6. f \in Surjection(S, T)
  BY <1>4, <1>5, FS_Injection
<1>7. n \in T
  BY DEF T
<1>8. PICK x \in S : f[x] = n
  BY <1>6, <1>7 DEF Surjection
<1>. QED BY <1>8 DEF f

\* Sorted: every interval of the list is in its place.
LEMMA SortedIs ==
    ASSUME NEW S, IsList(S)
    PROVE  /\ Cardinality(S) \in Nat /\ Sorted(S) \in Seq(Intervals) /\ Len(Sorted(S)) = Cardinality(S)
           /\ \A n \in 1..Len(Sorted(S)) : Sorted(S)[n] \in S
           /\ \A x \in S : \E n \in 1..Len(Sorted(S)) : Sorted(S)[n] = x
           /\ \A m, n \in 1..Len(Sorted(S)) : m < n => Earlier(Sorted(S)[m], Sorted(S)[n])
<1> DEFINE k == Cardinality(S)
           s == Sorted(S)
           before == [x \in S |-> Rank(S, x)]
<1>1. k \in Nat
  BY FS_CardinalityType DEF IsList
<1>2. s = [n \in 1..k |-> CHOOSE x \in S : before[x] = n - 1]
  BY DEF Sorted, Rank
<1>3. ASSUME NEW n \in 1..k PROVE s[n] \in S /\ Rank(S, s[n]) = n - 1
  <2>1. n - 1 \in 0..(k - 1)
    BY <1>1
  <2>2. \E x \in S : before[x] = n - 1
    BY <2>1, RankOnto
  <2>3. s[n] = CHOOSE x \in S : before[x] = n - 1
    BY <1>2
  <2> HIDE DEF before
  <2>4. s[n] \in S /\ before[s[n]] = n - 1
    BY <2>2, <2>3
  <2>. QED BY <2>4 DEF before
<1>4. s \in [1..k -> Intervals]
  BY <1>2, <1>3 DEF IsList
<1>5. s \in Seq(Intervals) /\ Len(s) = k
  BY <1>1, <1>4
<1>6. ASSUME NEW x \in S PROVE \E n \in 1..k : s[n] = x
  <2>1. Rank(S, x) \in 0..(k - 1)
    BY RankBelow
  <2>2. Rank(S, x) + 1 \in 1..k
    BY <1>1, <2>1
  <2> DEFINE n == Rank(S, x) + 1
  <2>3. s[n] \in S /\ Rank(S, s[n]) = Rank(S, x)
    BY <1>3, <2>1, <2>2
  <2>4. ~Earlier(s[n], x) /\ ~Earlier(x, s[n])
    <3> HIDE DEF n, s
    <3>1. Rank(S, x) \in Int
      BY <2>1
    <3>. QED BY <2>3, <3>1, RankGrows
  <2>5. s[n] = x
    BY <2>3, <2>4, EarlierTotal DEF IsList
  <2>. QED BY <2>2, <2>5
<1>7. ASSUME NEW m \in 1..k, NEW n \in 1..k, m < n PROVE Earlier(s[m], s[n])
  <2>1. s[m] \in S /\ s[n] \in S /\ Rank(S, s[m]) = m - 1 /\ Rank(S, s[n]) = n - 1
    BY <1>3
  <2> HIDE DEF s
  <2>2. Earlier(s[n], s[m]) => Rank(S, s[n]) < Rank(S, s[m])
    BY <2>1, RankGrows
  <2>3. ~Earlier(s[n], s[m]) /\ s[m] # s[n]
    BY <2>1, <2>2, <1>7, <1>1
  <2>. QED BY <2>1, <2>3, EarlierTotal DEF IsList
<1>. QED BY <1>1, <1>3, <1>5, <1>6, <1>7

LEMMA MaxPair ==
    ASSUME NEW a \in Int, NEW b \in Int
    PROVE  Max({a, b}) \in {a, b} /\ Max({a, b}) \in Int /\ Max({a, b}) >= a /\ Max({a, b}) >= b
<1>1. \E x \in {a, b} : \A y \in {a, b} : x >= y
  OBVIOUS
<1>2. Max({a, b}) \in {a, b} /\ \A y \in {a, b} : Max({a, b}) >= y
  BY <1>1 DEF Max
<1>. QED BY <1>2

LEMMA MinPair ==
    ASSUME NEW a \in Int, NEW b \in Int
    PROVE  Min({a, b}) \in {a, b} /\ Min({a, b}) \in Int /\ Min({a, b}) <= a /\ Min({a, b}) <= b
<1>1. \E x \in {a, b} : \A y \in {a, b} : x <= y
  OBVIOUS
<1>2. Min({a, b}) \in {a, b} /\ \A y \in {a, b} : Min({a, b}) <= y
  BY <1>1 DEF Min
<1>. QED BY <1>2

-----------------------------------------------------------------------------
(* Merge.                                                                  *)

\* What the list has become after so many intervals, each from the one before.
JoinStep(f, s, n) ==
    f = [i \in 1..n |-> IF i = 1 THEN [out |-> {}, last |-> s[1]] ELSE Join(f[i - 1], s[i])]

LEMMA JoinsExist ==
    ASSUME NEW s, NEW n \in Nat
    PROVE  \E f : JoinStep(f, s, n)
<1> DEFINE Missing == {k \in Nat : ~ \E f : JoinStep(f, s, k)}
<1>1. Missing = {}
  <2> SUFFICES ASSUME Missing # {} PROVE FALSE
    OBVIOUS
  <2>1. PICK k \in Missing : \A j \in Missing : k <= j
    <3>1. Missing \in SUBSET Nat
      OBVIOUS
    <3> HIDE DEF Missing
    <3>. QED BY <3>1, LeastNat
  <2>2. CASE k = 0
    <3> DEFINE f == [i \in 1..0 |-> 0]
    <3>1. JoinStep(f, s, 0)
      BY DEF JoinStep
    <3>. QED BY <2>1, <2>2, <3>1
  <2>3. CASE k # 0
    <3>1. k - 1 \in Nat /\ k - 1 \notin Missing
      BY <2>1, <2>3
    <3>2. PICK g : JoinStep(g, s, k - 1)
      BY <3>1
    <3> DEFINE f == [i \in 1..k |-> IF i < k THEN g[i]
                                    ELSE IF i = 1 THEN [out |-> {}, last |-> s[1]] ELSE Join(g[i - 1], s[i])]
    <3>3. \A i \in 1..(k - 1) : g[i] = IF i = 1 THEN [out |-> {}, last |-> s[1]] ELSE Join(g[i - 1], s[i])
      BY <3>2 DEF JoinStep
    <3>4. \A i \in 1..k : f[i] = IF i = 1 THEN [out |-> {}, last |-> s[1]] ELSE Join(f[i - 1], s[i])
      <4> SUFFICES ASSUME NEW i \in 1..k
                   PROVE  f[i] = IF i = 1 THEN [out |-> {}, last |-> s[1]] ELSE Join(f[i - 1], s[i])
        OBVIOUS
      <4>1. i # 1 => i - 1 \in 1..k /\ i - 1 < k
        BY <2>1
      <4>2. i # 1 => f[i - 1] = g[i - 1]
        BY <4>1
      <4>3. f[i] = IF i = 1 THEN [out |-> {}, last |-> s[1]] ELSE Join(g[i - 1], s[i])
        <5>1. CASE i < k
          <6>1. i \in 1..(k - 1) /\ f[i] = g[i]
            BY <5>1, <2>1
          <6>. QED BY <6>1, <3>3
        <5>2. CASE ~(i < k)
          BY <5>2
        <5>. QED BY <5>1, <5>2
      <4> HIDE DEF f
      <4>. QED BY <4>2, <4>3
    <3>5. f = [i \in 1..k |-> f[i]]
      OBVIOUS
    <3> HIDE DEF f
    <3>6. JoinStep(f, s, k)
      BY <3>4, <3>5 DEF JoinStep
    <3>. QED BY <2>1, <3>6
  <2>. QED BY <2>2, <2>3
<1>. QED BY <1>1

LEMMA JoinsAre ==
    ASSUME NEW s \in Seq(Intervals), Len(s) > 0
    PROVE  /\ Joins(s)[1] = [out |-> {}, last |-> s[1]]
           /\ \A i \in 2..Len(s) : Joins(s)[i] = Join(Joins(s)[i - 1], s[i])
<1>0. Len(s) \in Nat
  OBVIOUS
<1>1. \E f : JoinStep(f, s, Len(s))
  BY <1>0, JoinsExist, Zenon
<1>2. Joins(s) = CHOOSE f : JoinStep(f, s, Len(s))
  BY DEF Joins, JoinStep
<1>3. JoinStep(Joins(s), s, Len(s))
  BY <1>1, <1>2
<1>4. \A i \in 1..Len(s) : Joins(s)[i] = IF i = 1 THEN [out |-> {}, last |-> s[1]]
                                         ELSE Join(Joins(s)[i - 1], s[i])
  BY <1>3 DEF JoinStep
<1>5. 1 \in 1..Len(s) /\ \A i \in 2..Len(s) : i \in 1..Len(s) /\ i # 1
  BY <1>0
<1>. QED BY <1>4, <1>5, Zenon

\* A list in order, of intervals that are not empty.
InOrder(s) ==
    /\ s \in Seq(Intervals)
    /\ \A i \in 1..Len(s) : s[i].from < s[i].to
    /\ \A i, j \in 1..Len(s) : i < j => s[i].from <= s[j].from

\* What has become of the first n intervals: apart, in order, the last one open.
Joined(j, s, n) ==
    /\ IsList(j.out) /\ j.last \in Intervals
    /\ Normal(j.out) /\ j.last.from < j.last.to
    /\ \A iv \in j.out : iv.to < j.last.from
    /\ j.last.from <= s[n].from
    /\ \A t \in Int : (In(j.last, t) \/ \E iv \in j.out : In(iv, t)) <=> \E i \in 1..n : In(s[i], t)

LEMMA JoinKeeps ==
    ASSUME NEW s, InOrder(s), NEW n \in 1..(Len(s) - 1), NEW j, Joined(j, s, n)
    PROVE  Joined(Join(j, s[n + 1]), s, n + 1)
<1> DEFINE iv == s[n + 1]
           k == Join(j, iv)
<1>0. Len(s) \in Nat /\ n \in 1..Len(s) /\ n + 1 \in 1..Len(s) /\ n < n + 1
  BY DEF InOrder
<1>1. /\ iv \in Intervals /\ iv.from \in Int /\ iv.to \in Int /\ iv.from < iv.to
      /\ s[n].from <= iv.from /\ s[n].from \in Int
  <2>1. s[n] \in Intervals /\ iv \in Intervals
    BY <1>0 DEF InOrder
  <2>2. iv.from < iv.to /\ s[n].from <= iv.from
    BY <1>0 DEF InOrder
  <2>. QED BY <2>1, <2>2 DEF Intervals
<1>2. /\ j.last \in Intervals /\ j.last.from \in Int /\ j.last.to \in Int /\ j.last.from < j.last.to
      /\ j.last.from <= iv.from
  BY <1>1 DEF Joined, Intervals
<1>3. \A t \in Int : (\E i \in 1..(n + 1) : In(s[i], t)) <=> In(iv, t) \/ \E i \in 1..n : In(s[i], t)
  BY <1>0
<1>4. CASE iv.from <= j.last.to
  <2> DEFINE m == Max({j.last.to, iv.to})
             l == Interval(j.last.from, m)
  <2>1. m \in {j.last.to, iv.to} /\ m \in Int /\ m >= j.last.to /\ m >= iv.to
    BY <1>1, <1>2, MaxPair
  <2>2. k = [out |-> j.out, last |-> l]
    BY <1>4 DEF Join
  <2> HIDE DEF m
  <2>3. l \in Intervals /\ l.from = j.last.from /\ l.to = m
    BY <1>2, <2>1, IntervalIs
  <2> HIDE DEF l
  <2>4. \A t \in Int : In(l, t) <=> In(j.last, t) \/ In(iv, t)
    BY <1>1, <1>2, <1>4, <2>1, <2>3 DEF In
  <2>5. k.out = j.out /\ k.last = l
    BY <2>2
  <2> HIDE DEF k, iv
  <2>6. \A t \in Int : (In(k.last, t) \/ \E x \in k.out : In(x, t)) <=> \E i \in 1..(n + 1) : In(s[i], t)
    BY <1>3, <2>4, <2>5 DEF Joined
  <2>7. l.from < l.to /\ l.from <= iv.from /\ \A x \in k.out : x.to < l.from
    BY <1>1, <1>2, <2>1, <2>3, <2>5 DEF Joined
  <2>8. /\ k.last \in Intervals /\ k.last.from < k.last.to /\ k.last.from <= iv.from
        /\ IsList(k.out) /\ Normal(k.out) /\ \A x \in k.out : x.to < k.last.from
    BY <2>3, <2>5, <2>7 DEF Joined
  <2>9. Joined(k, s, n + 1)
    BY <2>6, <2>8 DEF Joined, iv
  <2>. QED BY <2>9 DEF k, iv
<1>5. CASE ~(iv.from <= j.last.to)
  <2>1. k = [out |-> j.out \cup {j.last}, last |-> iv]
    BY <1>5 DEF Join
  <2>2. k.out = j.out \cup {j.last} /\ k.last = iv
    BY <2>1
  <2> HIDE DEF k, iv
  <2>3. \A t \in Int : (In(k.last, t) \/ \E x \in k.out : In(x, t)) <=> \E i \in 1..(n + 1) : In(s[i], t)
    BY <1>3, <2>2 DEF Joined
  <2>4. IsList(k.out)
    BY <1>2, <2>2, FS_AddElement DEF Joined, IsList
  <2>5. Normal(k.out)
    BY <1>2, <2>2 DEF Joined, Normal
  <2>6. \A x \in k.out : x.to < k.last.from
    <3>1. \A x \in j.out : x.to \in Int /\ x.to < j.last.from
      BY DEF Joined, IsList, Intervals
    <3>. QED BY <3>1, <1>1, <1>2, <1>5, <2>2
  <2>7. k.last \in Intervals /\ k.last.from < k.last.to /\ k.last.from <= iv.from
    BY <1>1, <2>2
  <2>8. Joined(k, s, n + 1)
    BY <2>3, <2>4, <2>5, <2>6, <2>7 DEF Joined, iv
  <2>. QED BY <2>8 DEF k, iv
<1>. QED BY <1>4, <1>5

LEMMA JoinedAll ==
    ASSUME NEW s, InOrder(s), NEW n \in 1..Len(s)
    PROVE  Joined(Joins(s)[n], s, n)
<1> DEFINE Wrong == {k \in 1..Len(s) : ~Joined(Joins(s)[k], s, k)}
<1>0. s \in Seq(Intervals) /\ Len(s) \in Nat /\ Len(s) > 0
  BY DEF InOrder
<1>1. Joined(Joins(s)[1], s, 1)
  <2> DEFINE j == [out |-> {}, last |-> s[1]]
  <2>1. Joins(s)[1] = j
    BY <1>0, JoinsAre
  <2>2. j.out = {} /\ j.last = s[1]
    OBVIOUS
  <2>3. 1 \in 1..Len(s) /\ s[1] \in Intervals /\ s[1].from < s[1].to
    BY <1>0 DEF InOrder
  <2> HIDE DEF j
  <2>4. IsList({}) /\ Normal({})
    BY FS_EmptySet DEF IsList, Normal
  <2>5. s[1].from <= s[1].from
    BY <2>3 DEF Intervals
  <2>6. \A t \in Int : (In(j.last, t) \/ \E iv \in j.out : In(iv, t)) <=> \E i \in 1..1 : In(s[i], t)
    BY <2>2
  <2>7. Joined(j, s, 1)
    BY <2>2, <2>3, <2>4, <2>5, <2>6 DEF Joined
  <2>. QED BY <2>1, <2>7
<1>2. Wrong = {}
  <2> SUFFICES ASSUME Wrong # {} PROVE FALSE
    OBVIOUS
  <2>1. PICK k \in Wrong : \A j \in Wrong : k <= j
    <3>1. Wrong \in SUBSET Nat
      OBVIOUS
    <3> HIDE DEF Wrong
    <3>. QED BY <3>1, LeastNat
  <2>2. k # 1
    BY <1>1, <2>1
  <2>3. k - 1 \in 1..(Len(s) - 1) /\ k - 1 \notin Wrong /\ k \in 2..Len(s) /\ k - 1 \in 1..Len(s)
    BY <1>0, <2>1, <2>2
  <2>4. Joined(Joins(s)[k - 1], s, k - 1)
    BY <2>3
  <2>5. Joins(s)[k] = Join(Joins(s)[k - 1], s[k])
    BY <1>0, <2>3, JoinsAre, Zenon
  <2>6. Joined(Join(Joins(s)[k - 1], s[(k - 1) + 1]), s, (k - 1) + 1)
    BY <2>3, <2>4, JoinKeeps
  <2>7. Joined(Joins(s)[k], s, k)
    <3>1. (k - 1) + 1 = k
      BY <2>3
    <3>. QED BY <2>5, <2>6, <3>1
  <2>. QED BY <2>1, <2>7
<1>. QED BY <1>2

\* The empty intervals of a list cover nothing.
LEMMA Occupied ==
    ASSUME NEW S, IsList(S)
    PROVE  LET T == {iv \in S : iv.to > iv.from}
           IN  /\ IsList(T) /\ InOrder(Sorted(T))
               /\ \A t \in Int : (\E iv \in S : In(iv, t)) <=> \E n \in 1..Len(Sorted(T)) : In(Sorted(T)[n], t)
<1> DEFINE T == {iv \in S : iv.to > iv.from}
           s == Sorted(T)
<1>1. IsList(T) /\ T \subseteq S
  BY FS_Subset DEF IsList
<1>2. \A iv \in S : iv.from \in Int /\ iv.to \in Int
  BY DEF IsList, Intervals
<1>3. \A t \in Int : (\E iv \in S : In(iv, t)) <=> \E iv \in T : In(iv, t)
  <2>1. ASSUME NEW t \in Int, NEW iv \in S, In(iv, t) PROVE iv \in T
    BY <1>2, <2>1 DEF In
  <2>. QED BY <1>1, <2>1
<1>4. \A iv \in T : iv.from < iv.to
  BY <1>2
<1> HIDE DEF T
<1>5. /\ s \in Seq(Intervals) /\ \A n \in 1..Len(s) : s[n] \in T
      /\ \A x \in T : \E n \in 1..Len(s) : s[n] = x
      /\ \A m, n \in 1..Len(s) : m < n => Earlier(s[m], s[n])
  BY <1>1, SortedIs
<1> HIDE DEF s
<1>6. InOrder(s)
  <2>1. \A m, n \in 1..Len(s) : m < n => s[m].from <= s[n].from
    <3> SUFFICES ASSUME NEW m \in 1..Len(s), NEW n \in 1..Len(s), m < n PROVE s[m].from <= s[n].from
      OBVIOUS
    <3>1. Earlier(s[m], s[n]) /\ s[m] \in S /\ s[n] \in S
      BY <1>1, <1>5
    <3>. QED BY <1>2, <3>1 DEF Earlier
  <2>. QED BY <1>4, <1>5, <2>1 DEF InOrder
<1>7. \A t \in Int : (\E iv \in T : In(iv, t)) <=> \E n \in 1..Len(s) : In(s[n], t)
  BY <1>5
<1>. QED BY <1>1, <1>3, <1>6, <1>7 DEF s, T

\* Merge: the same seconds, in intervals that neither overlap nor touch.
LEMMA MergeIs ==
    ASSUME NEW S, IsList(S)
    PROVE  /\ IsList(Merge(S)) /\ Normal(Merge(S))
           /\ \A t \in Int : (\E iv \in Merge(S) : In(iv, t)) <=> \E iv \in S : In(iv, t)
<1> DEFINE s == Sorted({iv \in S : iv.to > iv.from})
           j == Joins(s)[Len(s)]
<1>1. /\ InOrder(s)
      /\ \A t \in Int : (\E iv \in S : In(iv, t)) <=> \E n \in 1..Len(s) : In(s[n], t)
  BY Occupied
<1>2. Merge(S) = IF Len(s) = 0 THEN {} ELSE j.out \cup {j.last}
  BY DEF Merge
<1> HIDE DEF s
<1>3. Len(s) \in Nat
  BY <1>1 DEF InOrder
<1>4. CASE Len(s) = 0
  <2>1. IsList({}) /\ Normal({})
    BY FS_EmptySet DEF IsList, Normal
  <2>2. 1..Len(s) = {}
    BY <1>4
  <2>. QED BY <1>1, <1>2, <1>4, <2>1, <2>2
<1>5. CASE Len(s) # 0
  <2>1. Len(s) \in 1..Len(s)
    BY <1>3, <1>5
  <2>2. Joined(j, s, Len(s))
    BY <1>1, <2>1, JoinedAll
  <2> DEFINE M == Merge(S)
  <2>3. M = j.out \cup {j.last}
    BY <1>2, <1>5
  <2> HIDE DEF j, M
  <2>4. IsList(M)
    BY <2>2, <2>3, FS_AddElement DEF Joined, IsList
  <2>5. Normal(M)
    BY <2>2, <2>3 DEF Joined, Normal
  <2>6. \A t \in Int : (\E iv \in M : In(iv, t)) <=> \E n \in 1..Len(s) : In(s[n], t)
    BY <2>2, <2>3 DEF Joined
  <2>. QED BY <1>1, <2>4, <2>5, <2>6 DEF M
<1>. QED BY <1>4, <1>5

\* A sorted list of intervals that neither overlap nor touch.
Apart(s) ==
    /\ s \in Seq(Intervals)
    /\ \A i \in 1..Len(s) : s[i].from < s[i].to
    /\ \A i, j \in 1..Len(s) : i < j => s[i].to < s[j].from

LEMMA MergedApart ==
    ASSUME NEW S, IsList(S)
    PROVE  LET s == Sorted(Merge(S))
           IN  /\ Apart(s) /\ Len(s) \in Nat
               /\ \A t \in Int : (\E n \in 1..Len(s) : In(s[n], t)) <=> \E iv \in S : In(iv, t)
<1> DEFINE M == Merge(S)
           s == Sorted(M)
<1>1. IsList(M) /\ Normal(M) /\ \A t \in Int : (\E iv \in M : In(iv, t)) <=> \E iv \in S : In(iv, t)
  BY MergeIs
<1> HIDE DEF M
<1>2. /\ s \in Seq(Intervals) /\ Len(s) = Cardinality(M) /\ Cardinality(M) \in Nat
      /\ \A n \in 1..Len(s) : s[n] \in M
      /\ \A x \in M : \E n \in 1..Len(s) : s[n] = x
      /\ \A m, n \in 1..Len(s) : m < n => Earlier(s[m], s[n])
  BY <1>1, SortedIs
<1> HIDE DEF s
<1>3. \A t \in Int : (\E n \in 1..Len(s) : In(s[n], t)) <=> \E iv \in M : In(iv, t)
  BY <1>2
<1>4. \A m, n \in 1..Len(s) : m < n => s[m].to < s[n].from
  <2> SUFFICES ASSUME NEW m \in 1..Len(s), NEW n \in 1..Len(s), m < n PROVE s[m].to < s[n].from
    OBVIOUS
  <2>1. s[m] \in M /\ s[n] \in M /\ Earlier(s[m], s[n])
    BY <1>2
  <2>2. \A iv \in M : iv.from \in Int /\ iv.to \in Int /\ iv.from < iv.to
    BY <1>1 DEF IsList, Intervals, Normal
  <2>3. s[m] # s[n]
    BY <2>1, <2>2 DEF Earlier
  <2>4. s[m].to < s[n].from \/ s[n].to < s[m].from
    BY <1>1, <2>1, <2>3 DEF Normal
  <2>. QED BY <2>1, <2>2, <2>4 DEF Earlier
<1>5. \A n \in 1..Len(s) : s[n].from < s[n].to
  <2>1. \A iv \in M : iv.from \in Int /\ iv.to \in Int /\ iv.from < iv.to
    BY <1>1 DEF IsList, Intervals, Normal
  <2>. QED BY <1>2, <2>1
<1>6. Apart(s)
  BY <1>2, <1>4, <1>5 DEF Apart
<1>. QED BY <1>1, <1>2, <1>3, <1>6 DEF s, M

-----------------------------------------------------------------------------
(* Intersect.                                                              *)

PassStep(f, xs, ys, n) ==
    f = [k \in 0..n |-> IF k = 0 THEN [i |-> 1, j |-> 1, out |-> {}] ELSE Pass(f[k - 1], xs, ys)]

LEMMA PassesExist ==
    ASSUME NEW xs, NEW ys, NEW n \in Nat
    PROVE  \E f : PassStep(f, xs, ys, n)
<1> DEFINE Missing == {k \in Nat : ~ \E f : PassStep(f, xs, ys, k)}
           start == [i |-> 1, j |-> 1, out |-> {}]
<1>1. Missing = {}
  <2> SUFFICES ASSUME Missing # {} PROVE FALSE
    OBVIOUS
  <2>1. PICK k \in Missing : \A j \in Missing : k <= j
    <3>1. Missing \in SUBSET Nat
      OBVIOUS
    <3> HIDE DEF Missing
    <3>. QED BY <3>1, LeastNat
  <2>2. CASE k = 0
    <3> DEFINE f == [m \in 0..0 |-> start]
    <3>1. PassStep(f, xs, ys, 0)
      BY DEF PassStep
    <3>. QED BY <2>1, <2>2, <3>1
  <2>3. CASE k # 0
    <3>1. k - 1 \in Nat /\ k - 1 \notin Missing
      BY <2>1, <2>3
    <3>2. PICK g : PassStep(g, xs, ys, k - 1)
      BY <3>1
    <3> DEFINE f == [m \in 0..k |-> IF m = k THEN Pass(g[k - 1], xs, ys) ELSE g[m]]
    <3>3. \A m \in 0..(k - 1) : g[m] = IF m = 0 THEN start ELSE Pass(g[m - 1], xs, ys)
      BY <3>2 DEF PassStep
    <3> HIDE DEF start
    <3>4. \A m \in 0..k : f[m] = IF m = 0 THEN start ELSE Pass(f[m - 1], xs, ys)
      BY <2>1, <2>3, <3>3
    <3>5. f = [m \in 0..k |-> f[m]]
      OBVIOUS
    <3> HIDE DEF f
    <3>6. PassStep(f, xs, ys, k)
      BY <3>4, <3>5 DEF PassStep, start
    <3>. QED BY <2>1, <3>6
  <2>. QED BY <2>2, <2>3
<1>. QED BY <1>1

LEMMA PassesAre ==
    ASSUME NEW xs \in Seq(Intervals), NEW ys \in Seq(Intervals)
    PROVE  /\ Passes(xs, ys)[0] = [i |-> 1, j |-> 1, out |-> {}]
           /\ \A n \in 1..(Len(xs) + Len(ys)) : Passes(xs, ys)[n] = Pass(Passes(xs, ys)[n - 1], xs, ys)
<1> DEFINE k == Len(xs) + Len(ys)
<1>0. k \in Nat
  OBVIOUS
<1>1. \E f : PassStep(f, xs, ys, k)
  BY <1>0, PassesExist, Zenon
<1>2. Passes(xs, ys) = CHOOSE f : PassStep(f, xs, ys, k)
  BY DEF Passes, PassStep
<1>3. PassStep(Passes(xs, ys), xs, ys, k)
  BY <1>1, <1>2
<1> HIDE DEF k
<1>4. \A n \in 0..k : Passes(xs, ys)[n] = IF n = 0 THEN [i |-> 1, j |-> 1, out |-> {}]
                                         ELSE Pass(Passes(xs, ys)[n - 1], xs, ys)
  BY <1>3 DEF PassStep
<1>5. 0 \in 0..k /\ \A n \in 1..k : n \in 0..k /\ n # 0
  BY <1>0
<1>6. \A n \in 1..k : Passes(xs, ys)[n] = Pass(Passes(xs, ys)[n - 1], xs, ys)
  BY <1>4, <1>5, Zenon
<1>7. Passes(xs, ys)[0] = [i |-> 1, j |-> 1, out |-> {}]
  BY <1>4, <1>5, Zenon
<1>. QED BY <1>6, <1>7 DEF k

\* A second both lists cover, from some place of each on.
Both(xs, ys, i, j, t) ==
    \E p \in 1..Len(xs), q \in 1..Len(ys) : p >= i /\ q >= j /\ In(xs[p], t) /\ In(ys[q], t)

\* What two intervals share.
Shared(a, b) == Interval(Max({a.from, b.from}), Min({a.to, b.to}))

\* Every interval found is what one of each list share, and not empty.
Found(out, xs, ys) ==
    \A iv \in out : /\ iv.to > iv.from
                    /\ \E p \in 1..Len(xs), q \in 1..Len(ys) : iv = Shared(xs[p], ys[q])

\* After n steps of two lists: each step has moved one of them on, until one is
\* done; what both cover has been found or is still ahead.
Passed(s, xs, ys, n) ==
    /\ s.i \in 1..(Len(xs) + 1) /\ s.j \in 1..(Len(ys) + 1)
    /\ s.i > Len(xs) \/ s.j > Len(ys) \/ s.i + s.j = n + 2
    /\ IsList(s.out) /\ Found(s.out, xs, ys)
    /\ \A t \in Int : (\E iv \in s.out : In(iv, t)) \/ Both(xs, ys, s.i, s.j, t) <=> Both(xs, ys, 1, 1, t)

\* Where the first of two intervals ends before the second, and the rest of the second
\* list is later still, the first meets nothing else.
LEMMA FirstEnds ==
    ASSUME NEW xs, NEW ys, Apart(xs), Apart(ys), NEW i \in 1..Len(xs), NEW j \in 1..Len(ys),
           xs[i].to <= ys[j].to, NEW t \in Int
    PROVE  Both(xs, ys, i, j, t) <=> (In(xs[i], t) /\ In(ys[j], t)) \/ Both(xs, ys, i + 1, j, t)
<1>1. Len(xs) \in Nat /\ Len(ys) \in Nat /\ xs \in Seq(Intervals) /\ ys \in Seq(Intervals)
  BY DEF Apart
<1>2. \A p \in 1..Len(xs) : xs[p].from \in Int /\ xs[p].to \in Int
  BY <1>1, ListElems
<1>3. \A q \in 1..Len(ys) : ys[q].from \in Int /\ ys[q].to \in Int
  BY <1>1, ListElems
<1>4. ASSUME NEW q \in 1..Len(ys), q > j, In(xs[i], t) PROVE ~In(ys[q], t)
  <2>1. ys[j].to < ys[q].from
    BY <1>4 DEF Apart
  <2>. QED BY <1>2, <1>3, <1>4, <2>1 DEF In
<1>5. ASSUME Both(xs, ys, i, j, t) PROVE (In(xs[i], t) /\ In(ys[j], t)) \/ Both(xs, ys, i + 1, j, t)
  <2>1. PICK p \in 1..Len(xs), q \in 1..Len(ys) : p >= i /\ q >= j /\ In(xs[p], t) /\ In(ys[q], t)
    BY <1>5 DEF Both
  <2>2. CASE p = i
    <3>1. q = j
      BY <2>1, <2>2, <1>4
    <3>. QED BY <2>1, <2>2, <3>1
  <2>3. CASE p # i
    <3>1. p >= i + 1
      BY <2>1, <2>3
    <3>. QED BY <2>1, <3>1 DEF Both
  <2>. QED BY <2>2, <2>3
<1>6. ASSUME Both(xs, ys, i + 1, j, t) PROVE Both(xs, ys, i, j, t)
  <2>1. PICK p \in 1..Len(xs), q \in 1..Len(ys) : p >= i + 1 /\ q >= j /\ In(xs[p], t) /\ In(ys[q], t)
    BY <1>6 DEF Both
  <2>2. p >= i
    BY <2>1
  <2>. QED BY <2>1, <2>2 DEF Both
<1>7. ASSUME In(xs[i], t), In(ys[j], t) PROVE Both(xs, ys, i, j, t)
  BY <1>7 DEF Both
<1>. QED BY <1>5, <1>6, <1>7

LEMMA SecondEnds ==
    ASSUME NEW xs, NEW ys, Apart(xs), Apart(ys), NEW i \in 1..Len(xs), NEW j \in 1..Len(ys),
           ys[j].to <= xs[i].to, NEW t \in Int
    PROVE  Both(xs, ys, i, j, t) <=> (In(xs[i], t) /\ In(ys[j], t)) \/ Both(xs, ys, i, j + 1, t)
<1>1. \A p, q : Both(xs, ys, p, q, t) <=> Both(ys, xs, q, p, t)
  BY DEF Both
<1>2. Both(ys, xs, j, i, t) <=> (In(ys[j], t) /\ In(xs[i], t)) \/ Both(ys, xs, j + 1, i, t)
  BY FirstEnds
<1>. QED BY <1>1, <1>2

\* One step finds what the two intervals at hand share, and passes the one that ends
\* first.
LEMMA PassKeeps ==
    ASSUME NEW xs, NEW ys, Apart(xs), Apart(ys), NEW n \in Nat, NEW s, Passed(s, xs, ys, n)
    PROVE  Passed(Pass(s, xs, ys), xs, ys, n + 1)
<1> DEFINE k == Pass(s, xs, ys)
<1>1. Len(xs) \in Nat /\ Len(ys) \in Nat /\ s.i \in Int /\ s.j \in Int
  BY ListElems DEF Apart, Passed
<1>2. CASE s.i > Len(xs) \/ s.j > Len(ys)
  <2>1. k = s
    BY <1>2 DEF Pass
  <2>. QED BY <1>2, <2>1 DEF Passed
<1>3. CASE ~(s.i > Len(xs) \/ s.j > Len(ys))
  <2> DEFINE a == xs[s.i]
             b == ys[s.j]
             f == Max({a.from, b.from})
             g == Min({a.to, b.to})
             both == Interval(f, g)
  <2>1. s.i \in 1..Len(xs) /\ s.j \in 1..Len(ys) /\ s.i + s.j = n + 2
    BY <1>1, <1>3 DEF Passed
  <2>2. a.from \in Int /\ a.to \in Int /\ b.from \in Int /\ b.to \in Int
    BY <2>1, ListElems DEF Apart
  <2>3. k = [i |-> IF a.to < b.to THEN s.i + 1 ELSE s.i, j |-> IF a.to < b.to THEN s.j ELSE s.j + 1,
             out |-> IF both.to > both.from THEN s.out \cup {both} ELSE s.out]
    BY <1>3 DEF Pass
  <2>4. /\ k.i = (IF a.to < b.to THEN s.i + 1 ELSE s.i) /\ k.j = (IF a.to < b.to THEN s.j ELSE s.j + 1)
        /\ k.out = IF both.to > both.from THEN s.out \cup {both} ELSE s.out
    BY <2>3
  <2> HIDE DEF k
  <2>5. f \in {a.from, b.from} /\ f \in Int /\ f >= a.from /\ f >= b.from
    BY <2>2, MaxPair
  <2>6. g \in {a.to, b.to} /\ g \in Int /\ g <= a.to /\ g <= b.to
    BY <2>2, MinPair
  <2> HIDE DEF f, g
  <2>7. both \in Intervals /\ both.from = f /\ both.to = g
    BY <2>5, <2>6, IntervalIs
  <2>8. \A t \in Int : In(both, t) <=> In(a, t) /\ In(b, t)
    BY <2>2, <2>5, <2>6, <2>7 DEF In
  <2> HIDE DEF both
  <2>9. \A t \in Int : (\E iv \in k.out : In(iv, t)) <=> (In(a, t) /\ In(b, t)) \/ \E iv \in s.out : In(iv, t)
    <3>1. CASE both.to > both.from
      BY <2>4, <2>8, <3>1
    <3>2. CASE ~(both.to > both.from)
      <4>1. \A t \in Int : ~In(both, t)
        BY <2>5, <2>6, <2>7, <3>2 DEF In
      <4>. QED BY <2>4, <2>8, <3>2, <4>1
    <3>. QED BY <3>1, <3>2
  <2>10. IsList(k.out)
    <3>1. IsFiniteSet(s.out) /\ s.out \subseteq Intervals
      BY DEF Passed, IsList
    <3>2. IsFiniteSet(s.out \cup {both})
      BY <3>1, FS_AddElement
    <3>3. k.out = s.out \cup {both} \/ k.out = s.out
      BY <2>4
    <3>. QED BY <2>7, <3>1, <3>2, <3>3 DEF IsList
  <2>11. \A t \in Int : Both(xs, ys, s.i, s.j, t) <=> (In(a, t) /\ In(b, t)) \/ Both(xs, ys, k.i, k.j, t)
    <3> SUFFICES ASSUME NEW t \in Int
                 PROVE  Both(xs, ys, s.i, s.j, t) <=> (In(a, t) /\ In(b, t)) \/ Both(xs, ys, k.i, k.j, t)
      OBVIOUS
    <3>1. CASE a.to < b.to
      <4>1. k.i = s.i + 1 /\ k.j = s.j
        BY <2>4, <3>1
      <4>2. xs[s.i].to <= ys[s.j].to
        BY <2>2, <3>1
      <4>3. Both(xs, ys, s.i, s.j, t) <=> (In(xs[s.i], t) /\ In(ys[s.j], t)) \/ Both(xs, ys, s.i + 1, s.j, t)
        BY <2>1, <4>2, FirstEnds
      <4>. QED BY <4>1, <4>3
    <3>2. CASE ~(a.to < b.to)
      <4>1. k.i = s.i /\ k.j = s.j + 1
        BY <2>4, <3>2
      <4>2. ys[s.j].to <= xs[s.i].to
        BY <2>2, <3>2
      <4>3. Both(xs, ys, s.i, s.j, t) <=> (In(xs[s.i], t) /\ In(ys[s.j], t)) \/ Both(xs, ys, s.i, s.j + 1, t)
        BY <2>1, <4>2, SecondEnds
      <4>. QED BY <4>1, <4>3
    <3>. QED BY <3>1, <3>2
  <2>12. k.i \in 1..(Len(xs) + 1) /\ k.j \in 1..(Len(ys) + 1) /\ k.i + k.j = (n + 1) + 2
    <3> DEFINE x == s.i
               y == s.j
               lx == Len(xs)
               ly == Len(ys)
    <3>1. (k.i = x + 1 /\ k.j = y) \/ (k.i = x /\ k.j = y + 1)
      BY <2>4
    <3>2. x \in Int /\ y \in Int /\ lx \in Nat /\ ly \in Nat
      BY <1>1
    <3>3. x \in 1..lx /\ y \in 1..ly /\ x + y = n + 2
      BY <2>1
    <3>4. k.i \in 1..(lx + 1) /\ k.j \in 1..(ly + 1) /\ k.i + k.j = (n + 1) + 2
      <4> HIDE DEF x, y, lx, ly
      <4>1. 1 <= x /\ x <= lx /\ 1 <= y /\ y <= ly
        BY <3>2, <3>3
      <4>2. /\ x \in 1..(lx + 1) /\ x + 1 \in 1..(lx + 1)
            /\ y \in 1..(ly + 1) /\ y + 1 \in 1..(ly + 1)
        BY <3>2, <4>1
      <4>3. (x + 1) + y = (n + 1) + 2 /\ x + (y + 1) = (n + 1) + 2
        BY <3>2, <3>3
      <4>. QED BY <3>1, <4>2, <4>3, Zenon
    <3>. QED BY <3>4
  <2>13. \A t \in Int : (\E iv \in k.out : In(iv, t)) \/ Both(xs, ys, k.i, k.j, t) <=> Both(xs, ys, 1, 1, t)
    BY <2>9, <2>11 DEF Passed
  <2>14. Found(k.out, xs, ys)
    <3>1. Found(s.out, xs, ys)
      BY DEF Passed
    <3>2. both = Shared(xs[s.i], ys[s.j])
      BY DEF both, f, g, Shared
    <3>3. ASSUME NEW iv \in k.out
          PROVE  iv.to > iv.from /\ \E p \in 1..Len(xs), q \in 1..Len(ys) : iv = Shared(xs[p], ys[q])
      <4>1. CASE iv \in s.out
        BY <3>1, <4>1 DEF Found
      <4>2. CASE iv \notin s.out
        <5>1. iv = both /\ both.to > both.from
          BY <2>4, <3>3, <4>2
        <5>. QED BY <2>1, <3>2, <5>1
      <4>. QED BY <4>1, <4>2
    <3>. QED BY <3>3 DEF Found
  <2>15. Passed(k, xs, ys, n + 1)
    BY <2>10, <2>12, <2>13, <2>14 DEF Passed
  <2>. QED BY <2>15 DEF k
<1>. QED BY <1>2, <1>3

LEMMA PassedAll ==
    ASSUME NEW xs, NEW ys, Apart(xs), Apart(ys), NEW n \in 0..(Len(xs) + Len(ys))
    PROVE  Passed(Passes(xs, ys)[n], xs, ys, n)
<1> DEFINE P == Passes(xs, ys)
           top == Len(xs) + Len(ys)
           Wrong == {k \in 0..top : ~Passed(P[k], xs, ys, k)}
<1>0. xs \in Seq(Intervals) /\ ys \in Seq(Intervals) /\ Len(xs) \in Nat /\ Len(ys) \in Nat /\ top \in Nat
  BY ListElems DEF Apart
<1>1. P[0] = [i |-> 1, j |-> 1, out |-> {}] /\ \A m \in 1..top : P[m] = Pass(P[m - 1], xs, ys)
  BY <1>0, PassesAre
<1> HIDE DEF P
<1>2. Passed(P[0], xs, ys, 0)
  <2>1. P[0].i = 1 /\ P[0].j = 1 /\ P[0].out = {}
    BY <1>1
  <2>2. IsList({})
    BY FS_EmptySet DEF IsList
  <2>. QED BY <1>0, <2>1, <2>2 DEF Passed, Found
<1>3. Wrong = {}
  <2> SUFFICES ASSUME Wrong # {} PROVE FALSE
    OBVIOUS
  <2>1. PICK k \in Wrong : \A j \in Wrong : k <= j
    <3>1. Wrong \in SUBSET Nat
      OBVIOUS
    <3> HIDE DEF Wrong
    <3>. QED BY <3>1, LeastNat
  <2>2. k # 0
    BY <1>2, <2>1
  <2>3. k - 1 \in 0..top /\ k - 1 \in Nat /\ k - 1 \notin Wrong /\ k \in 1..top /\ (k - 1) + 1 = k
    BY <1>0, <2>1, <2>2
  <2>4. Passed(P[k - 1], xs, ys, k - 1)
    BY <2>3
  <2>5. Passed(Pass(P[k - 1], xs, ys), xs, ys, (k - 1) + 1)
    BY <2>3, <2>4, PassKeeps
  <2>6. Passed(P[k], xs, ys, k)
    BY <1>1, <2>3, <2>5
  <2>. QED BY <2>1, <2>6
<1>. QED BY <1>3 DEF P

\* What lies in two intervals apart is apart.
LEMMA FoundApart ==
    ASSUME NEW xs, NEW ys, Apart(xs), Apart(ys), NEW out, Found(out, xs, ys)
    PROVE  Normal(out)
<1> SUFFICES ASSUME NEW x \in out, NEW y \in out, x # y PROVE x.to < y.from \/ y.to < x.from
  BY DEF Normal, Found
<1>1. PICK p \in 1..Len(xs), q \in 1..Len(ys) : x = Shared(xs[p], ys[q])
  BY DEF Found
<1>2. PICK i \in 1..Len(xs), j \in 1..Len(ys) : y = Shared(xs[i], ys[j])
  BY DEF Found
<1>3. p # i \/ q # j
  BY <1>1, <1>2
<1>4. ASSUME NEW a \in Intervals, NEW b \in Intervals
      PROVE  /\ Shared(a, b).from \in Int /\ Shared(a, b).from >= a.from /\ Shared(a, b).from >= b.from
             /\ Shared(a, b).to \in Int /\ Shared(a, b).to <= a.to /\ Shared(a, b).to <= b.to
  <2> DEFINE f == Max({a.from, b.from})
             g == Min({a.to, b.to})
  <2>1. a.from \in Int /\ a.to \in Int /\ b.from \in Int /\ b.to \in Int
    BY DEF Intervals
  <2>2. f \in Int /\ f >= a.from /\ f >= b.from
    BY <2>1, MaxPair
  <2>3. g \in Int /\ g <= a.to /\ g <= b.to
    BY <2>1, MinPair
  <2>4. Shared(a, b) = Interval(f, g)
    BY DEF Shared
  <2> HIDE DEF f, g
  <2>5. Shared(a, b).from = f /\ Shared(a, b).to = g
    BY <2>2, <2>3, <2>4, IntervalIs
  <2>. QED BY <2>2, <2>3, <2>5
<1>5. /\ xs[p] \in Intervals /\ xs[i] \in Intervals /\ ys[q] \in Intervals /\ ys[j] \in Intervals
      /\ Len(xs) \in Nat /\ Len(ys) \in Nat
  BY DEF Apart
<1>6. /\ x.from \in Int /\ x.to \in Int /\ x.from >= xs[p].from /\ x.from >= ys[q].from
      /\ x.to <= xs[p].to /\ x.to <= ys[q].to
  BY <1>1, <1>4, <1>5
<1>7. /\ y.from \in Int /\ y.to \in Int /\ y.from >= xs[i].from /\ y.from >= ys[j].from
      /\ y.to <= xs[i].to /\ y.to <= ys[j].to
  BY <1>2, <1>4, <1>5
<1>8. /\ xs[p].from \in Int /\ xs[p].to \in Int /\ xs[i].from \in Int /\ xs[i].to \in Int
      /\ ys[q].from \in Int /\ ys[q].to \in Int /\ ys[j].from \in Int /\ ys[j].to \in Int
  BY <1>5 DEF Intervals
<1>9. \A a, b, c, d \in Int : a <= b /\ b < c /\ d >= c => a < d
  OBVIOUS
<1>10. CASE p # i
  <2>1. xs[p].to < xs[i].from \/ xs[i].to < xs[p].from
    BY <1>5, <1>10 DEF Apart
  <2>2. CASE xs[p].to < xs[i].from
    BY <1>6, <1>7, <1>8, <1>9, <2>2, Zenon
  <2>3. CASE xs[i].to < xs[p].from
    BY <1>6, <1>7, <1>8, <1>9, <2>3, Zenon
  <2>. QED BY <2>1, <2>2, <2>3
<1>11. CASE q # j
  <2>1. ys[q].to < ys[j].from \/ ys[j].to < ys[q].from
    BY <1>5, <1>11 DEF Apart
  <2>2. CASE ys[q].to < ys[j].from
    BY <1>6, <1>7, <1>8, <1>9, <2>2, Zenon
  <2>3. CASE ys[j].to < ys[q].from
    BY <1>6, <1>7, <1>8, <1>9, <2>3, Zenon
  <2>. QED BY <2>1, <2>2, <2>3
<1>. QED BY <1>3, <1>10, <1>11

\* Intersect: the seconds both lists cover.
LEMMA IntersectIs ==
    ASSUME NEW A, NEW B, IsList(A), IsList(B)
    PROVE  /\ IsList(Intersect(A, B)) /\ Normal(Intersect(A, B))
           /\ \A t \in Int : (\E iv \in Intersect(A, B) : In(iv, t))
                                <=> (\E iv \in A : In(iv, t)) /\ (\E iv \in B : In(iv, t))
<1> DEFINE xs == Sorted(Merge(A))
           ys == Sorted(Merge(B))
           top == Len(xs) + Len(ys)
           s == Passes(xs, ys)[top]
<1>1. /\ Apart(xs) /\ Len(xs) \in Nat
      /\ \A t \in Int : (\E n \in 1..Len(xs) : In(xs[n], t)) <=> \E iv \in A : In(iv, t)
  BY MergedApart
<1>2. /\ Apart(ys) /\ Len(ys) \in Nat
      /\ \A t \in Int : (\E n \in 1..Len(ys) : In(ys[n], t)) <=> \E iv \in B : In(iv, t)
  BY MergedApart
<1>3. Intersect(A, B) = s.out
  BY DEF Intersect
<1> HIDE DEF xs, ys
<1>4. top \in 0..top
  BY <1>1, <1>2
<1>5. Passed(s, xs, ys, top)
  BY <1>1, <1>2, <1>4, PassedAll
<1> HIDE DEF s
<1>6. s.i > Len(xs) \/ s.j > Len(ys)
  BY <1>1, <1>2, <1>5 DEF Passed
<1>7. \A t \in Int : ~Both(xs, ys, s.i, s.j, t)
  <2>1. s.i \in Int /\ s.j \in Int
    BY <1>1, <1>2, <1>5 DEF Passed
  <2>. QED BY <1>1, <1>2, <1>6, <2>1 DEF Both
<1>8. \A t \in Int : (\E iv \in s.out : In(iv, t)) <=> Both(xs, ys, 1, 1, t)
  BY <1>5, <1>7 DEF Passed
<1>9. \A t \in Int : Both(xs, ys, 1, 1, t) <=> (\E n \in 1..Len(xs) : In(xs[n], t)) /\ \E n \in 1..Len(ys) : In(ys[n], t)
  BY <1>1, <1>2 DEF Both
<1>10. IsList(s.out) /\ Found(s.out, xs, ys)
  BY <1>5 DEF Passed
<1>11. Normal(s.out)
  BY <1>1, <1>2, <1>10, FoundApart
<1>. QED BY <1>1, <1>2, <1>3, <1>8, <1>9, <1>10, <1>11

-----------------------------------------------------------------------------
(* Subtract.                                                               *)

CutStep(f, b, cuts, n) ==
    f = [k \in 0..n |-> IF k = 0 THEN [out |-> {}, cur |-> b] ELSE Cut(f[k - 1], cuts[k])]

LEMMA CutsExist ==
    ASSUME NEW b, NEW cuts, NEW n \in Nat
    PROVE  \E f : CutStep(f, b, cuts, n)
<1> DEFINE Missing == {k \in Nat : ~ \E f : CutStep(f, b, cuts, k)}
           start == [out |-> {}, cur |-> b]
<1>1. Missing = {}
  <2> SUFFICES ASSUME Missing # {} PROVE FALSE
    OBVIOUS
  <2>1. PICK k \in Missing : \A j \in Missing : k <= j
    <3>1. Missing \in SUBSET Nat
      OBVIOUS
    <3> HIDE DEF Missing
    <3>. QED BY <3>1, LeastNat
  <2>2. CASE k = 0
    <3> DEFINE f == [m \in 0..0 |-> start]
    <3>1. CutStep(f, b, cuts, 0)
      BY DEF CutStep
    <3>. QED BY <2>1, <2>2, <3>1
  <2>3. CASE k # 0
    <3>1. k - 1 \in Nat /\ k - 1 \notin Missing
      BY <2>1, <2>3
    <3>2. PICK g : CutStep(g, b, cuts, k - 1)
      BY <3>1
    <3> DEFINE f == [m \in 0..k |-> IF m = k THEN Cut(g[k - 1], cuts[k]) ELSE g[m]]
    <3>3. \A m \in 0..(k - 1) : g[m] = IF m = 0 THEN start ELSE Cut(g[m - 1], cuts[m])
      BY <3>2 DEF CutStep
    <3> HIDE DEF start
    <3>4. \A m \in 0..k : f[m] = IF m = 0 THEN start ELSE Cut(f[m - 1], cuts[m])
      BY <2>1, <2>3, <3>3
    <3>5. f = [m \in 0..k |-> f[m]]
      OBVIOUS
    <3> HIDE DEF f
    <3>6. CutStep(f, b, cuts, k)
      BY <3>4, <3>5 DEF CutStep, start
    <3>. QED BY <2>1, <3>6
  <2>. QED BY <2>2, <2>3
<1>. QED BY <1>1

LEMMA CutsAre ==
    ASSUME NEW b, NEW cuts, Len(cuts) \in Nat
    PROVE  /\ Cuts(b, cuts)[0] = [out |-> {}, cur |-> b]
           /\ \A n \in 1..Len(cuts) : Cuts(b, cuts)[n] = Cut(Cuts(b, cuts)[n - 1], cuts[n])
<1> DEFINE k == Len(cuts)
<1>1. \E f : CutStep(f, b, cuts, k)
  BY CutsExist
<1>2. Cuts(b, cuts) = CHOOSE f : CutStep(f, b, cuts, k)
  BY DEF Cuts, CutStep
<1>3. CutStep(Cuts(b, cuts), b, cuts, k)
  BY <1>1, <1>2
<1> HIDE DEF k
<1>4. \A n \in 0..k : Cuts(b, cuts)[n] = IF n = 0 THEN [out |-> {}, cur |-> b]
                                        ELSE Cut(Cuts(b, cuts)[n - 1], cuts[n])
  BY <1>3 DEF CutStep
<1>5. 0 \in 0..k /\ \A n \in 1..k : n \in 0..k /\ n # 0
  BY DEF k
<1>6. \A n \in 1..k : Cuts(b, cuts)[n] = Cut(Cuts(b, cuts)[n - 1], cuts[n])
  BY <1>4, <1>5, Zenon
<1>7. Cuts(b, cuts)[0] = [out |-> {}, cur |-> b]
  BY <1>4, <1>5, Zenon
<1>. QED BY <1>6, <1>7 DEF k

\* After n cuts: what is kept and what is left to cut are the interval without them,
\* and what is kept comes before the cuts to come.
CutTo(s, b, cuts, n) ==
    /\ IsList(s.out) /\ s.cur \in Intervals
    /\ \A iv \in s.out, i \in 1..Len(cuts) : i > n => iv.to <= cuts[i].from
    /\ \A t \in Int : (\E iv \in s.out : In(iv, t)) \/ In(s.cur, t)
                         <=> In(b, t) /\ \A i \in 1..Len(cuts) : i <= n => ~In(cuts[i], t)

LEMMA CutKeeps ==
    ASSUME NEW b, NEW cuts, Apart(cuts), NEW n \in 0..(Len(cuts) - 1), NEW s, CutTo(s, b, cuts, n)
    PROVE  CutTo(Cut(s, cuts[n + 1]), b, cuts, n + 1)
<1> DEFINE k == Cut(s, cuts[n + 1])
           c == cuts[n + 1]
<1>1. Len(cuts) \in Nat /\ n + 1 \in 1..Len(cuts) /\ n \in Int
  BY ListElems DEF Apart
<1>2. \A i \in 1..Len(cuts) : cuts[i].from \in Int /\ cuts[i].to \in Int
  BY ListElems DEF Apart
<1>3. c.from \in Int /\ c.to \in Int /\ c.from < c.to
  BY <1>1, <1>2 DEF Apart
<1>4. s.cur \in Intervals /\ s.cur.from \in Int /\ s.cur.to \in Int
  BY DEF CutTo, Intervals
<1>5. IsFiniteSet(s.out) /\ s.out \subseteq Intervals /\ \A iv \in s.out : iv.from \in Int /\ iv.to \in Int
  BY DEF CutTo, IsList, Intervals
<1>6. \A iv \in s.out, t \in Int : In(iv, t) => ~In(c, t)
  <2>1. \A iv \in s.out : iv.to <= c.from
    BY <1>1 DEF CutTo
  <2>. QED BY <1>3, <1>5, <2>1 DEF In
\* The cuts so far are those before and this one.
<1>7. \A t : (\A i \in 1..Len(cuts) : i <= n + 1 => ~In(cuts[i], t))
               <=> (\A i \in 1..Len(cuts) : i <= n => ~In(cuts[i], t)) /\ ~In(c, t)
  <2>1. \A i \in 1..Len(cuts) : i <= n + 1 <=> i <= n \/ i = n + 1
    BY <1>1
  <2>. QED BY <1>1, <2>1
<1>8. ASSUME \A t \in Int : (\E iv \in k.out : In(iv, t)) \/ In(k.cur, t)
                               <=> ((\E iv \in s.out : In(iv, t)) \/ In(s.cur, t)) /\ ~In(c, t)
      PROVE  \A t \in Int : (\E iv \in k.out : In(iv, t)) \/ In(k.cur, t)
                               <=> In(b, t) /\ \A i \in 1..Len(cuts) : i <= n + 1 => ~In(cuts[i], t)
  BY <1>7, <1>8 DEF CutTo
<1>9. CASE c.to <= s.cur.from \/ c.from >= s.cur.to
  <2>1. k = s
    BY <1>9 DEF Cut
  <2>2. \A t \in Int : In(s.cur, t) => ~In(c, t)
    BY <1>3, <1>4, <1>9 DEF In
  <2>3. \A t \in Int : (\E iv \in k.out : In(iv, t)) \/ In(k.cur, t)
                          <=> ((\E iv \in s.out : In(iv, t)) \/ In(s.cur, t)) /\ ~In(c, t)
    BY <1>6, <2>1, <2>2, Zenon
  <2>4. \A iv \in s.out, i \in 1..Len(cuts) : i > n + 1 => iv.to <= cuts[i].from
    <3>1. \A i \in 1..Len(cuts) : i > n + 1 => i > n
      BY <1>1
    <3>. QED BY <3>1 DEF CutTo
  <2>5. IsList(k.out) /\ k.cur \in Intervals
    BY <2>1 DEF CutTo
  <2> HIDE DEF k
  <2>. QED BY <1>8, <2>1, <2>3, <2>4, <2>5 DEF CutTo, k
<1>10. CASE ~(c.to <= s.cur.from \/ c.from >= s.cur.to)
  <2> DEFINE e == Min({c.to, s.cur.to})
             kept == Interval(s.cur.from, c.from)
  <2>1. k.cur = Interval(e, s.cur.to) /\ k.out = IF c.from > s.cur.from THEN s.out \cup {kept} ELSE s.out
    BY <1>10 DEF Cut
  <2>2. e \in {c.to, s.cur.to} /\ e \in Int /\ e <= c.to /\ e <= s.cur.to
    BY <1>3, <1>4, MinPair
  <2> HIDE DEF k, e
  <2>3. k.cur \in Intervals /\ k.cur.from = e /\ k.cur.to = s.cur.to
    BY <1>4, <2>1, <2>2, IntervalIs
  <2>4. kept \in Intervals /\ kept.from = s.cur.from /\ kept.to = c.from
    BY <1>3, <1>4, IntervalIs
  <2> HIDE DEF kept
  <2>5. \A t \in Int : In(kept, t) \/ In(k.cur, t) <=> In(s.cur, t) /\ ~In(c, t)
    BY <1>3, <1>4, <1>10, <2>2, <2>3, <2>4 DEF In
  <2>6. \A t \in Int : (\E iv \in k.out : In(iv, t)) <=> (\E iv \in s.out : In(iv, t)) \/ In(kept, t)
    <3>1. CASE c.from > s.cur.from
      BY <2>1, <3>1
    <3>2. CASE ~(c.from > s.cur.from)
      <4>1. \A t \in Int : ~In(kept, t)
        BY <1>3, <1>4, <2>4, <3>2 DEF In
      <4>. QED BY <2>1, <3>2, <4>1
    <3>. QED BY <3>1, <3>2
  <2>7. \A t \in Int : (\E iv \in k.out : In(iv, t)) \/ In(k.cur, t)
                          <=> ((\E iv \in s.out : In(iv, t)) \/ In(s.cur, t)) /\ ~In(c, t)
    BY <1>6, <2>5, <2>6, Zenon
  <2>8. k.out = s.out \cup {kept} \/ k.out = s.out
    BY <2>1
  <2>9. IsList(k.out)
    <3>1. IsFiniteSet(s.out \cup {kept})
      BY <1>5, FS_AddElement
    <3>. QED BY <1>5, <2>4, <2>8, <3>1 DEF IsList
  <2>10. \A iv \in k.out, i \in 1..Len(cuts) : i > n + 1 => iv.to <= cuts[i].from
    <3>1. \A i \in 1..Len(cuts) : i > n + 1 => i > n
      BY <1>1
    <3>2. \A iv \in s.out, i \in 1..Len(cuts) : i > n + 1 => iv.to <= cuts[i].from
      BY <3>1 DEF CutTo
    <3>3. \A i \in 1..Len(cuts) : i > n + 1 => kept.to <= cuts[i].from
      <4> SUFFICES ASSUME NEW i \in 1..Len(cuts), i > n + 1 PROVE kept.to <= cuts[i].from
        OBVIOUS
      <4>1. c.to < cuts[i].from
        BY <1>1 DEF Apart
      <4>2. cuts[i].from \in Int
        BY <1>2
      <4>. QED BY <1>3, <2>4, <4>1, <4>2
    <3>. QED BY <2>8, <3>2, <3>3
  <2>. QED BY <1>8, <2>3, <2>7, <2>9, <2>10 DEF CutTo, k
<1>. QED BY <1>9, <1>10

LEMMA CutAll ==
    ASSUME NEW b \in Intervals, NEW cuts, Apart(cuts), NEW n \in 0..Len(cuts)
    PROVE  CutTo(Cuts(b, cuts)[n], b, cuts, n)
<1> DEFINE C == Cuts(b, cuts)
           Wrong == {k \in 0..Len(cuts) : ~CutTo(C[k], b, cuts, k)}
<1>0. Len(cuts) \in Nat
  BY ListElems DEF Apart
<1>1. C[0] = [out |-> {}, cur |-> b] /\ \A m \in 1..Len(cuts) : C[m] = Cut(C[m - 1], cuts[m])
  BY <1>0, CutsAre
<1> HIDE DEF C
<1>2. CutTo(C[0], b, cuts, 0)
  <2>1. C[0].out = {} /\ C[0].cur = b
    BY <1>1
  <2>2. \A i \in 1..Len(cuts) : ~(i <= 0)
    BY <1>0
  <2>. QED BY <2>1, <2>2, FS_EmptySet DEF CutTo, IsList
<1>3. Wrong = {}
  <2> SUFFICES ASSUME Wrong # {} PROVE FALSE
    OBVIOUS
  <2>1. PICK k \in Wrong : \A j \in Wrong : k <= j
    <3>1. Wrong \in SUBSET Nat
      BY <1>0
    <3> HIDE DEF Wrong
    <3>. QED BY <3>1, LeastNat
  <2>2. k \in 0..Len(cuts) /\ ~CutTo(C[k], b, cuts, k)
    BY <2>1
  <2>3. k # 0
    BY <1>2, <2>2
  <2>4. k - 1 \in 0..(Len(cuts) - 1) /\ k - 1 \in 0..Len(cuts) /\ k \in 1..Len(cuts) /\ (k - 1) + 1 = k /\ ~(k <= k - 1)
    BY <1>0, <2>2, <2>3
  <2>5. k - 1 \notin Wrong
    BY <2>1, <2>4
  <2>6. CutTo(C[k - 1], b, cuts, k - 1)
    BY <2>4, <2>5
  <2>7. C[k] = Cut(C[k - 1], cuts[k])
    BY <1>1, <2>4
  <2> HIDE DEF Wrong
  <2>8. CutTo(Cut(C[k - 1], cuts[(k - 1) + 1]), b, cuts, (k - 1) + 1)
    BY <2>4, <2>6, CutKeeps
  <2>. QED BY <2>2, <2>4, <2>7, <2>8
<1>. QED BY <1>3 DEF C

\* The values of a function on a finite set are finitely many.
LEMMA FiniteImage ==
    ASSUME NEW S, IsFiniteSet(S), NEW f
    PROVE  IsFiniteSet({f[x] : x \in S}) /\ Cardinality({f[x] : x \in S}) <= Cardinality(S)
<1> DEFINE T == {f[x] : x \in S}
           g == [x \in S |-> f[x]]
<1>1. g \in Surjection(S, T)
  BY DEF Surjection
<1> HIDE DEF g, T
<1>2. IsFiniteSet(T) /\ Cardinality(T) <= Cardinality(S)
  BY <1>1, FS_Surjection
<1>. QED BY <1>2 DEF T

\* A finite union of lists is a list.
LEMMA UnionList ==
    ASSUME NEW S, IsFiniteSet(S), NEW f, \A x \in S : IsList(f[x])
    PROVE  IsList(UNION {f[x] : x \in S})
<1> DEFINE T == {f[x] : x \in S}
<1>1. IsFiniteSet(T)
  BY FiniteImage
<1>2. \A U \in T : IsFiniteSet(U) /\ U \subseteq Intervals
  BY DEF IsList
<1> HIDE DEF T
<1>3. IsFiniteSet(UNION T)
  BY <1>1, <1>2, FS_UNION
<1>4. UNION T \subseteq Intervals
  BY <1>2
<1>. QED BY <1>3, <1>4 DEF IsList, T

LEMMA LeftIs ==
    ASSUME NEW b \in Intervals, NEW cuts, Apart(cuts)
    PROVE  /\ IsList(Left(b, cuts))
           /\ \A t \in Int : (\E iv \in Left(b, cuts) : In(iv, t))
                                <=> In(b, t) /\ ~ \E i \in 1..Len(cuts) : In(cuts[i], t)
<1> DEFINE s == Cuts(b, cuts)[Len(cuts)]
<1>1. Len(cuts) \in Nat
  BY ListElems DEF Apart
<1>2. Len(cuts) \in 0..Len(cuts) /\ \A i \in 1..Len(cuts) : i <= Len(cuts)
  BY <1>1
<1>3. CutTo(s, b, cuts, Len(cuts))
  BY <1>2, CutAll
<1>4. Left(b, cuts) = s.out \cup {s.cur}
  BY DEF Left
<1> HIDE DEF s
<1>5. IsList(s.out \cup {s.cur})
  <2>1. IsFiniteSet(s.out) /\ s.out \subseteq Intervals /\ s.cur \in Intervals
    BY <1>3 DEF CutTo, IsList
  <2>2. IsFiniteSet(s.out \cup {s.cur})
    BY <2>1, FS_AddElement
  <2>. QED BY <2>1, <2>2 DEF IsList
<1>6. \A t \in Int : (\E iv \in s.out \cup {s.cur} : In(iv, t)) <=> (\E iv \in s.out : In(iv, t)) \/ In(s.cur, t)
  OBVIOUS
<1>7. \A t \in Int : (\E iv \in s.out : In(iv, t)) \/ In(s.cur, t)
                        <=> In(b, t) /\ \A i \in 1..Len(cuts) : ~In(cuts[i], t)
  BY <1>2, <1>3 DEF CutTo
<1>. QED BY <1>4, <1>5, <1>6, <1>7

LEMMA SubtractIs ==
    ASSUME NEW A, NEW B, IsList(A), IsList(B)
    PROVE  /\ IsList(Subtract(A, B)) /\ Normal(Subtract(A, B))
           /\ \A t \in Int : (\E iv \in Subtract(A, B) : In(iv, t))
                                <=> (\E iv \in A : In(iv, t)) /\ ~ \E iv \in B : In(iv, t)
<1> DEFINE cuts == Sorted(Merge(B))
           base == Merge(A)
           f == [b \in base |-> Left(b, cuts)]
           all == UNION {f[b] : b \in base}
<1>1. Apart(cuts) /\ \A t \in Int : (\E n \in 1..Len(cuts) : In(cuts[n], t)) <=> \E iv \in B : In(iv, t)
  BY MergedApart
<1>2. IsList(base) /\ \A t \in Int : (\E iv \in base : In(iv, t)) <=> \E iv \in A : In(iv, t)
  BY MergeIs
<1>3. Subtract(A, B) = Merge(UNION {Left(b, cuts) : b \in base})
  BY DEF Subtract
<1> HIDE DEF cuts, base
<1>4. {Left(b, cuts) : b \in base} = {f[b] : b \in base}
  OBVIOUS
<1>5. \A b \in base : f[b] = Left(b, cuts) /\ b \in Intervals
  BY <1>2 DEF IsList
<1> HIDE DEF f
<1>6. \A b \in base : /\ IsList(f[b])
                      /\ \A t \in Int : (\E iv \in f[b] : In(iv, t))
                                           <=> In(b, t) /\ ~ \E i \in 1..Len(cuts) : In(cuts[i], t)
  BY <1>1, <1>5, LeftIs
<1>7. IsFiniteSet(base)
  BY <1>2 DEF IsList
<1>8. IsList(all)
  BY <1>6, <1>7, UnionList
<1>9. \A t \in Int : (\E iv \in all : In(iv, t)) <=> \E b \in base : \E iv \in f[b] : In(iv, t)
  BY Zenon
<1>10. Subtract(A, B) = Merge(all)
  BY <1>3, <1>4
<1> HIDE DEF all
<1>11. IsList(Merge(all)) /\ Normal(Merge(all))
  BY <1>8, MergeIs
<1>12. \A t \in Int : (\E iv \in Merge(all) : In(iv, t)) <=> \E iv \in all : In(iv, t)
  BY <1>8, MergeIs
<1>13. \A t \in Int : (\E iv \in all : In(iv, t)) <=> (\E iv \in A : In(iv, t)) /\ ~ \E iv \in B : In(iv, t)
  <2> SUFFICES ASSUME NEW t \in Int
               PROVE  (\E iv \in all : In(iv, t)) <=> (\E iv \in A : In(iv, t)) /\ ~ \E iv \in B : In(iv, t)
    OBVIOUS
  <2>1. (\E iv \in all : In(iv, t)) <=> \E b \in base : In(b, t) /\ ~ \E i \in 1..Len(cuts) : In(cuts[i], t)
    BY <1>6, <1>9
  <2>. QED BY <1>1, <1>2, <2>1
<1>. QED BY <1>10, <1>11, <1>12, <1>13

-----------------------------------------------------------------------------
(* What the operations do to the seconds covered.                          *)

\* Merge "sorts and coalesces overlapping or touching intervals": of any list, the
\* result covers the same seconds, none empty and no two that overlap or touch.
THEOREM MergeCovers ==
    ASSUME NEW S, IsList(S)
    PROVE  IsList(Merge(S)) /\ Normal(Merge(S)) /\ Secs(Merge(S)) = Secs(S)
<1>1. /\ IsList(Merge(S)) /\ Normal(Merge(S))
      /\ \A t \in Int : (\E iv \in Merge(S) : In(iv, t)) <=> \E iv \in S : In(iv, t)
  BY MergeIs
<1>2. Merge(S) \subseteq Intervals /\ S \subseteq Intervals
  BY <1>1 DEF IsList
<1>3. \A t : t \in Secs(Merge(S)) <=> t \in Secs(S)
  BY <1>1, <1>2, SecsIs
<1>. QED BY <1>1, <1>3

\* Intersect, which reads two merged lists side by side and always moves the one that
\* ends first on, misses nothing: it covers exactly the seconds both lists cover, and
\* "the result is itself normalised".
THEOREM IntersectCovers ==
    ASSUME NEW A, NEW B, IsList(A), IsList(B)
    PROVE  /\ IsList(Intersect(A, B)) /\ Normal(Intersect(A, B))
           /\ Secs(Intersect(A, B)) = Secs(A) \cap Secs(B)
<1> DEFINE I == Intersect(A, B)
<1>1. /\ IsList(I) /\ Normal(I)
      /\ \A t \in Int : (\E iv \in I : In(iv, t)) <=> (\E iv \in A : In(iv, t)) /\ (\E iv \in B : In(iv, t))
  BY IntersectIs
<1> HIDE DEF I
<1>2. I \subseteq Intervals /\ A \subseteq Intervals /\ B \subseteq Intervals
  BY <1>1 DEF IsList
<1>3. \A t : t \in Secs(I) <=> t \in Secs(A) /\ t \in Secs(B)
  BY <1>1, <1>2, SecsIs
<1>. QED BY <1>1, <1>3 DEF I

\* Subtract, which cuts each interval of base from left to right, covers exactly the
\* seconds the first list covers and the second does not, and is normalised.
THEOREM SubtractCovers ==
    ASSUME NEW A, NEW B, IsList(A), IsList(B)
    PROVE  /\ IsList(Subtract(A, B)) /\ Normal(Subtract(A, B))
           /\ Secs(Subtract(A, B)) = Secs(A) \ Secs(B)
<1> DEFINE D == Subtract(A, B)
<1>1. /\ IsList(D) /\ Normal(D)
      /\ \A t \in Int : (\E iv \in D : In(iv, t)) <=> (\E iv \in A : In(iv, t)) /\ ~ \E iv \in B : In(iv, t)
  BY SubtractIs
<1> HIDE DEF D
<1>2. D \subseteq Intervals /\ A \subseteq Intervals /\ B \subseteq Intervals
  BY <1>1 DEF IsList
<1>3. \A t : t \in Secs(D) <=> t \in Secs(A) /\ t \notin Secs(B)
  BY <1>1, <1>2, SecsIs
<1>. QED BY <1>1, <1>3 DEF D

-----------------------------------------------------------------------------
(* Total, and the number of intervals.                                     *)

TotalStep(f, s, n) == f = [k \in 0..n |-> IF k = 0 THEN 0 ELSE f[k - 1] + Seconds(s[k])]

LEMMA TotalsExist ==
    ASSUME NEW s, NEW n \in Nat
    PROVE  \E f : TotalStep(f, s, n)
<1> DEFINE Missing == {k \in Nat : ~ \E f : TotalStep(f, s, k)}
<1>1. Missing = {}
  <2> SUFFICES ASSUME Missing # {} PROVE FALSE
    OBVIOUS
  <2>1. PICK k \in Missing : \A j \in Missing : k <= j
    <3>1. Missing \in SUBSET Nat
      OBVIOUS
    <3> HIDE DEF Missing
    <3>. QED BY <3>1, LeastNat
  <2>2. CASE k = 0
    <3> DEFINE f == [m \in 0..0 |-> 0]
    <3>1. TotalStep(f, s, 0)
      BY DEF TotalStep
    <3>. QED BY <2>1, <2>2, <3>1
  <2>3. CASE k # 0
    <3>1. k - 1 \in Nat /\ k - 1 \notin Missing
      BY <2>1, <2>3
    <3>2. PICK g : TotalStep(g, s, k - 1)
      BY <3>1
    <3> DEFINE f == [m \in 0..k |-> IF m = k THEN g[k - 1] + Seconds(s[k]) ELSE g[m]]
    <3>3. \A m \in 0..(k - 1) : g[m] = IF m = 0 THEN 0 ELSE g[m - 1] + Seconds(s[m])
      BY <3>2 DEF TotalStep
    <3>4. \A m \in 0..k : f[m] = IF m = 0 THEN 0 ELSE f[m - 1] + Seconds(s[m])
      BY <2>1, <2>3, <3>3
    <3>5. f = [m \in 0..k |-> f[m]]
      OBVIOUS
    <3> HIDE DEF f
    <3>6. TotalStep(f, s, k)
      BY <3>4, <3>5 DEF TotalStep
    <3>. QED BY <2>1, <3>6
  <2>. QED BY <2>2, <2>3
<1>. QED BY <1>1

LEMMA TotalsAre ==
    ASSUME NEW s, Len(s) \in Nat
    PROVE  Totals(s)[0] = 0 /\ \A n \in 1..Len(s) : Totals(s)[n] = Totals(s)[n - 1] + Seconds(s[n])
<1> DEFINE k == Len(s)
<1>1. \E f : TotalStep(f, s, k)
  BY TotalsExist
<1>2. Totals(s) = CHOOSE f : TotalStep(f, s, k)
  BY DEF Totals, TotalStep
<1>3. TotalStep(Totals(s), s, k)
  BY <1>1, <1>2
<1> HIDE DEF k
<1>4. \A n \in 0..k : Totals(s)[n] = IF n = 0 THEN 0 ELSE Totals(s)[n - 1] + Seconds(s[n])
  BY <1>3 DEF TotalStep
<1>5. 0 \in 0..k /\ \A n \in 1..k : n \in 0..k /\ n # 0
  BY DEF k
<1>6. \A n \in 1..k : Totals(s)[n] = Totals(s)[n - 1] + Seconds(s[n])
  BY <1>4, <1>5, Zenon
<1>7. Totals(s)[0] = 0
  BY <1>4, <1>5, Zenon
<1>. QED BY <1>6, <1>7 DEF k

LEMMA SpanCount ==
    ASSUME NEW a \in Int, NEW b \in Int, a < b
    PROVE  IsFiniteSet(a..(b - 1)) /\ Cardinality(a..(b - 1)) = b - a
<1>1. b - 1 \in Int
  OBVIOUS
<1>2. IsFiniteSet(a..(b - 1)) /\ Cardinality(a..(b - 1)) = IF a > b - 1 THEN 0 ELSE (b - 1) - a + 1
  BY <1>1, FS_Interval
<1>. QED BY <1>2

\* The seconds of the first n intervals of a list.
SecsTo(s, n) == {t \in Int : \E i \in 1..Len(s) : i <= n /\ In(s[i], t)}

LEMMA TotalsCount ==
    ASSUME NEW s, Apart(s), NEW n \in 0..Len(s)
    PROVE  IsFiniteSet(SecsTo(s, n)) /\ Totals(s)[n] = Cardinality(SecsTo(s, n))
<1> DEFINE F == Totals(s)
           Counts(k) == IsFiniteSet(SecsTo(s, k)) /\ F[k] = Cardinality(SecsTo(s, k))
           Wrong == {k \in 0..Len(s) : ~Counts(k)}
<1>0. Len(s) \in Nat /\ \A i \in 1..Len(s) : s[i].from \in Int /\ s[i].to \in Int
  BY ListElems DEF Apart
<1>1. F[0] = 0 /\ \A m \in 1..Len(s) : F[m] = F[m - 1] + Seconds(s[m])
  BY <1>0, TotalsAre
<1> HIDE DEF F
<1>2. Counts(0)
  <2>1. \A i \in 1..Len(s) : ~(i <= 0)
    BY <1>0
  <2>2. SecsTo(s, 0) = {}
    BY <2>1 DEF SecsTo
  <2>. QED BY <1>1, <2>2, FS_EmptySet
<1>3. Wrong = {}
  <2> SUFFICES ASSUME Wrong # {} PROVE FALSE
    OBVIOUS
  <2>1. PICK k \in Wrong : \A j \in Wrong : k <= j
    <3>1. Wrong \in SUBSET Nat
      BY <1>0
    <3> HIDE DEF Wrong
    <3>. QED BY <3>1, LeastNat
  <2>2. k \in 0..Len(s) /\ ~Counts(k)
    BY <2>1
  <2>3. k # 0
    BY <1>2, <2>2
  <2>4. k - 1 \in 0..Len(s) /\ k \in 1..Len(s) /\ ~(k <= k - 1)
    BY <1>0, <2>2, <2>3
  <2>5. k - 1 \notin Wrong
    BY <2>1, <2>4
  <2>6. IsFiniteSet(SecsTo(s, k - 1)) /\ F[k - 1] = Cardinality(SecsTo(s, k - 1))
    BY <2>4, <2>5
  <2>7. F[k] = F[k - 1] + Seconds(s[k])
    BY <1>1, <2>4
  <2> HIDE DEF Wrong
  <2> DEFINE own == s[k].from..(s[k].to - 1)
             past == SecsTo(s, k - 1)
  <2>8. s[k].from \in Int /\ s[k].to \in Int /\ s[k].from < s[k].to
    BY <1>0, <2>4 DEF Apart
  <2>9. IsFiniteSet(own) /\ Cardinality(own) = s[k].to - s[k].from
    BY <2>8, SpanCount
  <2>10. \A t \in Int : t \in own <=> In(s[k], t)
    BY <2>8 DEF In
  <2>11. own \subseteq Int
    BY <2>8
  <2> HIDE DEF own
  <2>12. SecsTo(s, k) = past \cup own
    <3>1. \A i \in 1..Len(s) : i <= k <=> i <= k - 1 \/ i = k
      BY <1>0, <2>4
    <3>2. \A t \in Int : (\E i \in 1..Len(s) : i <= k /\ In(s[i], t))
                            <=> (\E i \in 1..Len(s) : i <= k - 1 /\ In(s[i], t)) \/ In(s[k], t)
      BY <2>4, <3>1
    <3>. QED BY <2>10, <2>11, <3>2 DEF SecsTo
  <2>13. past \cap own = {}
    <3> SUFFICES ASSUME NEW t \in past, t \in own PROVE FALSE
      OBVIOUS
    <3>1. t \in Int /\ In(s[k], t)
      BY <2>10, <2>11
    <3>2. PICK i \in 1..Len(s) : i <= k - 1 /\ In(s[i], t)
      BY DEF SecsTo
    <3>3. i < k
      BY <1>0, <2>4, <3>2
    <3>4. s[i].to < s[k].from
      BY <2>4, <3>3 DEF Apart
    <3>5. s[i].to \in Int
      BY <1>0
    <3>. QED BY <2>8, <3>1, <3>2, <3>4, <3>5 DEF In
  <2> HIDE DEF past
  <2>14. IsFiniteSet(past) /\ F[k - 1] = Cardinality(past)
    BY <2>6 DEF past
  <2>15. IsFiniteSet(past \cup own) /\ Cardinality(past \cup own) = Cardinality(past) + Cardinality(own) - Cardinality(past \cap own)
    BY <2>9, <2>14, FS_Union
  <2>16. Cardinality(past \cap own) = 0
    BY <2>13, FS_EmptySet
  <2>17. Cardinality(past) \in Nat
    BY <2>14, FS_CardinalityType
  <2>18. F[k] = Cardinality(past \cup own)
    BY <2>7, <2>8, <2>9, <2>14, <2>15, <2>16, <2>17 DEF Seconds
  <2>. QED BY <2>2, <2>12, <2>15, <2>18
<1>. QED BY <1>3 DEF F

\* Total, the lengths of the merged intervals added up, is the number of seconds the
\* list covers: none is counted twice, however the list overlaps itself.
THEOREM TotalCounts ==
    ASSUME NEW S, IsList(S)
    PROVE  IsFiniteSet(Secs(S)) /\ Cardinality(Secs(S)) \in Nat /\ Total(S) = Cardinality(Secs(S))
<1> DEFINE s == Sorted(Merge(S))
<1>1. /\ Apart(s) /\ Len(s) \in Nat
      /\ \A t \in Int : (\E n \in 1..Len(s) : In(s[n], t)) <=> \E iv \in S : In(iv, t)
  BY MergedApart
<1>2. Total(S) = Totals(s)[Len(s)]
  BY DEF Total
<1> HIDE DEF s
<1>3. Len(s) \in 0..Len(s) /\ \A n \in 1..Len(s) : n <= Len(s)
  BY <1>1
<1>4. SecsTo(s, Len(s)) = Secs(S)
  <2>1. S \subseteq Intervals
    BY DEF IsList
  <2>2. \A t : t \in SecsTo(s, Len(s)) <=> t \in Int /\ \E n \in 1..Len(s) : In(s[n], t)
    BY <1>3 DEF SecsTo
  <2>3. \A t : t \in Secs(S) <=> t \in Int /\ \E iv \in S : In(iv, t)
    BY <2>1, SecsIs
  <2>4. \A t : t \in SecsTo(s, Len(s)) <=> t \in Secs(S)
    BY <1>1, <2>2, <2>3
  <2>5. SecsTo(s, Len(s)) \subseteq Int
    BY DEF SecsTo
  <2>. QED BY <2>4
<1>5. IsFiniteSet(SecsTo(s, Len(s))) /\ Totals(s)[Len(s)] = Cardinality(SecsTo(s, Len(s)))
  BY <1>1, <1>3, TotalsCount
<1>6. Cardinality(Secs(S)) \in Nat
  BY <1>4, <1>5, FS_CardinalityType
<1>. QED BY <1>2, <1>4, <1>5, <1>6

\* Downtime.Outages is the length of a merged list: a normalised list has one interval
\* for each second its cover begins at, so one outage is never counted as two.
THEOREM OutagesCount ==
    ASSUME NEW S, IsList(S), Normal(S)
    PROVE  Cardinality(S) = Cardinality({t \in Secs(S) : t - 1 \notin Secs(S)})
<1> DEFINE T == {t \in Secs(S) : t - 1 \notin Secs(S)}
           f == [iv \in S |-> iv.from]
<1>1. \A t : t \in Secs(S) <=> t \in Int /\ \E iv \in S : In(iv, t)
  BY SecsIs DEF IsList
<1>2. \A iv \in S : iv.from \in Int /\ iv.to \in Int /\ iv.to > iv.from
  BY DEF IsList, Intervals, Normal
<1>3. \A a, b \in S : a # b => a.to < b.from \/ b.to < a.from
  BY DEF Normal
<1>4. ASSUME NEW a \in S PROVE a.from \in T
  <2>1. In(a, a.from) /\ a.from \in Secs(S)
    BY <1>1, <1>2 DEF In
  <2>2. ASSUME NEW b \in S, In(b, a.from - 1) PROVE FALSE
    <3>1. b.from <= a.from - 1 /\ a.from - 1 < b.to
      BY <2>2 DEF In
    <3>2. a # b
      BY <1>2, <3>1
    <3>3. a.to < b.from \/ b.to < a.from
      BY <1>3, <3>2
    <3>. QED BY <1>2, <3>1, <3>3
  <2>3. a.from - 1 \notin Secs(S)
    BY <1>1, <2>2
  <2>. QED BY <2>1, <2>3
<1>5. ASSUME NEW t \in T PROVE \E a \in S : a.from = t
  <2>1. t \in Int /\ t - 1 \in Int /\ t \in Secs(S) /\ t - 1 \notin Secs(S)
    BY <1>1
  <2>2. PICK a \in S : In(a, t)
    BY <1>1, <2>1
  <2>3. ~In(a, t - 1)
    BY <1>1, <2>1
  <2>4. a.from = t
    BY <1>2, <2>1, <2>2, <2>3 DEF In
  <2>. QED BY <2>4
<1>6. ASSUME NEW a \in S, NEW b \in S, a.from = b.from PROVE a = b
  <2> SUFFICES ASSUME a # b PROVE FALSE
    OBVIOUS
  <2>1. a.to < b.from \/ b.to < a.from
    BY <1>3
  <2>. QED BY <1>2, <1>6, <2>1
<1> HIDE DEF T
<1>7. f \in Bijection(S, T)
  BY <1>4, <1>5, <1>6 DEF Bijection, Injection, IsInjective, Surjection
<1>8. ExistsBijection(S, T)
  BY <1>7 DEF ExistsBijection
<1>9. IsFiniteSet(S)
  BY DEF IsList
<1>10. Cardinality(T) = Cardinality(S)
  BY <1>8, <1>9, FS_Bijection
<1>. QED BY <1>10 DEF T

-----------------------------------------------------------------------------
(* The segments of one monitor.                                            *)

\* Buckets as the table holds them: those of one monitor and one width are apart.
Tidy(B) ==
    /\ IsFiniteSet(B)
    /\ \A b \in B : b.start \in Int /\ b.width \in Nat /\ b.width > 0
    /\ \A a, b \in B : a.monitor = b.monitor /\ a.width = b.width /\ a # b
                          => a.start + a.width <= b.start \/ b.start + b.width <= a.start

LEMMA TidySubset ==
    ASSUME NEW B, Tidy(B), NEW C, C \subseteq B
    PROVE  Tidy(C)
BY FS_Subset DEF Tidy

LEMMA WholeIs ==
    ASSUME NEW b, b.start \in Int, b.width \in Nat
    PROVE  /\ Whole(b) \in Intervals
           /\ \A t \in Int : In(Whole(b), t) <=> b.start <= t /\ t < b.start + b.width
<1>1. b.start + b.width \in Int
  OBVIOUS
<1>2. /\ Whole(b) \in Intervals
      /\ Whole(b).from = b.start /\ Whole(b).to = b.start + b.width
  BY <1>1, IntervalIs DEF Whole
<1>. QED BY <1>2 DEF In

\* A bucket is left to speak for the seconds no finer bucket covers.
LEMMA AloneIs ==
    ASSUME NEW B, Tidy(B), NEW b \in B
    PROVE  /\ IsList(Alone(b, B)) /\ Normal(Alone(b, B))
           /\ \A t \in Int : (\E iv \in Alone(b, B) : In(iv, t))
                 <=> b \in Covering(B, t) /\ ~ \E d \in Covering(B, t) : Finer(d, b)
<1> DEFINE D == {e \in B : Finer(e, b)}
           f == [d \in D |-> Whole(d)]
           cut == {f[d] : d \in D}
           base == {Whole(b)}
<1>1. \A d \in B : Whole(d) \in Intervals /\ \A t \in Int : In(Whole(d), t) <=> d \in Covering(B, t)
  BY WholeIs DEF Tidy, Covering
<1>2. IsFiniteSet(D)
  BY FS_Subset DEF Tidy
<1>3. IsList(cut)
  <2>1. cut \subseteq Intervals
    BY <1>1
  <2>2. IsFiniteSet(cut)
    <3> HIDE DEF f, D
    <3>. QED BY <1>2, FiniteImage
  <2>. QED BY <2>1, <2>2 DEF IsList
<1>4. IsList(base)
  BY <1>1, FS_Singleton DEF IsList
<1>5. Alone(b, B) = Subtract(base, cut)
  <2>1. cut = {Whole(d) : d \in D}
    OBVIOUS
  <2>. QED BY <2>1 DEF Alone
<1>6. \A t \in Int : (\E iv \in cut : In(iv, t)) <=> \E d \in Covering(B, t) : Finer(d, b)
  <2> SUFFICES ASSUME NEW t \in Int
               PROVE  (\E iv \in cut : In(iv, t)) <=> \E d \in Covering(B, t) : Finer(d, b)
    OBVIOUS
  <2>1. (\E iv \in cut : In(iv, t)) <=> \E d \in D : In(Whole(d), t)
    OBVIOUS
  <2>2. Covering(B, t) \subseteq B
    BY DEF Covering
  <2>. QED BY <1>1, <2>1, <2>2
<1>7. \A t \in Int : (\E iv \in base : In(iv, t)) <=> b \in Covering(B, t)
  BY <1>1
<1> HIDE DEF cut, base
<1>8. /\ IsList(Subtract(base, cut)) /\ Normal(Subtract(base, cut))
      /\ \A t \in Int : (\E iv \in Subtract(base, cut) : In(iv, t))
                           <=> (\E iv \in base : In(iv, t)) /\ ~ \E iv \in cut : In(iv, t)
  BY <1>3, <1>4, SubtractIs
<1>. QED BY <1>5, <1>6, <1>7, <1>8

\* One bucket of a monitor is the finest to cover a second.
LEMMA FinestIs ==
    ASSUME NEW B, Tidy(B), NEW m, \A b \in B : b.monitor = m, NEW t \in Int, Covering(B, t) # {}
    PROVE  /\ Finest(B, t) \in Covering(B, t)
           /\ \A b \in Covering(B, t) : Finest(B, t).width <= b.width
           /\ \A b \in Covering(B, t) : b.width = Finest(B, t).width => b = Finest(B, t)
<1> DEFINE C == Covering(B, t)
           W == {b.width : b \in C}
<1>1. C \subseteq B
  BY DEF Covering
<1>2. \A b \in C : b.start \in Int /\ b.width \in Nat /\ b.start <= t /\ t < b.start + b.width /\ b.monitor = m
  BY DEF Covering, Tidy
<1>3. W \in SUBSET Nat /\ W # {}
  BY <1>2
<1>4. PICK w \in W : \A v \in W : w <= v
  <2> HIDE DEF W
  <2>. QED BY <1>3, LeastNat
<1>5. \E b \in C : \A c \in C : b.width <= c.width
  BY <1>4
<1>6. Finest(B, t) \in C /\ \A b \in C : Finest(B, t).width <= b.width
  BY <1>5 DEF Finest
<1> HIDE DEF C
<1>7. ASSUME NEW a \in C, NEW b \in C, a.width = b.width PROVE a = b
  <2> SUFFICES ASSUME a # b PROVE FALSE
    OBVIOUS
  <2>1. a.start + a.width <= b.start \/ b.start + b.width <= a.start
    BY <1>1, <1>2, <1>7 DEF Tidy
  <2>. QED BY <1>2, <2>1
<1>. QED BY <1>6, <1>7 DEF C

\* Of one monitor's buckets, the finest to cover a second is the one left to speak for it.
LEMMA AloneFinest ==
    ASSUME NEW B, Tidy(B), NEW m, \A b \in B : b.monitor = m, NEW t \in Int, NEW b \in B
    PROVE  (\E iv \in Alone(b, B) : In(iv, t)) <=> Covering(B, t) # {} /\ b = Finest(B, t)
<1> DEFINE C == Covering(B, t)
           f == Finest(B, t)
<1>1. (\E iv \in Alone(b, B) : In(iv, t)) <=> b \in C /\ ~ \E d \in C : Finer(d, b)
  BY AloneIs
<1>2. CASE C = {}
  BY <1>1, <1>2
<1>3. CASE C # {}
  <2>1. f \in C /\ (\A c \in C : f.width <= c.width) /\ \A c \in C : c.width = f.width => c = f
    BY <1>3, FinestIs
  <2>2. \A c \in C : c.width \in Int /\ c.start \in Int
    BY DEF Covering, Tidy
  <2> HIDE DEF C, f
  <2>3. ASSUME b = f PROVE ~ \E d \in C : Finer(d, b)
    <3> SUFFICES ASSUME NEW d \in C, Finer(d, f) PROVE FALSE
      BY <2>3
    <3>1. ~(d.width < f.width)
      BY <2>1, <2>2
    <3>2. d.width = f.width /\ d.start < f.start
      BY <3>1 DEF Finer
    <3>3. d = f
      BY <2>1, <3>2
    <3>. QED BY <2>1, <2>2, <3>2, <3>3
  <2>4. ASSUME b \in C, b # f PROVE Finer(f, b)
    <3>1. f.width <= b.width /\ b.width # f.width
      BY <2>1, <2>4
    <3>2. f.width < b.width
      BY <2>1, <2>2, <2>4, <3>1
    <3>. QED BY <3>2 DEF Finer
  <2>5. b \in C /\ (~ \E d \in C : Finer(d, b)) <=> b = f
    BY <2>1, <2>3, <2>4
  <2>. QED BY <1>1, <1>3, <2>5 DEF f, C
<1>. QED BY <1>2, <1>3

\* A bucket with a reading that says something of the service.
Telling(b) == b.up + b.degraded + b.down > 0

LEMMA SegmentIs ==
    ASSUME NEW b, NEW iv
    PROVE  /\ Segment(b, iv).from = iv.from /\ Segment(b, iv).to = iv.to /\ Segment(b, iv).monitor = b.monitor
           /\ Segment(b, iv).observed <=> Telling(b)
           /\ Segment(b, iv).down <=> b.verdict = "down"
           /\ \A t : In(Segment(b, iv), t) <=> In(iv, t)
BY DEF Segment, Telling, In

LEMMA SegmentsAre ==
    ASSUME NEW B, Tidy(B)
    PROVE  /\ IsFiniteSet(monitorSegments(B))
           /\ \A s \in monitorSegments(B) : \E b \in B : \E iv \in Alone(b, B) : s = Segment(b, iv)
           /\ \A b \in B : \A iv \in Alone(b, B) : Segment(b, iv) \in monitorSegments(B)
           /\ \A s \in monitorSegments(B) : s.from \in Int /\ s.to \in Int /\ s.from < s.to
<1> DEFINE of == [b \in B |-> {Segment(b, iv) : iv \in Alone(b, B)}]
<1>1. \A b \in B : IsList(Alone(b, B)) /\ Normal(Alone(b, B))
  BY AloneIs
<1>2. ASSUME NEW b \in B PROVE IsFiniteSet(of[b])
  <2> DEFINE g == [iv \in Alone(b, B) |-> Segment(b, iv)]
             G == {g[iv] : iv \in Alone(b, B)}
  <2>1. of[b] = G
    OBVIOUS
  <2>2. IsFiniteSet(Alone(b, B))
    BY <1>1 DEF IsList
  <2> HIDE DEF g
  <2>3. IsFiniteSet(G)
    BY <2>2, FiniteImage
  <2>. QED BY <2>1, <2>3
<1>3. IsFiniteSet(B)
  BY DEF Tidy
<1>4. monitorSegments(B) = UNION {of[b] : b \in B}
  BY DEF monitorSegments
<1>5. \A b \in B : of[b] = {Segment(b, iv) : iv \in Alone(b, B)}
  OBVIOUS
<1> HIDE DEF of
<1>6. IsFiniteSet({of[b] : b \in B})
  BY <1>3, FiniteImage
<1>7. IsFiniteSet(UNION {of[b] : b \in B})
  <2> DEFINE F == {of[b] : b \in B}
  <2>1. \A T \in F : IsFiniteSet(T)
    BY <1>2
  <2> HIDE DEF F
  <2>2. IsFiniteSet(UNION F)
    BY <1>6, <2>1, FS_UNION DEF F
  <2>. QED BY <2>2 DEF F
<1>8. \A s : s \in monitorSegments(B) <=> \E b \in B : \E iv \in Alone(b, B) : s = Segment(b, iv)
  BY <1>4, <1>5
<1>9. ASSUME NEW s \in monitorSegments(B) PROVE s.from \in Int /\ s.to \in Int /\ s.from < s.to
  <2>1. PICK b \in B : \E iv \in Alone(b, B) : s = Segment(b, iv)
    BY <1>8
  <2>2. PICK iv \in Alone(b, B) : s = Segment(b, iv)
    BY <2>1
  <2>3. iv.from \in Int /\ iv.to \in Int /\ iv.from < iv.to
    BY <1>1 DEF IsList, Intervals, Normal
  <2>4. s.from = iv.from /\ s.to = iv.to
    BY <2>2, SegmentIs
  <2>. QED BY <2>3, <2>4
<1>. QED BY <1>4, <1>7, <1>8, <1>9

\* The one segment of a monitor's buckets on a second.
OnlySegment(s, B, m, t) ==
    /\ s \in monitorSegments(B) /\ In(s, t) /\ s.monitor = m
    /\ s.observed <=> Telling(Finest(B, t))
    /\ s.down <=> Finest(B, t).verdict = "down"
    /\ \A r \in monitorSegments(B) : In(r, t) => r = s

\* A second has one segment of a monitor, of the finest bucket, or none.
LEMMA SegmentAt ==
    ASSUME NEW B, Tidy(B), NEW m, \A b \in B : b.monitor = m, NEW t \in Int
    PROVE  /\ Covering(B, t) = {} => ~ \E s \in monitorSegments(B) : In(s, t)
           /\ Covering(B, t) # {} => \E s : OnlySegment(s, B, m, t)
<1> DEFINE f == Finest(B, t)
<1>1. ASSUME NEW r \in monitorSegments(B), In(r, t)
      PROVE  Covering(B, t) # {} /\ f \in B /\ \E iv \in Alone(f, B) : In(iv, t) /\ r = Segment(f, iv)
  <2>1. PICK b \in B : \E iv \in Alone(b, B) : r = Segment(b, iv)
    BY SegmentsAre
  <2>2. PICK iv \in Alone(b, B) : r = Segment(b, iv)
    BY <2>1
  <2>3. In(iv, t)
    BY <1>1, <2>2, SegmentIs
  <2>4. Covering(B, t) # {} /\ b = f
    BY <2>3, AloneFinest
  <2>. QED BY <2>2, <2>3, <2>4
<1>2. CASE Covering(B, t) = {}
  BY <1>1, <1>2
<1>3. CASE Covering(B, t) # {}
  <2>1. f \in B
    BY <1>3, FinestIs DEF Covering
  <2>2. PICK iv \in Alone(f, B) : In(iv, t)
    BY <1>3, <2>1, AloneFinest
  <2> HIDE DEF f
  <2> DEFINE s == Segment(f, iv)
  <2>3. s \in monitorSegments(B)
    BY <2>1, <2>2, SegmentsAre
  <2>4. In(s, t) /\ s.monitor = m /\ (s.observed <=> Telling(f)) /\ (s.down <=> f.verdict = "down")
    BY <2>1, <2>2, SegmentIs
  <2>5. ASSUME NEW r \in monitorSegments(B), In(r, t) PROVE r = s
    <3>1. PICK jv \in Alone(f, B) : In(jv, t) /\ r = Segment(f, jv)
      BY <1>1, <2>5
    <3>2. IsList(Alone(f, B)) /\ Normal(Alone(f, B))
      BY <2>1, AloneIs
    <3>3. iv.from \in Int /\ iv.to \in Int /\ jv.from \in Int /\ jv.to \in Int
      BY <3>2 DEF IsList, Intervals
    <3>4. iv = jv \/ iv.to < jv.from \/ jv.to < iv.from
      BY <3>2 DEF Normal
    <3>5. iv = jv
      BY <2>2, <3>1, <3>3, <3>4 DEF In
    <3>. QED BY <3>1, <3>5
  <2> HIDE DEF s
  <2>6. OnlySegment(s, B, m, t)
    BY <2>3, <2>4, <2>5 DEF f, OnlySegment
  <2>. QED BY <1>3, <2>6
<1>. QED BY <1>2, <1>3

-----------------------------------------------------------------------------
(* The sweep.                                                              *)

\* A finite set of numbers has a greatest one, and a least one.
LEMMA FiniteMax ==
    ASSUME NEW S \in SUBSET Int, S # {}, IsFiniteSet(S)
    PROVE  Max(S) \in S /\ \A x \in S : Max(S) >= x
<1> DEFINE above == [x \in S |-> Cardinality({y \in S : y > x})]
           N == {above[x] : x \in S}
<1>1. ASSUME NEW x \in S PROVE IsFiniteSet({y \in S : y > x}) /\ Cardinality({y \in S : y > x}) \in Nat
  <2>1. IsFiniteSet({y \in S : y > x})
    BY FS_Subset
  <2>. QED BY <2>1, FS_CardinalityType
<1>2. N \in SUBSET Nat /\ N # {}
  BY <1>1
<1>3. PICK n \in N : \A k \in N : n <= k
  <2> HIDE DEF N
  <2>. QED BY <1>2, LeastNat
<1>4. PICK x \in S : n = above[x]
  BY <1>3
<1>5. \A y \in S : above[x] <= above[y]
  BY <1>3, <1>4
<1>6. ASSUME NEW y \in S, y > x PROVE FALSE
  <2> DEFINE X == {z \in S : z > x}
             Y == {z \in S : z > y}
  <2>0. \A z \in S : z > y => z > x /\ z # y
    BY <1>6
  <2>1. y \in X /\ Y \subseteq X \ {y}
    BY <1>6, <2>0
  <2>2. IsFiniteSet(X) /\ Cardinality(X) \in Nat /\ Cardinality(Y) \in Nat
    BY <1>1
  <2>3. Cardinality(X) <= Cardinality(Y)
    BY <1>5
  <2> HIDE DEF X, Y
  <2>4. IsFiniteSet(X \ {y}) /\ Cardinality(X \ {y}) = Cardinality(X) - 1
    BY <2>1, <2>2, FS_RemoveElement
  <2>5. Cardinality(Y) <= Cardinality(X \ {y})
    BY <2>1, <2>4, FS_Subset
  <2>. QED BY <2>2, <2>3, <2>4, <2>5
<1>7. \A y \in S : x >= y
  BY <1>6
<1>8. \E z \in S : \A y \in S : z >= y
  BY <1>7
<1>. QED BY <1>8 DEF Max

LEMMA FiniteMin ==
    ASSUME NEW S \in SUBSET Int, S # {}, IsFiniteSet(S)
    PROVE  Min(S) \in S /\ \A x \in S : Min(S) <= x
<1> DEFINE minus == [x \in S |-> -x]
           T == {minus[x] : x \in S}
<1>1. T \in SUBSET Int /\ T # {}
  OBVIOUS
<1>2. \A x \in S : minus[x] = -x
  OBVIOUS
<1>3. IsFiniteSet(T)
  <2> HIDE DEF minus
  <2>. QED BY FiniteImage
<1> HIDE DEF minus
<1>4. Max(T) \in T /\ \A x \in T : Max(T) >= x
  <2> HIDE DEF T
  <2>. QED BY <1>1, <1>3, FiniteMax
<1>5. PICK x \in S : Max(T) = minus[x]
  BY <1>4
<1>6. \A y \in S : minus[x] >= minus[y]
  BY <1>4, <1>5
<1>7. \A y \in S : x <= y
  BY <1>2, <1>6
<1>8. \E z \in S : \A y \in S : z <= y
  BY <1>7
<1>. QED BY <1>8 DEF Min

\* The steps of a sweep lie between neighbouring points, and leave no second out.
LEMMA StepsAre ==
    ASSUME NEW P \in SUBSET Int, IsFiniteSet(P)
    PROVE  /\ IsList(Steps(P))
           /\ \A iv \in Steps(P) : iv.from < iv.to /\ \A q \in P : q <= iv.from \/ q >= iv.to
           /\ \A t \in Int, p \in P, q \in P : p <= t /\ t < q => \E iv \in Steps(P) : In(iv, t)
<1> DEFINE H == {q \in P : q < Max(P)}
           next == [p \in H |-> Min({q \in P : q > p})]
           step == [p \in H |-> Interval(p, next[p])]
<1>1. ASSUME NEW p \in H
      PROVE  next[p] \in P /\ next[p] > p /\ \A q \in P : q > p => next[p] <= q
  <2> DEFINE Q == {q \in P : q > p}
  <2>1. Q \in SUBSET Int /\ IsFiniteSet(Q)
    BY FS_Subset
  <2>2. Max(P) \in P
    BY FiniteMax
  <2>3. Max(P) \in Q
    BY <2>2
  <2> HIDE DEF Q
  <2>4. Min(Q) \in Q /\ \A x \in Q : Min(Q) <= x
    BY <2>1, <2>3, FiniteMin
  <2>5. next[p] = Min(Q)
    BY DEF Q
  <2> HIDE DEF next
  <2>. QED BY <2>4, <2>5 DEF Q
<1>2. Steps(P) = {step[p] : p \in H}
  BY DEF Steps
<1>3. \A p \in H : step[p] = Interval(p, next[p]) /\ p \in Int /\ p \in P
  OBVIOUS
<1>4. IsFiniteSet(H)
  BY FS_Subset
<1>5. \A t \in Int : (\E p, q \in P : p <= t /\ t < q) => \E p \in H : p <= t /\ \A q \in P : q <= t => q <= p
  <2> SUFFICES ASSUME NEW t \in Int, NEW p \in P, NEW q \in P, p <= t, t < q
               PROVE  \E r \in H : r <= t /\ \A x \in P : x <= t => x <= r
    OBVIOUS
  <2> DEFINE L == {x \in P : x <= t}
  <2>1. L \in SUBSET Int /\ IsFiniteSet(L) /\ L # {}
    BY FS_Subset
  <2>2. \A x \in P : Max(P) >= x
    BY FiniteMax
  <2>3. \A x \in L : x \in P /\ x <= t
    OBVIOUS
  <2>4. \A x \in P : x <= t => x \in L
    OBVIOUS
  <2> HIDE DEF L
  <2>5. Max(L) \in L /\ \A x \in L : Max(L) >= x
    BY <2>1, FiniteMax
  <2>6. Max(L) < Max(P)
    <3>1. Max(P) \in P
      BY FiniteMax
    <3>2. Max(P) >= q /\ Max(P) \in Int /\ Max(L) \in Int /\ Max(L) <= t
      BY <2>1, <2>2, <2>3, <2>5, <3>1
    <3>. QED BY <3>2
  <2>7. Max(L) \in H
    BY <2>3, <2>5, <2>6
  <2>8. \A x \in P : x <= t => x <= Max(L)
    BY <2>1, <2>4, <2>5
  <2>. QED BY <2>3, <2>5, <2>7, <2>8
<1> HIDE DEF H, next, step
<1>6. \A p \in H : next[p] \in Int /\ step[p] \in Intervals /\ step[p].from = p /\ step[p].to = next[p]
  <2> SUFFICES ASSUME NEW p \in H
               PROVE  next[p] \in Int /\ step[p] \in Intervals /\ step[p].from = p /\ step[p].to = next[p]
    OBVIOUS
  <2>1. next[p] \in Int /\ p \in Int
    BY <1>1, <1>3
  <2>2. step[p] = Interval(p, next[p])
    BY <1>3
  <2>. QED BY <2>1, <2>2, IntervalIs
<1>7. IsList(Steps(P))
  <2>1. IsFiniteSet(Steps(P))
    BY <1>2, <1>4, FiniteImage
  <2>. QED BY <1>2, <1>6, <2>1 DEF IsList
<1>8. ASSUME NEW iv \in Steps(P) PROVE iv.from < iv.to /\ \A q \in P : q <= iv.from \/ q >= iv.to
  <2>1. PICK p \in H : iv = step[p]
    BY <1>2
  <2>2. iv.from = p /\ iv.to = next[p]
    BY <1>6, <2>1
  <2>3. p \in Int /\ next[p] \in P /\ next[p] > p /\ \A q \in P : q > p => next[p] <= q
    BY <1>1, <1>3
  <2>4. next[p] \in Int
    BY <2>3
  <2>5. p < next[p]
    BY <2>3, <2>4
  <2>6. \A q \in P : q <= p \/ q >= next[p]
    BY <2>3, <2>4
  <2>. QED BY <2>2, <2>5, <2>6
<1>9. ASSUME NEW t \in Int, NEW x \in P, NEW y \in P, x <= t, t < y PROVE \E iv \in Steps(P) : In(iv, t)
  <2>1. PICK p \in H : p <= t /\ \A q \in P : q <= t => q <= p
    BY <1>5, <1>9
  <2>2. p \in Int /\ next[p] \in P /\ next[p] > p /\ next[p] \in Int
    BY <1>1, <1>3, <1>6
  <2>3. ~(next[p] <= t)
    BY <2>1, <2>2
  <2>4. In(step[p], t)
    <3>1. step[p].from = p /\ step[p].to = next[p]
      BY <1>6
    <3>. QED BY <2>1, <2>2, <2>3, <3>1 DEF In
  <2>5. step[p] \in Steps(P)
    BY <1>2
  <2>. QED BY <2>4, <2>5
<1>. QED BY <1>7, <1>8, <1>9

\* The segments that say something of a second.
At(all, t) == {s \in all : In(s, t) /\ s.observed}

\* The sweep finds, of every second, what the segments that speak for it say.
LEMMA SweepIs ==
    ASSUME NEW all, IsFiniteSet(all), \A s \in all : s.from \in Int /\ s.to \in Int /\ s.from < s.to, NEW rule
    PROVE  LET series == Sweep(rule, all, Steps({s.from : s \in all} \cup {s.to : s \in all}))
           IN  /\ IsList(series.observed) /\ IsList(series.down)
               /\ \A t \in Int : t \in Secs(series.observed) <=> At(all, t) # {}
               /\ \A t \in Int : t \in Secs(series.down) <=> At(all, t) # {} /\ BadOf(rule, At(all, t))
<1> DEFINE start == [s \in all |-> s.from]
           end == [s \in all |-> s.to]
           P == {s.from : s \in all} \cup {s.to : s \in all}
           steps == Steps(P)
           series == Sweep(rule, all, steps)
           seen == {iv \in steps : Speaking(all, iv) # {}}
           bad == {iv \in seen : BadOf(rule, Speaking(all, iv))}
<1>1. P \in SUBSET Int /\ IsFiniteSet(P)
  <2>1. {s.from : s \in all} = {start[s] : s \in all} /\ {s.to : s \in all} = {end[s] : s \in all}
    OBVIOUS
  <2> HIDE DEF start, end
  <2>2. IsFiniteSet({start[s] : s \in all}) /\ IsFiniteSet({end[s] : s \in all})
    BY FiniteImage
  <2>3. IsFiniteSet(P)
    BY <2>1, <2>2, FS_Union
  <2>. QED BY <2>3
<1>2. series.observed = Merge(seen) /\ series.down = Merge(bad)
  BY DEF Sweep
<1>3. \A s \in all : s.from \in P /\ s.to \in P
  OBVIOUS
<1> HIDE DEF P
<1>4. /\ IsList(steps)
      /\ \A iv \in steps : iv.from < iv.to /\ \A q \in P : q <= iv.from \/ q >= iv.to
      /\ \A t \in Int, p \in P, q \in P : p <= t /\ t < q => \E iv \in steps : In(iv, t)
  BY <1>1, StepsAre
<1>5. \A iv \in steps : iv.from \in Int /\ iv.to \in Int
  BY <1>4 DEF IsList, Intervals
<1> HIDE DEF steps
<1>6. ASSUME NEW iv \in steps, NEW t \in Int, In(iv, t) PROVE Speaking(all, iv) = At(all, t)
  <2>1. ASSUME NEW s \in all PROVE s.from <= iv.from /\ s.to >= iv.to <=> In(s, t)
    <3>1. s.from \in Int /\ s.to \in Int /\ iv.from \in Int /\ iv.to \in Int
      BY <1>5
    <3>2. iv.from <= t /\ t < iv.to
      BY <1>6 DEF In
    <3>3. (s.from <= iv.from \/ s.from >= iv.to) /\ (s.to <= iv.from \/ s.to >= iv.to)
      BY <1>3, <1>4
    <3>. QED BY <3>1, <3>2, <3>3 DEF In
  <2>. QED BY <2>1 DEF Speaking, At
<1>7. ASSUME NEW t \in Int, At(all, t) # {} PROVE \E iv \in steps : In(iv, t)
  <2>1. PICK s \in all : In(s, t)
    BY <1>7 DEF At
  <2>2. s.from <= t /\ t < s.to
    BY <2>1 DEF In
  <2>. QED BY <1>3, <1>4, <2>2
<1>8. IsList(seen) /\ IsList(bad)
  BY <1>4, FS_Subset DEF IsList
<1>9. \A t \in Int : (\E iv \in seen : In(iv, t)) <=> At(all, t) # {}
  BY <1>6, <1>7
<1>10. \A t \in Int : (\E iv \in bad : In(iv, t)) <=> At(all, t) # {} /\ BadOf(rule, At(all, t))
  BY <1>6, <1>7
<1> HIDE DEF seen, bad, series
<1>11. /\ IsList(Merge(seen)) /\ Secs(Merge(seen)) = Secs(seen)
       /\ IsList(Merge(bad)) /\ Secs(Merge(bad)) = Secs(bad)
  BY <1>8, MergeCovers
<1>12. \A t \in Int : (t \in Secs(seen) <=> \E iv \in seen : In(iv, t)) /\ (t \in Secs(bad) <=> \E iv \in bad : In(iv, t))
  BY <1>8, SecsIs DEF IsList
<1>. QED BY <1>2, <1>9, <1>10, <1>11, <1>12 DEF series, steps, P

-----------------------------------------------------------------------------
(* The series of a component, second by second.                            *)

Mine(c) == {m \in Monitors : ComponentOf[m] = c}
Of(B, m) == {b \in B : b.monitor = m}

\* A monitor saw the service at a second, and found it down.
Saw(B, m, t) == Covering(Of(B, m), t) # {} /\ Telling(Finest(Of(B, m), t))
Fell(B, m, t) == Saw(B, m, t) /\ Finest(Of(B, m), t).verdict = "down"
Seers(c, B, t) == {m \in Mine(c) : Saw(B, m, t)}
Fallen(c, B, t) == {m \in Mine(c) : Fell(B, m, t)}

LEMMA OfOne ==
    ASSUME NEW B, Tidy(B), NEW m
    PROVE  Tidy(Of(B, m)) /\ \A b \in Of(B, m) : b.monitor = m
<1>1. Of(B, m) \subseteq B /\ \A b \in Of(B, m) : b.monitor = m
  BY DEF Of
<1>. QED BY <1>1, TidySubset

LEMMA ComponentSegments ==
    ASSUME NEW B, Tidy(B), NEW c
    PROVE  /\ IsFiniteSet(Segments(c, B))
           /\ \A s : s \in Segments(c, B) <=> \E m \in Mine(c) : s \in monitorSegments(Of(B, m))
           /\ \A s \in Segments(c, B) : s.from \in Int /\ s.to \in Int /\ s.from < s.to
<1> DEFINE of == [m \in Mine(c) |-> monitorSegments(Of(B, m))]
           F == {of[m] : m \in Mine(c)}
<1>1. \A m \in Mine(c) : of[m] = monitorSegments(Of(B, m))
  OBVIOUS
<1>2. Segments(c, B) = UNION F
  BY DEF Segments, Mine, Of
<1> HIDE DEF of
<1>3. IsFiniteSet(Mine(c))
  BY ReportsAssumption, FS_Subset DEF Mine
<1>4. IsFiniteSet(F)
  BY <1>3, FiniteImage
<1>5. \A m \in Mine(c) : /\ IsFiniteSet(monitorSegments(Of(B, m)))
                         /\ \A s \in monitorSegments(Of(B, m)) : s.from \in Int /\ s.to \in Int /\ s.from < s.to
  BY OfOne, SegmentsAre
<1>6. \A T \in F : IsFiniteSet(T)
  BY <1>1, <1>5
<1>7. \A s : s \in UNION F <=> \E m \in Mine(c) : s \in monitorSegments(Of(B, m))
  BY <1>1
<1> HIDE DEF F
<1>8. IsFiniteSet(UNION F)
  BY <1>4, <1>6, FS_UNION
<1>. QED BY <1>2, <1>5, <1>7, <1>8

\* A component's segments on a second: at most one of each monitor, which says what
\* the finest bucket of the monitor says.
LEMMA SegmentsSay ==
    ASSUME NEW B, Tidy(B), NEW c, NEW t \in Int
    PROVE  /\ \A s \in Segments(c, B) : In(s, t) =>
                 /\ s.monitor \in Mine(c)
                 /\ s.observed <=> Saw(B, s.monitor, t)
                 /\ s.observed /\ s.down <=> Fell(B, s.monitor, t)
           /\ \A r, s \in Segments(c, B) : In(r, t) /\ In(s, t) /\ r.monitor = s.monitor => r = s
           /\ \A m \in Mine(c) : Saw(B, m, t) => \E s \in Segments(c, B) : In(s, t) /\ s.monitor = m
<1>1. \A s : s \in Segments(c, B) <=> \E m \in Mine(c) : s \in monitorSegments(Of(B, m))
  BY ComponentSegments
<1>2. ASSUME NEW m
      PROVE  /\ Covering(Of(B, m), t) = {} => ~ \E s \in monitorSegments(Of(B, m)) : In(s, t)
             /\ Covering(Of(B, m), t) # {} => \E s : OnlySegment(s, Of(B, m), m, t)
  <2>1. Tidy(Of(B, m)) /\ \A b \in Of(B, m) : b.monitor = m
    BY OfOne
  <2>. QED BY <2>1, SegmentAt
<1>3. ASSUME NEW m, NEW s \in monitorSegments(Of(B, m)), In(s, t)
      PROVE  /\ s.monitor = m
             /\ s.observed <=> Saw(B, m, t)
             /\ s.observed /\ s.down <=> Fell(B, m, t)
             /\ \A r \in monitorSegments(Of(B, m)) : In(r, t) => r = s
  <2>1. Covering(Of(B, m), t) # {}
    BY <1>2, <1>3
  <2>2. PICK r : OnlySegment(r, Of(B, m), m, t)
    BY <1>2, <2>1
  <2>3. s = r
    BY <1>3, <2>2 DEF OnlySegment
  <2>. QED BY <2>1, <2>2, <2>3 DEF Saw, Fell, OnlySegment
<1>4. ASSUME NEW s \in Segments(c, B), In(s, t)
      PROVE  /\ s.monitor \in Mine(c) /\ s \in monitorSegments(Of(B, s.monitor))
             /\ s.observed <=> Saw(B, s.monitor, t)
             /\ s.observed /\ s.down <=> Fell(B, s.monitor, t)
  <2>1. PICK m \in Mine(c) : s \in monitorSegments(Of(B, m))
    BY <1>1
  <2>. QED BY <1>3, <1>4, <2>1
<1>5. ASSUME NEW r \in Segments(c, B), NEW s \in Segments(c, B), In(r, t), In(s, t), r.monitor = s.monitor PROVE r = s
  <2>1. r \in monitorSegments(Of(B, s.monitor)) /\ s \in monitorSegments(Of(B, s.monitor))
    BY <1>4, <1>5
  <2>. QED BY <1>3, <1>5, <2>1
<1>6. ASSUME NEW m \in Mine(c), Saw(B, m, t) PROVE \E s \in Segments(c, B) : In(s, t) /\ s.monitor = m
  <2>1. Covering(Of(B, m), t) # {}
    BY <1>6 DEF Saw
  <2>2. PICK s \in monitorSegments(Of(B, m)) : In(s, t) /\ s.monitor = m
    BY <1>2, <2>1 DEF OnlySegment
  <2>. QED BY <1>1, <2>2
<1>. QED BY <1>4, <1>5, <1>6

LEMMA SegmentsCount ==
    ASSUME NEW B, Tidy(B), NEW c, NEW t \in Int
    PROVE  LET at == At(Segments(c, B), t)
           IN  /\ Cardinality(at) = Cardinality(Seers(c, B, t))
               /\ Cardinality({s \in at : s.down}) = Cardinality(Fallen(c, B, t))
               /\ at # {} <=> Seers(c, B, t) # {}
<1> DEFINE at == At(Segments(c, B), t)
           bad == {s \in at : s.down}
           f == [s \in at |-> s.monitor]
           g == [s \in bad |-> s.monitor]
<1>1. /\ \A s \in Segments(c, B) : In(s, t) =>
            /\ s.monitor \in Mine(c)
            /\ s.observed <=> Saw(B, s.monitor, t)
            /\ s.observed /\ s.down <=> Fell(B, s.monitor, t)
      /\ \A r, s \in Segments(c, B) : In(r, t) /\ In(s, t) /\ r.monitor = s.monitor => r = s
      /\ \A m \in Mine(c) : Saw(B, m, t) => \E s \in Segments(c, B) : In(s, t) /\ s.monitor = m
  BY SegmentsSay
<1>2. \A s : s \in at <=> s \in Segments(c, B) /\ In(s, t) /\ s.observed
  BY DEF At
<1>3. at \subseteq Segments(c, B)
  BY <1>2
<1>4. IsFiniteSet(at)
  BY <1>3, ComponentSegments, FS_Subset
<1> HIDE DEF at
<1>5. IsFiniteSet(bad)
  BY <1>4, FS_Subset
<1>6. \A s \in at : s.monitor \in Seers(c, B, t)
  BY <1>1, <1>2 DEF Seers
<1>7. \A r, s \in at : r.monitor = s.monitor => r = s
  BY <1>1, <1>2
<1>8. \A m \in Seers(c, B, t) : \E s \in at : s.monitor = m
  BY <1>1, <1>2 DEF Seers
<1>9. \A s \in bad : s.monitor \in Fallen(c, B, t)
  BY <1>1, <1>2 DEF Fallen
<1>10. \A m \in Fallen(c, B, t) : \E s \in bad : s.monitor = m
  <2> SUFFICES ASSUME NEW m \in Fallen(c, B, t) PROVE \E s \in bad : s.monitor = m
    OBVIOUS
  <2>1. m \in Mine(c) /\ Fell(B, m, t) /\ Saw(B, m, t)
    BY DEF Fallen, Fell
  <2>2. PICK s \in Segments(c, B) : In(s, t) /\ s.monitor = m
    BY <1>1, <2>1
  <2>3. s.observed /\ s.down
    BY <1>1, <2>1, <2>2
  <2>. QED BY <1>2, <2>2, <2>3
<1>11. f \in Bijection(at, Seers(c, B, t))
  BY <1>6, <1>7, <1>8 DEF Bijection, Injection, IsInjective, Surjection
<1>12. g \in Bijection(bad, Fallen(c, B, t))
  <2>1. \A r, s \in bad : r.monitor = s.monitor => r = s
    BY <1>7
  <2> HIDE DEF bad
  <2>. QED BY <1>9, <1>10, <2>1 DEF Bijection, Injection, IsInjective, Surjection
<1>13. Cardinality(at) = Cardinality(Seers(c, B, t))
  <2>1. ExistsBijection(at, Seers(c, B, t))
    BY <1>11 DEF ExistsBijection
  <2>. QED BY <1>4, <2>1, FS_Bijection
<1>14. Cardinality(bad) = Cardinality(Fallen(c, B, t))
  <2>1. ExistsBijection(bad, Fallen(c, B, t))
    BY <1>12 DEF ExistsBijection
  <2> HIDE DEF bad
  <2>. QED BY <1>5, <2>1, FS_Bijection
<1>15. at # {} <=> Seers(c, B, t) # {}
  BY <1>6, <1>8
<1>. QED BY <1>13, <1>14, <1>15 DEF at

\* ComponentSeries, the sweep over the boundaries of every monitor's segments: whatever
\* widths the buckets have, a second is observed exactly when the finest bucket on it of
\* some monitor is a reading, and down when the rule says so of the monitors that saw it.
THEOREM SeriesExact ==
    ASSUME NEW B, Tidy(B), NEW c
    PROVE  /\ IsList(ComponentSeries(c, B).observed) /\ IsList(ComponentSeries(c, B).down)
           /\ \A t \in Int : t \in Secs(ComponentSeries(c, B).observed) <=> Seers(c, B, t) # {}
           /\ \A t \in Int : t \in Secs(ComponentSeries(c, B).down)
                  <=> /\ Seers(c, B, t) # {}
                      /\ Bad(Rollup[c], Cardinality(Fallen(c, B, t)), Cardinality(Seers(c, B, t)))
<1> DEFINE all == Segments(c, B)
           series == ComponentSeries(c, B)
<1>1. IsFiniteSet(all) /\ \A s \in all : s.from \in Int /\ s.to \in Int /\ s.from < s.to
  BY ComponentSegments
<1>2. series = Sweep(Rollup[c], all, Steps({s.from : s \in all} \cup {s.to : s \in all}))
  BY DEF ComponentSeries
<1>3. \A t \in Int : /\ Cardinality(At(all, t)) = Cardinality(Seers(c, B, t))
                     /\ Cardinality({s \in At(all, t) : s.down}) = Cardinality(Fallen(c, B, t))
                     /\ At(all, t) # {} <=> Seers(c, B, t) # {}
  BY SegmentsCount
<1> HIDE DEF all, series
<1>4. /\ IsList(series.observed) /\ IsList(series.down)
      /\ \A t \in Int : t \in Secs(series.observed) <=> At(all, t) # {}
      /\ \A t \in Int : t \in Secs(series.down) <=> At(all, t) # {} /\ BadOf(Rollup[c], At(all, t))
  BY <1>1, <1>2, SweepIs
<1>5. \A t \in Int : BadOf(Rollup[c], At(all, t))
                        <=> Bad(Rollup[c], Cardinality(Fallen(c, B, t)), Cardinality(Seers(c, B, t)))
  BY <1>3 DEF BadOf
<1>. QED BY <1>3, <1>4, <1>5 DEF series

-----------------------------------------------------------------------------
(* Net agreed service time.                                                *)

WindowsTyped ==
    \A w \in Windows : /\ windows[w].from \in Int /\ windows[w].to \in Int
                       /\ windows[w].excluded => windows[w].class # "none"

\* The seconds of a period that count.
NetTo(F, T) == {t \in F..(T - 1) : NetAt(t)}

\* A window takes a second out of the agreed service time.
TakesOut(w, t) ==
    windows[w].excluded /\ ~windows[w].cancelled /\ windows[w].from <= t /\ t < windows[w].to

LEMMA NetAtIs ==
    ASSUME WindowsTyped, NEW t \in Int
    PROVE  NetAt(t) <=> t \in Secs(Scheduled) /\ ~ \E w \in Windows : TakesOut(w, t)
<1>1. \A w \in Windows : t \in Secs({windows[w]}) <=> windows[w].from <= t /\ t < windows[w].to
  <2> SUFFICES ASSUME NEW w \in Windows
               PROVE  t \in Secs({windows[w]}) <=> windows[w].from <= t /\ t < windows[w].to
    OBVIOUS
  <2> DEFINE x == windows[w]
  <2>1. x.from \in Int /\ x.to \in Int
    BY DEF WindowsTyped
  <2> HIDE DEF x
  <2>2. Secs({x}) = x.from..(x.to - 1)
    BY DEF Secs
  <2>3. t \in Secs({x}) <=> x.from <= t /\ t < x.to
    BY <2>1, <2>2
  <2>. QED BY <2>3 DEF x
<1>. QED BY <1>1 DEF NetAt, TakesOut

LEMMA ClipIs ==
    ASSUME NEW F \in Nat, NEW T \in Nat
    PROVE  /\ IsList(Clip(Scheduled, F, T))
           /\ \A t : t \in Secs(Clip(Scheduled, F, T)) <=> t \in F..(T - 1) /\ t \in Secs(Scheduled)
<1> DEFINE period == {Interval(F, T)}
<1>1. Interval(F, T) \in Intervals /\ Interval(F, T).from = F /\ Interval(F, T).to = T
  BY IntervalIs
<1>2. IsList(period)
  BY <1>1, FS_Singleton DEF IsList
<1>3. IsList(Scheduled)
  BY ReportsAssumption DEF IsList, Intervals
<1>4. Secs(period) = F..(T - 1)
  BY <1>1 DEF Secs
<1> HIDE DEF period
<1>5. IsList(Intersect(Scheduled, period)) /\ Secs(Intersect(Scheduled, period)) = Secs(Scheduled) \cap Secs(period)
  BY <1>2, <1>3, IntersectCovers
<1>. QED BY <1>4, <1>5 DEF Clip, period

LEMMA AppliedIs ==
    ASSUME WindowsTyped, NEW F \in Nat, NEW T \in Nat, NEW S, IsList(S), \A t \in Secs(S) : t \in F..(T - 1)
    PROVE  /\ IsList(Applied(S, F, T))
           /\ \A t : t \in Secs(Applied(S, F, T)) <=> t \in Secs(S) /\ \E w \in Windows : TakesOut(w, t)
<1> DEFINE between == {w \in Windows : InForce(w) /\ windows[w].from < T /\ windows[w].to > F}
           out == {v \in between : windows[v].excluded}
           whole(w) == {Interval(windows[w].from, windows[w].to)}
           f == [w \in out |-> Intersect(whole(w), S)]
           all == UNION {f[w] : w \in out}
<1>1. Applied(S, F, T) = all
  BY DEF Applied
<1>2. \A w : w \in out <=> w \in Windows /\ InForce(w) /\ windows[w].from < T /\ windows[w].to > F /\ windows[w].excluded
  OBVIOUS
<1>3. \A w \in out : f[w] = Intersect(whole(w), S)
  OBVIOUS
<1>4. IsFiniteSet(out)
  BY ReportsAssumption, FS_Subset
<1> HIDE DEF f, out
<1>5. ASSUME NEW w \in out
      PROVE  /\ IsList(f[w])
             /\ \A t : t \in Secs(f[w]) <=> t \in Int /\ windows[w].from <= t /\ t < windows[w].to /\ t \in Secs(S)
  <2> DEFINE x == windows[w]
             W == {Interval(x.from, x.to)}
  <2>1. x.from \in Int /\ x.to \in Int
    BY <1>2 DEF WindowsTyped
  <2>2. f[w] = Intersect(W, S)
    BY <1>3
  <2> HIDE DEF x
  <2>3. Interval(x.from, x.to) \in Intervals /\ Interval(x.from, x.to).from = x.from /\ Interval(x.from, x.to).to = x.to
    BY <2>1, IntervalIs
  <2>4. IsList(W)
    BY <2>3, FS_Singleton DEF IsList
  <2>5. Secs(W) = x.from..(x.to - 1)
    BY <2>3 DEF Secs
  <2> HIDE DEF W
  <2>6. IsList(f[w]) /\ Secs(f[w]) = Secs(W) \cap Secs(S)
    BY <2>2, <2>4, IntersectCovers
  <2>7. \A t : t \in Secs(W) <=> t \in Int /\ x.from <= t /\ t < x.to
    BY <2>1, <2>5
  <2>. QED BY <2>6, <2>7 DEF x
<1>6. IsList(all)
  BY <1>4, <1>5, UnionList
<1>7. \A t : t \in Secs(all) <=> \E w \in out : t \in Secs(f[w])
  BY DEF Secs
<1> HIDE DEF all
<1>8. ASSUME NEW t \in Secs(S), NEW w \in Windows
      PROVE  TakesOut(w, t) <=> w \in out /\ windows[w].from <= t /\ t < windows[w].to
  <2>1. t \in F..(T - 1) /\ windows[w].from \in Int /\ windows[w].to \in Int
    BY DEF WindowsTyped
  <2>2. windows[w].from <= t /\ t < windows[w].to => windows[w].from < T /\ windows[w].to > F
    BY <2>1
  <2>3. windows[w].excluded => windows[w].class # "none"
    BY DEF WindowsTyped
  <2>. QED BY <1>2, <2>2, <2>3 DEF TakesOut, InForce
<1>9. \A w \in out : w \in Windows
  BY <1>2
<1>10. \A t \in Secs(S) : t \in Int
  OBVIOUS
<1>11. \A t : t \in Secs(all) <=> t \in Secs(S) /\ \E w \in Windows : TakesOut(w, t)
  BY <1>5, <1>7, <1>8, <1>9, <1>10
<1>. QED BY <1>1, <1>6, <1>11

\* What is left of the agreed service time is the seconds that count; what is taken
\* out and what is left make up all of it.
LEMMA NetIs ==
    ASSUME WindowsTyped, NEW F \in Nat, NEW T \in Nat
    PROVE  LET scheduled == Clip(Scheduled, F, T)
               applied == Applied(scheduled, F, T)
               net == Subtract(scheduled, applied)
           IN  /\ IsList(scheduled) /\ IsList(applied) /\ IsList(net)
               /\ Secs(net) = NetTo(F, T)
               /\ Total(scheduled) = Total(net) + Total(applied)
<1> DEFINE scheduled == Clip(Scheduled, F, T)
           applied == Applied(scheduled, F, T)
           net == Subtract(scheduled, applied)
<1>1. IsList(scheduled) /\ \A t : t \in Secs(scheduled) <=> t \in F..(T - 1) /\ t \in Secs(Scheduled)
  BY ClipIs
<1> HIDE DEF scheduled
<1>2. IsList(applied) /\ \A t : t \in Secs(applied) <=> t \in Secs(scheduled) /\ \E w \in Windows : TakesOut(w, t)
  BY <1>1, AppliedIs
<1> HIDE DEF applied
<1>3. IsList(net) /\ Secs(net) = Secs(scheduled) \ Secs(applied)
  BY <1>1, <1>2, SubtractCovers
<1> HIDE DEF net
<1>4. \A t \in F..(T - 1) : NetAt(t) <=> t \in Secs(Scheduled) /\ ~ \E w \in Windows : TakesOut(w, t)
  BY NetAtIs
<1>5. Secs(net) = NetTo(F, T)
  BY <1>1, <1>2, <1>3, <1>4 DEF NetTo
<1>6. Total(scheduled) = Total(net) + Total(applied)
  <2> DEFINE s == Secs(scheduled)
             a == Secs(applied)
  <2>1. IsFiniteSet(s) /\ Cardinality(s) \in Nat /\ Total(scheduled) = Cardinality(s)
    BY <1>1, TotalCounts
  <2>2. Cardinality(a) \in Nat /\ Total(applied) = Cardinality(a)
    BY <1>2, TotalCounts
  <2>3. Total(net) = Cardinality(s \ a)
    BY <1>3, TotalCounts
  <2>4. s \cap a = a
    BY <1>2
  <2> HIDE DEF s, a
  <2>5. Cardinality(s \ a) = Cardinality(s) - Cardinality(s \cap a)
    BY <2>1, FS_Difference
  <2>. QED BY <2>1, <2>2, <2>3, <2>4, <2>5
<1>. QED BY <1>1, <1>2, <1>3, <1>5, <1>6 DEF scheduled, applied, net

-----------------------------------------------------------------------------
(* The figures of a period, second by second.                              *)

Evidence(F, T) == evidenceBuckets(buckets, F, T)

\* A component is down at a second, by the rule and the monitors that saw it.
DownAt(c, B, t) ==
    /\ Seers(c, B, t) # {}
    /\ Bad(Rollup[c], Cardinality(Fallen(c, B, t)), Cardinality(Seers(c, B, t)))

\* The seconds that count and a component was seen, and was down.
SeenTo(c, F, T) == {t \in NetTo(F, T) : Seers(c, Evidence(F, T), t) # {}}
DownTo(c, F, T) == {t \in NetTo(F, T) : DownAt(c, Evidence(F, T), t)}

LEMMA EvidenceTidy ==
    ASSUME Tidy(buckets), NEW F, NEW T
    PROVE  Tidy(Evidence(F, T))
<1>1. Evidence(F, T) \subseteq buckets
  BY DEF Evidence, evidenceBuckets
<1>. QED BY <1>1, TidySubset

\* What the reference says of a component is that.
LEMMA WitnessedIs ==
    ASSUME NEW c, NEW B, NEW net
    PROVE  /\ Witnessed(c, B, net).observed = {t \in net : Seers(c, B, t) # {}}
           /\ Witnessed(c, B, net).down = {t \in net : DownAt(c, B, t)}
<1> DEFINE seen == [m \in Mine(c) |-> Observed(Of(B, m), net)]
           down == [m \in Mine(c) |-> Down(Of(B, m), Observed(Of(B, m), net))]
           observed == UNION {seen[m] : m \in Mine(c)}
           nSeen(t) == Cardinality({m \in Mine(c) : t \in seen[m]})
           nDown(t) == Cardinality({m \in Mine(c) : t \in down[m]})
<1>1. Witnessed(c, B, net) = Counted(Rollup[c], seen, down)
  BY DEF Witnessed, Mine, Of
<1>2. DOMAIN seen = Mine(c) /\ DOMAIN down = Mine(c)
  OBVIOUS
<1>3. \A m \in Mine(c) : \A t : t \in seen[m] <=> t \in net /\ Saw(B, m, t)
  BY DEF Observed, Saw, Telling
<1>4. \A m \in Mine(c) : \A t : t \in down[m] <=> t \in net /\ Fell(B, m, t)
  BY DEF Observed, Down, Saw, Fell, Telling
<1> HIDE DEF seen, down
<1>5. /\ Counted(Rollup[c], seen, down).observed = observed
      /\ Counted(Rollup[c], seen, down).down = {t \in observed : Bad(Rollup[c], nDown(t), nSeen(t))}
  BY <1>2 DEF Counted
<1>6. ASSUME NEW t \in net PROVE nSeen(t) = Cardinality(Seers(c, B, t)) /\ nDown(t) = Cardinality(Fallen(c, B, t))
  <2>1. {m \in Mine(c) : t \in seen[m]} = Seers(c, B, t)
    BY <1>3 DEF Seers
  <2>2. {m \in Mine(c) : t \in down[m]} = Fallen(c, B, t)
    BY <1>4 DEF Fallen
  <2>. QED BY <2>1, <2>2
<1>7. observed = {t \in net : Seers(c, B, t) # {}}
  BY <1>3 DEF Seers
<1> HIDE DEF observed, nSeen, nDown
<1>8. {t \in observed : Bad(Rollup[c], nDown(t), nSeen(t))} = {t \in net : DownAt(c, B, t)}
  BY <1>6, <1>7 DEF DownAt
<1>. QED BY <1>1, <1>5, <1>7, <1>8

\* The downtime and the observed time of each component inside a list of intervals.
DownIn(net, F, T) == [c \in Components |-> Intersect(ComponentSeries(c, Evidence(F, T)).down, net)]
SeenIn(net, F, T) == [c \in Components |-> Intersect(ComponentSeries(c, Evidence(F, T)).observed, net)]
DownAll(net, F, T) == UNION {DownIn(net, F, T)[c] : c \in Components}
SeenAll(net, F, T) == UNION {SeenIn(net, F, T)[c] : c \in Components}

\* The seconds that count and somebody saw, and something was down.
AllSeen(F, T) == UNION {SeenTo(c, F, T) : c \in Components}
AllDown(F, T) == UNION {DownTo(c, F, T) : c \in Components}

LEMMA InServiceIs ==
    ASSUME Tidy(buckets), WindowsTyped, NEW F \in Nat, NEW T \in Nat, NEW net, IsList(net), Secs(net) = NetTo(F, T)
    PROVE  /\ \A c \in Components : IsList(DownIn(net, F, T)[c]) /\ Secs(DownIn(net, F, T)[c]) = DownTo(c, F, T)
           /\ IsList(DownAll(net, F, T)) /\ Secs(DownAll(net, F, T)) = AllDown(F, T)
           /\ IsList(SeenAll(net, F, T)) /\ Secs(SeenAll(net, F, T)) = AllSeen(F, T)
<1> DEFINE downIn == DownIn(net, F, T)
           seenIn == SeenIn(net, F, T)
<1>0. \A t \in NetTo(F, T) : t \in Int
  BY DEF NetTo
<1>1. ASSUME NEW c \in Components
      PROVE  /\ IsList(downIn[c]) /\ Secs(downIn[c]) = DownTo(c, F, T)
             /\ IsList(seenIn[c]) /\ Secs(seenIn[c]) = SeenTo(c, F, T)
  <2> DEFINE of == ComponentSeries(c, Evidence(F, T))
             E == Evidence(F, T)
  <2>1. Tidy(E)
    BY EvidenceTidy
  <2>2. downIn[c] = Intersect(of.down, net) /\ seenIn[c] = Intersect(of.observed, net)
    BY DEF DownIn, SeenIn
  <2> HIDE DEF downIn, seenIn, E
  <2>3. /\ IsList(of.observed) /\ IsList(of.down)
        /\ \A t \in Int : t \in Secs(of.observed) <=> Seers(c, E, t) # {}
        /\ \A t \in Int : t \in Secs(of.down) <=> DownAt(c, E, t)
    BY <2>1, SeriesExact DEF DownAt, E
  <2> HIDE DEF of
  <2>4. /\ IsList(downIn[c]) /\ Secs(downIn[c]) = Secs(of.down) \cap NetTo(F, T)
        /\ IsList(seenIn[c]) /\ Secs(seenIn[c]) = Secs(of.observed) \cap NetTo(F, T)
    BY <2>2, <2>3, IntersectCovers
  <2>5. Secs(of.down) \cap NetTo(F, T) = DownTo(c, F, T)
    BY <1>0, <2>3 DEF DownTo, E
  <2>6. Secs(of.observed) \cap NetTo(F, T) = SeenTo(c, F, T)
    BY <1>0, <2>3 DEF SeenTo, E
  <2>. QED BY <2>4, <2>5, <2>6
<1> HIDE DEF downIn, seenIn
<1>2. IsFiniteSet(Components)
  BY ReportsAssumption
<1>3. IsList(UNION {downIn[c] : c \in Components}) /\ IsList(UNION {seenIn[c] : c \in Components})
  BY <1>1, <1>2, UnionList
<1>4. Secs(UNION {downIn[c] : c \in Components}) = UNION {DownTo(c, F, T) : c \in Components}
  <2>1. \A t : t \in Secs(UNION {downIn[c] : c \in Components}) <=> \E c \in Components : t \in Secs(downIn[c])
    BY DEF Secs
  <2>2. \A t : t \in UNION {DownTo(c, F, T) : c \in Components} <=> \E c \in Components : t \in DownTo(c, F, T)
    OBVIOUS
  <2>3. \A t : t \in Secs(UNION {downIn[c] : c \in Components}) <=> t \in UNION {DownTo(c, F, T) : c \in Components}
    BY <1>1, <2>1, <2>2
  <2>. QED BY <2>3
<1>5. Secs(UNION {seenIn[c] : c \in Components}) = UNION {SeenTo(c, F, T) : c \in Components}
  <2>1. \A t : t \in Secs(UNION {seenIn[c] : c \in Components}) <=> \E c \in Components : t \in Secs(seenIn[c])
    BY DEF Secs
  <2>2. \A t : t \in UNION {SeenTo(c, F, T) : c \in Components} <=> \E c \in Components : t \in SeenTo(c, F, T)
    OBVIOUS
  <2>3. \A t : t \in Secs(UNION {seenIn[c] : c \in Components}) <=> t \in UNION {SeenTo(c, F, T) : c \in Components}
    BY <1>1, <2>1, <2>2
  <2>. QED BY <2>3
<1>. QED BY <1>1, <1>3, <1>4, <1>5 DEF downIn, seenIn, DownAll, SeenAll, AllDown, AllSeen

LEMMA FiguresAre ==
    ASSUME Tidy(buckets), WindowsTyped, NEW F \in Nat, NEW T \in Nat
    PROVE  LET r == Compute(F, T)
           IN  /\ IsFiniteSet(NetTo(F, T)) /\ r.net = Cardinality(NetTo(F, T))
               /\ r.scheduled = r.net + r.excluded
               /\ \A c \in Components : /\ Secs(r.components[c]) = DownTo(c, F, T)
                                        /\ Total(r.components[c]) = Cardinality(DownTo(c, F, T))
               /\ Secs(r.down) = AllDown(F, T) /\ r.downtime = Cardinality(AllDown(F, T))
               /\ r.outages = Cardinality({t \in AllDown(F, T) : t - 1 \notin AllDown(F, T)})
               /\ Secs(r.gaps) = NetTo(F, T) \ AllSeen(F, T) /\ r.observed = Cardinality(AllSeen(F, T))
               /\ r.availability = Availability(r.net, r.downtime)
               /\ r.coverage = Ratio(r.observed, r.net)
               /\ LET potential == Weighed([c \in Components |-> r.net])
                  IN  r.userAvailability = IF potential > 0
                                           THEN Ratio(potential - UserOutage(r.components), potential)
                                           ELSE r.availability
<1> DEFINE r == Compute(F, T)
           scheduled == Clip(Scheduled, F, T)
           applied == Applied(scheduled, F, T)
           net == Subtract(scheduled, applied)
           series == [c \in Components |-> ComponentSeries(c, Evidence(F, T))]
           downIn == DownIn(net, F, T)
           seenIn == SeenIn(net, F, T)
           downAll == DownAll(net, F, T)
           seenAll == SeenAll(net, F, T)
           down == Merge(downAll)
           observed == Merge(seenAll)
           ast == Total(net)
           potential == Weighed([c \in Components |-> ast])
<1>1. r = InService(scheduled, applied, net, series)
  BY DEF Compute, Evidence
<1>2. InService(scheduled, applied, net, series) = Results(scheduled, applied, net, downIn, down, observed)
  <2> HIDE DEF scheduled, applied, net
  <2>1. {Intersect(series[c].observed, net) : c \in Components} = {seenIn[c] : c \in Components}
    BY DEF SeenIn
  <2>2. [c \in Components |-> Intersect(series[c].down, net)] = downIn
    BY DEF DownIn
  <2>3. downAll = UNION {downIn[c] : c \in Components} /\ seenAll = UNION {seenIn[c] : c \in Components}
    BY DEF DownAll, SeenAll
  <2> HIDE DEF series, downIn, seenIn, downAll, seenAll
  <2>. QED BY <2>1, <2>2, <2>3 DEF InService
<1>3. /\ IsList(scheduled) /\ IsList(applied) /\ IsList(net) /\ Secs(net) = NetTo(F, T)
      /\ Total(scheduled) = Total(net) + Total(applied)
  BY NetIs
<1> HIDE DEF r, scheduled, applied, net
<1>4. /\ \A c \in Components : IsList(downIn[c]) /\ Secs(downIn[c]) = DownTo(c, F, T)
      /\ IsList(downAll) /\ Secs(downAll) = AllDown(F, T) /\ IsList(seenAll) /\ Secs(seenAll) = AllSeen(F, T)
  BY <1>3, InServiceIs
<1> HIDE DEF series, downIn, seenIn, downAll, seenAll
<1>5. /\ IsList(down) /\ Normal(down) /\ Secs(down) = AllDown(F, T)
      /\ IsList(observed) /\ Secs(observed) = AllSeen(F, T)
  BY <1>4, MergeCovers
<1> HIDE DEF down, observed
<1>6. /\ r.net = ast /\ r.scheduled = Total(scheduled) /\ r.excluded = Total(applied)
      /\ r.components = downIn /\ r.down = down /\ r.downtime = Total(down)
      /\ r.outages = Cardinality(down) /\ r.observed = Total(observed) /\ r.gaps = Subtract(net, observed)
      /\ r.availability = Availability(ast, Total(down))
      /\ r.coverage = Ratio(Total(observed), ast)
      /\ r.userAvailability = IF potential > 0 THEN Ratio(potential - UserOutage(downIn), potential)
                              ELSE Availability(ast, Total(down))
  BY <1>1, <1>2 DEF Results
<1>7. IsFiniteSet(NetTo(F, T)) /\ ast = Cardinality(NetTo(F, T))
  BY <1>3, TotalCounts
<1>8. \A c \in Components : Total(downIn[c]) = Cardinality(DownTo(c, F, T))
  BY <1>4, TotalCounts
<1>9. Total(down) = Cardinality(AllDown(F, T)) /\ Total(observed) = Cardinality(AllSeen(F, T))
  BY <1>5, TotalCounts
<1>10. Cardinality(down) = Cardinality({t \in AllDown(F, T) : t - 1 \notin AllDown(F, T)})
  BY <1>5, OutagesCount
<1>11. Secs(Subtract(net, observed)) = NetTo(F, T) \ AllSeen(F, T)
  BY <1>3, <1>5, SubtractCovers
<1> HIDE DEF ast
<1>12. r.scheduled = r.net + r.excluded
  BY <1>3, <1>6 DEF ast
<1>. QED BY <1>4, <1>5, <1>6, <1>7, <1>8, <1>9, <1>10, <1>11, <1>12 DEF r

\* The figures of a report are those of the reference, in any state whose tables are
\* as the code keeps them.
LEMMA ReferenceAgrees ==
    ASSUME Tidy(buckets), WindowsTyped, NEW F \in Nat, NEW T \in Nat, F = report.from, T = report.to
    PROVE  /\ FiguresExact
           /\ Reference.net = NetTo(F, T) /\ Reference.components = [c \in Components |-> DownTo(c, F, T)]
           /\ Reference.down = AllDown(F, T) /\ Reference.unseen = NetTo(F, T) \ AllSeen(F, T)
<1> DEFINE r == Figures
           B == evidenceBuckets(buckets, F, T)
           of == [c \in Components |-> Witnessed(c, B, NetSecs)]
<1>1. NetSecs = NetTo(F, T) /\ B = Evidence(F, T)
  BY DEF NetSecs, NetTo, Evidence
<1>2. Reference = Tallied(NetSecs, of)
  BY DEF Reference
<1>3. \A c \in Components : of[c].down = DownTo(c, F, T) /\ of[c].observed = SeenTo(c, F, T)
  BY <1>1, WitnessedIs DEF DownTo, SeenTo
<1> HIDE DEF of
<1>4. /\ Tallied(NetSecs, of).net = NetSecs
      /\ Tallied(NetSecs, of).components = [c \in Components |-> of[c].down]
      /\ Tallied(NetSecs, of).down = UNION {of[c].down : c \in Components}
      /\ Tallied(NetSecs, of).unseen = NetSecs \ UNION {of[c].observed : c \in Components}
  BY DEF Tallied
<1>5. [c \in Components |-> of[c].down] = [c \in Components |-> DownTo(c, F, T)]
  BY <1>3
<1>6. UNION {of[c].down : c \in Components} = AllDown(F, T)
  BY <1>3 DEF AllDown
<1>7. UNION {of[c].observed : c \in Components} = AllSeen(F, T)
  BY <1>3 DEF AllSeen
<1>8. /\ Reference.net = NetTo(F, T) /\ Reference.components = [c \in Components |-> DownTo(c, F, T)]
      /\ Reference.down = AllDown(F, T) /\ Reference.unseen = NetTo(F, T) \ AllSeen(F, T)
  BY <1>1, <1>2, <1>4, <1>5, <1>6, <1>7
<1>9. /\ IsFiniteSet(NetTo(F, T)) /\ r.net = Cardinality(NetTo(F, T))
      /\ r.scheduled = r.net + r.excluded
      /\ \A c \in Components : Secs(r.components[c]) = DownTo(c, F, T)
      /\ Secs(r.down) = AllDown(F, T) /\ r.downtime = Cardinality(AllDown(F, T))
      /\ r.outages = Cardinality({t \in AllDown(F, T) : t - 1 \notin AllDown(F, T)})
      /\ Secs(r.gaps) = NetTo(F, T) \ AllSeen(F, T) /\ r.observed = Cardinality(AllSeen(F, T))
  <2>1. r = Compute(F, T)
    BY DEF Figures
  <2> HIDE DEF r
  <2>. QED BY <2>1, FiguresAre
<1> HIDE DEF r
<1>10. r.observed = r.net - Cardinality(Reference.unseen)
  <2> DEFINE N == NetTo(F, T)
             S == AllSeen(F, T)
  <2>1. S \subseteq N
    BY DEF AllSeen, SeenTo
  <2>2. N \cap S = S /\ IsFiniteSet(N) /\ IsFiniteSet(S)
    BY <1>9, <2>1, FS_Subset
  <2> HIDE DEF N, S
  <2>3. Cardinality(N \ S) = Cardinality(N) - Cardinality(S) /\ Cardinality(N) \in Nat /\ Cardinality(S) \in Nat
    BY <2>2, FS_Difference, FS_CardinalityType
  <2>4. Reference.unseen = N \ S /\ r.net = Cardinality(N) /\ r.observed = Cardinality(S)
    BY <1>8, <1>9 DEF N, S
  <2>. QED BY <2>3, <2>4
<1>11. FiguresExact
  <2>1. \A c \in Components : Reference.components[c] = DownTo(c, F, T)
    BY <1>8
  <2>2. r = Figures
    BY DEF r
  <2> DEFINE ref == Reference
  <2>3. /\ r.net = Cardinality(ref.net) /\ r.scheduled = r.net + r.excluded
        /\ \A c \in Components : Secs(r.components[c]) = ref.components[c]
        /\ Secs(r.down) = ref.down /\ r.downtime = Cardinality(ref.down)
        /\ r.outages = Cardinality({t \in ref.down : t - 1 \notin ref.down})
        /\ Secs(r.gaps) = ref.unseen /\ r.observed = r.net - Cardinality(ref.unseen)
    BY <1>8, <1>9, <1>10, <2>1
  <2> HIDE DEF ref
  <2>. QED BY <2>2, <2>3 DEF FiguresExact, ref
<1>. QED BY <1>8, <1>11

-----------------------------------------------------------------------------
(* Hours.                                                                  *)

\* An interval begins at or before what falls in it, and ends after it.
LEMMA FloorIs ==
    ASSUME NEW t \in Int, NEW w \in Nat \ {0}
    PROVE  /\ Floor(t, w) \in Int /\ Floor(t, w) <= t /\ t < Floor(t, w) + w
           /\ \E q \in Int : Floor(t, w) = q * w
           /\ t >= 0 => Floor(t, w) >= 0
<1>1. t \div w \in Int /\ Floor(t, w) = (t \div w) * w
  BY DEF Floor
<1>2. Floor(t, w) \in Int /\ Floor(t, w) <= t
  BY DEF Floor
<1>3. t < Floor(t, w) + w
  BY DEF Floor
<1>4. ASSUME t >= 0 PROVE Floor(t, w) >= 0
  <2>1. t \div w \in Nat
    BY <1>4
  <2>. QED BY <1>1, <2>1
<1>. QED BY <1>1, <1>2, <1>3, <1>4

\* Of two times at which intervals begin, the earlier is a whole interval earlier.
LEMMA WholeApart ==
    ASSUME NEW k \in Int, NEW q \in Int, NEW w \in Nat \ {0}, q * w < k * w
    PROVE  q * w + w <= k * w
<1>1. q < k
  OBVIOUS
<1>2. k - q \in Nat /\ k - q >= 1
  BY <1>1
<1>3. (k - q) * w >= w
  BY <1>2
<1>4. (k - q) * w = k * w - q * w
  OBVIOUS
<1>. QED BY <1>3, <1>4

\* A time falls in one interval only.
LEMMA FloorOnly ==
    ASSUME NEW w \in Nat \ {0}, NEW k \in Int, NEW t \in Int, k * w <= t, t < k * w + w
    PROVE  Floor(t, w) = k * w
<1>0. k * w \in Int
  OBVIOUS
<1>1. PICK q \in Int : Floor(t, w) = q * w
  BY FloorIs
<1>2. Floor(t, w) \in Int /\ Floor(t, w) <= t /\ t < Floor(t, w) + w
  BY FloorIs
<1>3. q * w < k * w => q * w + w <= k * w
  BY WholeApart
<1>4. k * w < q * w => k * w + w <= q * w
  BY WholeApart
<1>. QED BY <1>0, <1>1, <1>2, <1>3, <1>4

\* A time that leaves nothing over begins an interval.
LEMMA Begins ==
    ASSUME NEW t \in Int, NEW w \in Nat \ {0}, t % w = 0
    PROVE  \E k \in Int : t = k * w
<1>1. t = (t \div w) * w + (t % w) /\ t \div w \in Int
  OBVIOUS
<1>2. t = (t \div w) * w
  BY <1>1
<1>. QED BY <1>1, <1>2

\* The hours folded: one for each monitor with a minute in the hour.
LEMMA HoursAre ==
    ASSUME NEW B, IsFiniteSet(B), NEW from, NEW to
    PROVE  /\ IsFiniteSet(hourFolds(B, from, to))
           /\ \A h \in hourFolds(B, from, to) :
                 /\ h.width = WidthHour
                 /\ \E b \in B : /\ b.width = WidthMinute /\ from <= b.start /\ b.start < to
                                 /\ h.start = Floor(b.start, WidthHour)
           /\ \A g, h \in hourFolds(B, from, to) : g.monitor = h.monitor /\ g.start = h.start => g = h
<1> DEFINE rows == {b \in B : b.width = WidthMinute /\ from <= b.start /\ b.start < to}
           of(k) == {b \in rows : b.monitor = k[1] /\ Floor(b.start, WidthHour) = k[2]}
           key == [b \in rows |-> <<b.monitor, Floor(b.start, WidthHour)>>]
           keys == {key[b] : b \in rows}
           f == [k \in keys |-> hourBucket(k[1], k[2], of(k))]
           H == hourFolds(B, from, to)
<1>1. H = {f[k] : k \in keys}
  BY DEF hourFolds
<1>2. IsFiniteSet(rows)
  BY FS_Subset
<1>3. \A b \in rows : key[b] = <<b.monitor, Floor(b.start, WidthHour)>>
  OBVIOUS
<1>4. \A b \in rows : b \in B /\ b.width = WidthMinute /\ from <= b.start /\ b.start < to
  OBVIOUS
<1>5. IsFiniteSet(keys)
  <2> HIDE DEF key, rows
  <2>. QED BY <1>2, FiniteImage
<1>6. \A k \in keys : f[k].width = WidthHour /\ f[k].start = k[2] /\ f[k].monitor = k[1]
  BY DEF hourBucket
<1>7. \A k \in keys : \E b \in rows : k = <<b.monitor, Floor(b.start, WidthHour)>>
  BY <1>3
<1> HIDE DEF f, keys, rows, key, H
<1>8. IsFiniteSet(H)
  BY <1>1, <1>5, FiniteImage
<1>9. ASSUME NEW h \in H
      PROVE  /\ h.width = WidthHour
             /\ \E b \in B : /\ b.width = WidthMinute /\ from <= b.start /\ b.start < to
                             /\ h.start = Floor(b.start, WidthHour)
  <2>1. PICK k \in keys : h = f[k]
    BY <1>1
  <2>2. PICK b \in rows : k = <<b.monitor, Floor(b.start, WidthHour)>>
    BY <1>7
  <2>3. h.width = WidthHour /\ h.start = Floor(b.start, WidthHour)
    BY <1>6, <2>1, <2>2
  <2>. QED BY <1>4, <2>3
<1>10. ASSUME NEW g \in H, NEW h \in H, g.monitor = h.monitor, g.start = h.start PROVE g = h
  <2>1. PICK k \in keys : g = f[k]
    BY <1>1
  <2>2. PICK j \in keys : h = f[j]
    BY <1>1
  <2>3. k[1] = j[1] /\ k[2] = j[2]
    BY <1>6, <1>10, <2>1, <2>2
  <2>4. k = j
    BY <1>7, <2>3
  <2>. QED BY <2>1, <2>2, <2>4
<1>. QED BY <1>8, <1>9, <1>10 DEF H

\* The minutes folded: one for each monitor with a reading in the minute.
LEMMA MinutesAre ==
    ASSUME NEW S, IsFiniteSet(S), NEW from, NEW to
    PROVE  /\ IsFiniteSet(minuteFolds(S, from, to))
           /\ \A h \in minuteFolds(S, from, to) :
                 /\ h.width = WidthMinute
                 /\ \E s \in S : from <= s.at /\ s.at < to /\ h.start = Floor(s.at, WidthMinute)
           /\ \A g, h \in minuteFolds(S, from, to) : g.monitor = h.monitor /\ g.start = h.start => g = h
<1> DEFINE rows == {s \in S : from <= s.at /\ s.at < to /\ ~s.manual}
           of(k) == {s \in rows : s.monitor = k[1] /\ Floor(s.at, WidthMinute) = k[2]}
           key == [s \in rows |-> <<s.monitor, Floor(s.at, WidthMinute)>>]
           keys == {key[s] : s \in rows}
           f == [k \in keys |-> minuteBucket(k[1], k[2], of(k))]
           H == minuteFolds(S, from, to)
<1>1. H = {f[k] : k \in keys}
  BY DEF minuteFolds
<1>2. IsFiniteSet(rows)
  BY FS_Subset
<1>3. \A s \in rows : key[s] = <<s.monitor, Floor(s.at, WidthMinute)>>
  OBVIOUS
<1>4. \A s \in rows : s \in S /\ from <= s.at /\ s.at < to
  OBVIOUS
<1>5. IsFiniteSet(keys)
  <2> HIDE DEF key, rows
  <2>. QED BY <1>2, FiniteImage
<1>6. \A k \in keys : f[k].width = WidthMinute /\ f[k].start = k[2] /\ f[k].monitor = k[1]
  BY DEF minuteBucket
<1>7. \A k \in keys : \E s \in rows : k = <<s.monitor, Floor(s.at, WidthMinute)>>
  BY <1>3
<1> HIDE DEF f, keys, rows, key, H
<1>8. IsFiniteSet(H)
  BY <1>1, <1>5, FiniteImage
<1>9. ASSUME NEW h \in H
      PROVE  /\ h.width = WidthMinute
             /\ \E s \in S : from <= s.at /\ s.at < to /\ h.start = Floor(s.at, WidthMinute)
  <2>1. PICK k \in keys : h = f[k]
    BY <1>1
  <2>2. PICK s \in rows : k = <<s.monitor, Floor(s.at, WidthMinute)>>
    BY <1>7
  <2>3. h.width = WidthMinute /\ h.start = Floor(s.at, WidthMinute)
    BY <1>6, <2>1, <2>2
  <2>. QED BY <1>4, <2>3
<1>10. ASSUME NEW g \in H, NEW h \in H, g.monitor = h.monitor, g.start = h.start PROVE g = h
  <2>1. PICK k \in keys : g = f[k]
    BY <1>1
  <2>2. PICK j \in keys : h = f[j]
    BY <1>1
  <2>3. k[1] = j[1] /\ k[2] = j[2]
    BY <1>6, <1>10, <2>1, <2>2
  <2>4. k = j
    BY <1>7, <2>3
  <2>. QED BY <2>1, <2>2, <2>4
<1>. QED BY <1>8, <1>9, <1>10 DEF H

-----------------------------------------------------------------------------
(* The invariant.                                                          *)

\* Times an interval of a width begins at.
Aligned(t, w) == \E k \in Int : t = k * w

\* Minutes end by their watermark and hours by theirs, and begin where one begins.
BucketsInv ==
    \A b \in buckets :
        /\ b.start \in Nat
        /\ \/ b.width = WidthMinute /\ Aligned(b.start, WidthMinute) /\ b.start + WidthMinute <= minuteMark
           \/ b.width = WidthHour /\ Aligned(b.start, WidthHour) /\ b.start + WidthHour <= hourMark

\* Hours are folded from minutes that are folded already.
MarksInv ==
    /\ minuteMark \in Nat /\ Aligned(minuteMark, WidthMinute) /\ minuteMark <= now
    /\ hourMark \in Nat /\ Aligned(hourMark, WidthHour) /\ hourMark <= minuteMark

SamplesInv == IsFiniteSet(samples) /\ \A s \in samples : s.at \in Nat

Window == [class : Classes \cup {"none"}, from : Int, to : Int, excluded : BOOLEAN, cancelled : BOOLEAN]

\* The last report was on a bounded period, and on what was folded then.
ReportInv ==
    /\ report.from \in 0..MaxTime /\ report.to \in 0..MaxTime
    /\ report.mark \in Nat /\ report.mark <= hourMark
    /\ \A c \in Components : \A t \in report.down[c] : t \in Int /\ t < minuteMark

\* What the last report said was downtime is downtime still.
ReportStands ==
    \A c \in Components :
        report.to <= report.mark \/ Rollup[c] = "any" => report.down[c] \subseteq DownTo(c, report.from, report.to)

IInv ==
    /\ now \in Nat /\ SamplesInv /\ MarksInv
    /\ Tidy(buckets) /\ BucketsInv
    /\ windows \in [Windows -> Window] /\ WindowsTyped
    /\ ReportInv /\ ReportStands

\* At the start there is nothing.
LEMMA InvInit == Init => IInv
<1> SUFFICES ASSUME Init PROVE IInv
  OBVIOUS
<1> USE DEF Init
<1>0. WidthMinute \in Nat \ {0} /\ WidthHour \in Nat \ {0} /\ MaxTime \in Nat
  BY WidthAssumption, ReportsAssumption
<1>1. now \in Nat /\ SamplesInv
  BY FS_EmptySet DEF SamplesInv
<1>2. Tidy(buckets) /\ BucketsInv
  BY FS_EmptySet DEF Tidy, BucketsInv
<1>3. MarksInv
  <2>1. 0 = 0 * WidthMinute /\ 0 = 0 * WidthHour /\ 0 \in Int
    BY <1>0
  <2>2. Aligned(0, WidthMinute) /\ Aligned(0, WidthHour)
    BY <2>1 DEF Aligned
  <2>. QED BY <2>2 DEF MarksInv
<1>4. windows \in [Windows -> Window] /\ WindowsTyped
  BY DEF NoWindow, Window, WindowsTyped
<1>5. report.from = 0 /\ report.to = 0 /\ report.mark = 0 /\ \A c \in Components : report.down[c] = {}
  OBVIOUS
<1>6. ReportInv
  BY <1>0, <1>5 DEF ReportInv
<1>7. ReportStands
  BY <1>5 DEF ReportStands
<1>. QED BY <1>1, <1>2, <1>3, <1>4, <1>6, <1>7 DEF IInv

-----------------------------------------------------------------------------
(* A fold.                                                                 *)

\* Buckets of one width between two watermarks, one for each monitor and interval.
Between(N, w, from, to) ==
    /\ IsFiniteSet(N)
    /\ \A b \in N : /\ b.width = w /\ b.start \in Nat /\ Aligned(b.start, w)
                    /\ from <= b.start /\ b.start + w <= to
    /\ \A a, b \in N : a.monitor = b.monitor /\ a.start = b.start => a = b

\* The intervals that rows between two watermarks fall in are between them too.
LEMMA FoldsBetween ==
    ASSUME NEW w \in Nat \ {0}, NEW mark \in Nat, NEW from \in Nat, NEW to \in Int, mark <= from,
           Aligned(from, w), Aligned(to, w), NEW N, IsFiniteSet(N),
           \A h \in N : h.width = w /\ \E a \in Nat : from <= a /\ a < to /\ h.start = Floor(a, w),
           \A g, h \in N : g.monitor = h.monitor /\ g.start = h.start => g = h
    PROVE  Between(N, w, mark, to)
<1>1. PICK j \in Int : from = j * w
  BY DEF Aligned
<1>2. PICK k \in Int : to = k * w
  BY DEF Aligned
<1>3. ASSUME NEW h \in N
      PROVE  h.width = w /\ h.start \in Nat /\ Aligned(h.start, w) /\ mark <= h.start /\ h.start + w <= to
  <2>1. PICK a \in Nat : from <= a /\ a < to /\ h.start = Floor(a, w)
    OBVIOUS
  <2>2. a \in Int /\ a >= 0
    OBVIOUS
  <2>3. /\ h.start \in Int /\ h.start <= a /\ a < h.start + w /\ h.start >= 0
        /\ \E q \in Int : h.start = q * w
    <3> DEFINE f == Floor(a, w)
    <3>1. f \in Int /\ f <= a /\ a < f + w /\ f >= 0 /\ \E q \in Int : f = q * w
      BY <2>2, FloorIs
    <3>2. h.start = f
      BY <2>1
    <3> HIDE DEF f
    <3>. QED BY <3>1, <3>2
  <2>4. PICK q \in Int : h.start = q * w
    BY <2>3
  <2>q. q * w \in Int /\ j * w \in Int /\ k * w \in Int
    OBVIOUS
  <2>5. q * w < j * w => q * w + w <= j * w
    BY WholeApart
  <2>6. from <= h.start
    BY <1>1, <2>1, <2>3, <2>4, <2>5, <2>q
  <2>7. q * w < k * w => q * w + w <= k * w
    BY WholeApart
  <2>8. h.start + w <= to
    BY <1>2, <2>1, <2>3, <2>4, <2>7, <2>q
  <2>9. Aligned(h.start, w)
    BY <2>4 DEF Aligned
  <2>. QED BY <2>3, <2>6, <2>8, <2>9
<1>. QED BY <1>3 DEF Between

\* A fold goes on from its watermark or later.
LEMMA FromIs ==
    ASSUME NEW w \in Nat \ {0}, NEW mark \in Nat, Aligned(mark, w),
           NEW S \in SUBSET Nat, IsFiniteSet(S), mark # 0 \/ S # {}
    PROVE  /\ FoldsFrom(mark, S, w) \in Nat /\ Aligned(FoldsFrom(mark, S, w), w) /\ mark <= FoldsFrom(mark, S, w)
           /\ mark # 0 => FoldsFrom(mark, S, w) = mark
<1>1. CASE mark # 0
  BY <1>1 DEF FoldsFrom
<1>2. CASE mark = 0
  <2>1. Min(S) \in S
    BY <1>2, FiniteMin
  <2> DEFINE x == Min(S)
  <2> HIDE DEF x
  <2>2. x \in Int /\ x >= 0
    <3>1. x \in Nat
      BY <2>1 DEF x
    <3>. QED BY <3>1
  <2>3. Floor(x, w) \in Int /\ Floor(x, w) >= 0 /\ \E q \in Int : Floor(x, w) = q * w
    BY <2>2, FloorIs
  <2>4. FoldsFrom(mark, S, w) = Floor(x, w)
    BY <1>2 DEF FoldsFrom, x
  <2>. QED BY <1>2, <2>3, <2>4 DEF Aligned
<1>. QED BY <1>1, <1>2

\* The last whole hour ends no later than the last whole minute.
LEMMA HourInMinutes ==
    ASSUME NEW t \in Int
    PROVE  Floor(t, WidthHour) <= Floor(t, WidthMinute)
<1>0. WidthMinute \in Nat \ {0} /\ WidthHour \in Nat \ {0} /\ WidthHour % WidthMinute = 0
  BY WidthAssumption
<1>1. PICK m \in Int : WidthHour = m * WidthMinute
  BY <1>0, Begins
<1>2. PICK q \in Int : Floor(t, WidthHour) = q * WidthHour
  BY <1>0, FloorIs
<1>3. PICK j \in Int : Floor(t, WidthMinute) = j * WidthMinute
  BY <1>0, FloorIs
<1> DEFINE k == q * m
<1>4. k \in Int /\ Floor(t, WidthHour) = k * WidthMinute
  BY <1>0, <1>1, <1>2
<1>5. Floor(t, WidthHour) <= t /\ t < Floor(t, WidthMinute) + WidthMinute /\ Floor(t, WidthMinute) \in Int /\ Floor(t, WidthHour) \in Int
  BY <1>0, FloorIs
<1> HIDE DEF k
<1>6. j * WidthMinute < k * WidthMinute => j * WidthMinute + WidthMinute <= k * WidthMinute
  BY <1>0, <1>4, WholeApart
<1>. QED BY <1>0, <1>3, <1>4, <1>5, <1>6

LEMMA FoldAdds ==
    ASSUME IInv, Fold
    PROVE  /\ MarksInv' /\ minuteMark <= minuteMark' /\ hourMark <= hourMark'
           /\ \E N, H : /\ Between(N, WidthMinute, minuteMark, minuteMark')
                        /\ Between(H, WidthHour, hourMark, hourMark')
                        /\ buckets' = buckets \cup N \cup H
<1> DEFINE before == now - RollupLag
           toMinute == Floor(before, WidthMinute)
           toHour == Floor(before, WidthHour)
           taken == {s.at : s \in samples}
           rows == {c \in buckets : c.width = WidthMinute}
           starts == {b.start : b \in rows}
           fromMinute == FoldsFrom(minuteMark, taken, WidthMinute)
           fromHour == FoldsFrom(hourMark, starts, WidthHour)
           minutes == (minuteMark # 0 \/ taken # {}) /\ fromMinute < toMinute
           hours == (hourMark # 0 \/ starts # {}) /\ fromHour < toHour
           N == IF minutes THEN minuteFolds(samples, fromMinute, toMinute) ELSE {}
           H == IF hours THEN hourFolds(buckets, fromHour, toHour) ELSE {}
<1>0. /\ now \in Nat /\ RollupLag \in Nat /\ before \in Int /\ before <= now
      /\ WidthMinute \in Nat \ {0} /\ WidthHour \in Nat \ {0} /\ WidthMinute < WidthHour
  BY WidthAssumption, ReportsAssumption DEF IInv
<1>1. /\ buckets' = buckets \cup N \cup H /\ now' = now
      /\ minuteMark' = (IF minutes THEN toMinute ELSE minuteMark)
      /\ hourMark' = (IF hours THEN toHour ELSE hourMark)
  BY DEF Fold
<1>2. /\ minuteMark \in Nat /\ Aligned(minuteMark, WidthMinute) /\ minuteMark <= now
      /\ hourMark \in Nat /\ Aligned(hourMark, WidthHour) /\ hourMark <= minuteMark
  BY DEF IInv, MarksInv
<1> HIDE DEF before
<1>3. /\ toMinute \in Int /\ toMinute <= before /\ Aligned(toMinute, WidthMinute)
      /\ toHour \in Int /\ toHour <= before /\ Aligned(toHour, WidthHour)
      /\ toHour <= toMinute
  BY <1>0, FloorIs, HourInMinutes DEF Aligned
<1>4. IsFiniteSet(taken) /\ taken \in SUBSET Nat
  <2> DEFINE at == [s \in samples |-> s.at]
  <2>1. taken = {at[s] : s \in samples} /\ IsFiniteSet(samples)
    BY DEF IInv, SamplesInv
  <2> HIDE DEF at
  <2>2. IsFiniteSet({at[s] : s \in samples})
    BY <2>1, FiniteImage
  <2>. QED BY <2>1, <2>2 DEF IInv, SamplesInv
<1>5. IsFiniteSet(starts) /\ starts \in SUBSET Nat
  <2> DEFINE start == [b \in rows |-> b.start]
  <2>1. starts = {start[b] : b \in rows}
    OBVIOUS
  <2>2. IsFiniteSet(rows)
    BY FS_Subset DEF IInv, Tidy
  <2>3. IsFiniteSet({start[b] : b \in rows})
    BY <2>2, FiniteImage
  <2>. QED BY <2>1, <2>3 DEF IInv, BucketsInv
<1>6. starts # {} => minuteMark # 0
  <2> SUFFICES ASSUME NEW b \in buckets, b.width = WidthMinute PROVE minuteMark # 0
    OBVIOUS
  <2>1. b.start \in Nat /\ b.start + WidthMinute <= minuteMark
    BY <1>0 DEF IInv, BucketsInv
  <2>. QED BY <1>0, <1>2, <2>1
<1>7. IsFiniteSet(samples) /\ IsFiniteSet(buckets) /\ (\A s \in samples : s.at \in Nat) /\ (\A b \in buckets : b.start \in Nat)
  BY DEF IInv, SamplesInv, BucketsInv, Tidy
<1> HIDE DEF taken, starts, rows, toMinute, toHour
<1>8. minuteMark # 0 \/ taken # {} =>
          /\ fromMinute \in Nat /\ Aligned(fromMinute, WidthMinute) /\ minuteMark <= fromMinute
          /\ minuteMark # 0 => fromMinute = minuteMark
  BY <1>0, <1>2, <1>4, FromIs
<1>9. hourMark # 0 \/ starts # {} =>
          /\ fromHour \in Nat /\ Aligned(fromHour, WidthHour) /\ hourMark <= fromHour
  BY <1>0, <1>2, <1>5, FromIs
<1> HIDE DEF fromMinute, fromHour
<1>10. Between(N, WidthMinute, minuteMark, minuteMark')
  <2>1. CASE ~minutes
    <3>1. N = {}
      BY <2>1
    <3>. QED BY <3>1, FS_EmptySet DEF Between
  <2>2. CASE minutes
    <3>1. N = minuteFolds(samples, fromMinute, toMinute) /\ minuteMark' = toMinute
      BY <1>1, <2>2
    <3>2. fromMinute \in Nat /\ Aligned(fromMinute, WidthMinute) /\ minuteMark <= fromMinute
      BY <1>8, <2>2
    <3> HIDE DEF N
    <3>3. /\ IsFiniteSet(N)
          /\ \A h \in N : /\ h.width = WidthMinute
                          /\ \E s \in samples : fromMinute <= s.at /\ s.at < toMinute /\ h.start = Floor(s.at, WidthMinute)
          /\ \A g, h \in N : g.monitor = h.monitor /\ g.start = h.start => g = h
      BY <1>7, <3>1, MinutesAre
    <3>4. \A h \in N : h.width = WidthMinute /\ \E a \in Nat : fromMinute <= a /\ a < toMinute /\ h.start = Floor(a, WidthMinute)
      BY <1>7, <3>3
    <3>5. Between(N, WidthMinute, minuteMark, toMinute)
      BY <1>0, <1>2, <1>3, <3>2, <3>3, <3>4, FoldsBetween
    <3>. QED BY <3>1, <3>5
  <2>. QED BY <2>1, <2>2
<1>11. Between(H, WidthHour, hourMark, hourMark')
  <2>1. CASE ~hours
    <3>1. H = {}
      BY <2>1
    <3>. QED BY <3>1, FS_EmptySet DEF Between
  <2>2. CASE hours
    <3>1. H = hourFolds(buckets, fromHour, toHour) /\ hourMark' = toHour
      BY <1>1, <2>2
    <3>2. fromHour \in Nat /\ Aligned(fromHour, WidthHour) /\ hourMark <= fromHour
      BY <1>9, <2>2
    <3> HIDE DEF H
    <3>3. /\ IsFiniteSet(H)
          /\ \A h \in H : /\ h.width = WidthHour
                          /\ \E b \in buckets : /\ b.width = WidthMinute /\ fromHour <= b.start /\ b.start < toHour
                                                /\ h.start = Floor(b.start, WidthHour)
          /\ \A g, h \in H : g.monitor = h.monitor /\ g.start = h.start => g = h
      BY <1>7, <3>1, HoursAre
    <3>4. \A h \in H : h.width = WidthHour /\ \E a \in Nat : fromHour <= a /\ a < toHour /\ h.start = Floor(a, WidthHour)
      BY <1>7, <3>3
    <3>5. Between(H, WidthHour, hourMark, toHour)
      BY <1>0, <1>2, <1>3, <3>2, <3>3, <3>4, FoldsBetween
    <3>. QED BY <3>1, <3>5
  <2>. QED BY <2>1, <2>2
<1> HIDE DEF N, H
<1>12. /\ minuteMark' \in Nat /\ Aligned(minuteMark', WidthMinute) /\ minuteMark' <= now /\ minuteMark <= minuteMark'
       /\ minutes \/ ~(minuteMark # 0) \/ toMinute <= minuteMark
  BY <1>0, <1>1, <1>2, <1>3, <1>8
<1>13. hourMark' \in Nat /\ Aligned(hourMark', WidthHour) /\ hourMark <= hourMark'
  BY <1>0, <1>1, <1>2, <1>3, <1>9
<1>14. hourMark' <= minuteMark'
  <2>1. CASE ~hours
    <3>1. hourMark' = hourMark
      BY <1>1, <2>1
    <3>. QED BY <1>2, <1>12, <3>1
  <2>2. CASE hours
    <3>1. hourMark' = toHour /\ minuteMark # 0
      BY <1>1, <1>2, <1>6, <2>2
    <3>2. toMinute <= minuteMark'
      BY <1>1, <1>2, <1>3, <1>12, <3>1
    <3>. QED BY <1>3, <1>12, <3>1, <3>2
  <2>. QED BY <2>1, <2>2
<1>15. MarksInv'
  BY <1>1, <1>12, <1>13, <1>14 DEF MarksInv
<1>. QED BY <1>1, <1>10, <1>11, <1>12, <1>13, <1>15

LEMMA FoldKeepsBuckets ==
    ASSUME IInv, Fold
    PROVE  Tidy(buckets') /\ BucketsInv'
<1>0. WidthHour \in Nat \ {0} /\ WidthMinute \in Nat \ {0} /\ WidthMinute < WidthHour
  BY WidthAssumption
<1>1. minuteMark <= minuteMark' /\ hourMark <= hourMark' /\ MarksInv /\ MarksInv'
  BY FoldAdds DEF IInv
<1>2. PICK N, H : /\ Between(N, WidthMinute, minuteMark, minuteMark')
                  /\ Between(H, WidthHour, hourMark, hourMark')
                  /\ buckets' = buckets \cup N \cup H
  BY FoldAdds
<1>3. IsFiniteSet(buckets')
  <2>1. IsFiniteSet(buckets) /\ IsFiniteSet(N) /\ IsFiniteSet(H)
    BY <1>2 DEF IInv, Tidy, Between
  <2>2. IsFiniteSet(buckets \cup N)
    BY <2>1, FS_Union
  <2>3. IsFiniteSet((buckets \cup N) \cup H)
    BY <2>1, <2>2, FS_Union
  <2>. QED BY <1>2, <2>3
<1>m. minuteMark \in Nat /\ hourMark \in Nat /\ minuteMark' \in Nat /\ hourMark' \in Nat
  BY <1>1 DEF MarksInv
<1>4. ASSUME NEW b \in buckets
      PROVE  /\ b.start \in Nat
             /\ \/ b.width = WidthMinute /\ Aligned(b.start, WidthMinute) /\ b.start + WidthMinute <= minuteMark
                \/ b.width = WidthHour /\ Aligned(b.start, WidthHour) /\ b.start + WidthHour <= hourMark
  BY DEF IInv, BucketsInv
<1>5. \A b \in N : /\ b.width = WidthMinute /\ b.start \in Nat /\ Aligned(b.start, WidthMinute)
                   /\ minuteMark <= b.start /\ b.start + WidthMinute <= minuteMark'
  BY <1>2 DEF Between
<1>6. \A b \in H : /\ b.width = WidthHour /\ b.start \in Nat /\ Aligned(b.start, WidthHour)
                   /\ hourMark <= b.start /\ b.start + WidthHour <= hourMark'
  BY <1>2 DEF Between
<1>7. \A b \in buckets' : b \in buckets \/ b \in N \/ b \in H
  BY <1>2
<1>8. BucketsInv'
  <2> SUFFICES ASSUME NEW b \in buckets'
               PROVE  /\ b.start \in Nat
                      /\ \/ b.width = WidthMinute /\ Aligned(b.start, WidthMinute) /\ b.start + WidthMinute <= minuteMark'
                         \/ b.width = WidthHour /\ Aligned(b.start, WidthHour) /\ b.start + WidthHour <= hourMark'
    BY DEF BucketsInv
  <2>1. CASE b \in buckets
    <3>1. b.start \in Nat
      BY <1>4, <2>1
    <3>2. CASE b.width = WidthMinute /\ Aligned(b.start, WidthMinute) /\ b.start + WidthMinute <= minuteMark
      BY <1>0, <1>1, <1>m, <3>1, <3>2
    <3>3. CASE b.width = WidthHour /\ Aligned(b.start, WidthHour) /\ b.start + WidthHour <= hourMark
      BY <1>0, <1>1, <1>m, <3>1, <3>3
    <3>. QED BY <1>4, <2>1, <3>2, <3>3
  <2>2. CASE b \in N
    BY <1>5, <2>2
  <2>3. CASE b \in H
    BY <1>6, <2>3
  <2>. QED BY <1>7, <2>1, <2>2, <2>3
<1>9. \A b \in buckets' : b.start \in Int /\ b.width \in Nat /\ b.width > 0
  BY <1>0, <1>8 DEF BucketsInv
\* An old bucket ends before a new one of the same width begins.
<1>10. ASSUME NEW a \in buckets, NEW b \in N \cup H, a.width = b.width PROVE a.start + a.width <= b.start
  <2>1. CASE b \in N
    <3>1. a.width = WidthMinute /\ a.width # WidthHour /\ minuteMark <= b.start /\ b.start \in Nat
      BY <1>0, <1>5, <1>10, <2>1
    <3>2. a.start + WidthMinute <= minuteMark /\ a.start \in Nat
      BY <1>4, <3>1
    <3>. QED BY <1>0, <1>m, <3>1, <3>2
  <2>2. CASE b \in H
    <3>1. a.width = WidthHour /\ a.width # WidthMinute /\ hourMark <= b.start /\ b.start \in Nat
      BY <1>0, <1>6, <1>10, <2>2
    <3>2. a.start + WidthHour <= hourMark /\ a.start \in Nat
      BY <1>4, <3>1
    <3>. QED BY <1>0, <1>m, <3>1, <3>2
  <2>. QED BY <2>1, <2>2
<1>11. ASSUME NEW w \in Nat \ {0}, NEW a, NEW b, a.start \in Nat, b.start \in Nat,
              Aligned(a.start, w), Aligned(b.start, w), a.start # b.start
       PROVE  a.start + w <= b.start \/ b.start + w <= a.start
  <2>1. PICK j \in Int : a.start = j * w
    BY <1>11 DEF Aligned
  <2>2. PICK k \in Int : b.start = k * w
    BY <1>11 DEF Aligned
  <2>3. (j * w < k * w => j * w + w <= k * w) /\ (k * w < j * w => k * w + w <= j * w)
    BY WholeApart
  <2>. QED BY <1>11, <2>1, <2>2, <2>3
<1>12. ASSUME NEW a \in N \cup H, NEW b \in N \cup H, a.monitor = b.monitor, a.width = b.width, a # b
       PROVE  a.start + a.width <= b.start \/ b.start + b.width <= a.start
  <2>1. CASE a \in N /\ b \in N
    <3>1. a.start # b.start
      BY <1>2, <1>12, <2>1 DEF Between
    <3>2. /\ a.width = WidthMinute /\ a.start \in Nat /\ Aligned(a.start, WidthMinute)
          /\ b.width = WidthMinute /\ b.start \in Nat /\ Aligned(b.start, WidthMinute)
      BY <1>5, <2>1
    <3>3. a.start + WidthMinute <= b.start \/ b.start + WidthMinute <= a.start
      BY <1>0, <1>11, <3>1, <3>2
    <3>. QED BY <3>2, <3>3
  <2>2. CASE a \in H /\ b \in H
    <3>1. a.start # b.start
      BY <1>2, <1>12, <2>2 DEF Between
    <3>2. /\ a.width = WidthHour /\ a.start \in Nat /\ Aligned(a.start, WidthHour)
          /\ b.width = WidthHour /\ b.start \in Nat /\ Aligned(b.start, WidthHour)
      BY <1>6, <2>2
    <3>3. a.start + WidthHour <= b.start \/ b.start + WidthHour <= a.start
      BY <1>0, <1>11, <3>1, <3>2
    <3>. QED BY <3>2, <3>3
  <2>3. (a \in N /\ b \in N) \/ (a \in H /\ b \in H)
    <3>1. (\A x \in N : x.width = WidthMinute) /\ (\A x \in H : x.width = WidthHour) /\ WidthMinute # WidthHour
      BY <1>0, <1>5, <1>6
    <3>. QED BY <1>12, <3>1
  <2>. QED BY <2>1, <2>2, <2>3
<1>13. ASSUME NEW a \in buckets', NEW b \in buckets', a.monitor = b.monitor, a.width = b.width, a # b
       PROVE  a.start + a.width <= b.start \/ b.start + b.width <= a.start
  <2>1. CASE a \in buckets /\ b \in buckets
    BY <1>13, <2>1 DEF IInv, Tidy
  <2>2. CASE a \in buckets /\ b \in N \cup H
    BY <1>10, <1>13, <2>2
  <2>3. CASE a \in N \cup H /\ b \in buckets
    BY <1>10, <1>13, <2>3
  <2>4. CASE a \in N \cup H /\ b \in N \cup H
    BY <1>12, <1>13, <2>4
  <2>. QED BY <1>7, <2>1, <2>2, <2>3, <2>4
<1>14. Tidy(buckets')
  BY <1>3, <1>9, <1>13 DEF Tidy
<1>. QED BY <1>8, <1>14

-----------------------------------------------------------------------------
(* What was said of a period stays said.                                   *)

\* The hour a bucket of minutes is in is read minute by minute.
Shown(B, from, to, x) ==
    \/ x = Floor(from, WidthHour) \/ x = Floor(to - 1, WidthHour)
    \/ \E h \in B : /\ h.width = WidthHour /\ Floor(from, WidthHour) <= h.start /\ h.start < to
                    /\ h.verdict # "up" \/ h.errors > 0
                    /\ x = h.start

LEMMA EvidenceIs ==
    ASSUME NEW B, NEW from, NEW to, NEW b
    PROVE  b \in evidenceBuckets(B, from, to) <=>
               /\ b \in B
               /\ \/ b.width = WidthHour /\ Floor(from, WidthHour) <= b.start /\ b.start < to
                  \/ b.width = WidthMinute /\ Shown(B, from, to, Floor(b.start, WidthHour))
<1> DEFINE hours == {h \in B : h.width = WidthHour /\ Floor(from, WidthHour) <= h.start /\ h.start < to}
           I == interesting(hours, from, to)
<1>1. evidenceBuckets(B, from, to) = hours \cup {d \in B : d.width = WidthMinute /\ Floor(d.start, WidthHour) \in I}
  BY DEF evidenceBuckets
<1>2. \A x : x \in I <=> Shown(B, from, to, x)
  BY DEF interesting, Shown
<1> HIDE DEF I
<1>. QED BY <1>1, <1>2

\* Two minutes that cover one second are the same minute.
LEMMA OneMinute ==
    ASSUME NEW a, NEW b, NEW t \in Int, a.width = WidthMinute, b.width = WidthMinute, a.start \in Nat, b.start \in Nat,
           Aligned(a.start, WidthMinute), Aligned(b.start, WidthMinute),
           a.start <= t, t < a.start + a.width, b.start <= t, t < b.start + b.width
    PROVE  a.start = b.start
<1>0. WidthMinute \in Nat \ {0}
  BY WidthAssumption
<1>1. PICK j \in Int : a.start = j * WidthMinute
  BY DEF Aligned
<1>2. PICK k \in Int : b.start = k * WidthMinute
  BY DEF Aligned
<1>3. Floor(t, WidthMinute) = j * WidthMinute
  BY <1>0, <1>1, FloorOnly
<1>4. Floor(t, WidthMinute) = k * WidthMinute
  BY <1>0, <1>2, FloorOnly
<1>. QED BY <1>1, <1>2, <1>3, <1>4

\* The evidence of a period gains nothing on a second it spoke for but the bucket of an
\* hour, and nothing at all when the hours of the period were folded.
LEMMA EvidenceGrows ==
    ASSUME IInv, Fold, NEW from \in Nat, NEW to \in Nat
    PROVE  LET E == evidenceBuckets(buckets, from, to)
               F == evidenceBuckets(buckets', from, to)
           IN  /\ E \subseteq F
               /\ \A t \in Int : \A b \in Covering(F, t) :
                     Covering(E, t) # {} /\ t < to => b \in E \/ (b.width = WidthHour /\ ~(to <= hourMark))
<1> DEFINE E == evidenceBuckets(buckets, from, to)
           F == evidenceBuckets(buckets', from, to)
           low == Floor(from, WidthHour)
<1>0. WidthHour \in Nat \ {0} /\ WidthMinute \in Nat \ {0} /\ WidthMinute < WidthHour
  BY WidthAssumption
<1>1. PICK N, H : /\ Between(N, WidthMinute, minuteMark, minuteMark')
                  /\ Between(H, WidthHour, hourMark, hourMark')
                  /\ buckets' = buckets \cup N \cup H
  BY FoldAdds
<1>2. \A b : b \in E <=> /\ b \in buckets
                         /\ \/ b.width = WidthHour /\ low <= b.start /\ b.start < to
                            \/ b.width = WidthMinute /\ Shown(buckets, from, to, Floor(b.start, WidthHour))
  BY EvidenceIs
<1>3. \A b : b \in F <=> /\ b \in buckets'
                         /\ \/ b.width = WidthHour /\ low <= b.start /\ b.start < to
                            \/ b.width = WidthMinute /\ Shown(buckets', from, to, Floor(b.start, WidthHour))
  BY EvidenceIs
<1> HIDE DEF E, F
<1>4. buckets \subseteq buckets'
  BY <1>1
<1>5. \A x : Shown(buckets, from, to, x) => Shown(buckets', from, to, x)
  BY <1>4 DEF Shown
<1>6. E \subseteq F
  BY <1>2, <1>3, <1>4, <1>5
<1>7. minuteMark \in Nat /\ hourMark \in Nat /\ hourMark <= minuteMark
  BY DEF IInv, MarksInv
<1>8. \A b \in N : b.width = WidthMinute /\ b.start \in Nat /\ minuteMark <= b.start
  BY <1>1 DEF Between
<1>9. \A h \in H : h.width = WidthHour /\ h.start \in Nat /\ hourMark <= h.start
  BY <1>1 DEF Between
<1>10. \A b \in buckets :
        /\ b.start \in Nat
        /\ \/ b.width = WidthMinute /\ Aligned(b.start, WidthMinute) /\ b.start + WidthMinute <= minuteMark
           \/ b.width = WidthHour /\ Aligned(b.start, WidthHour) /\ b.start + WidthHour <= hourMark
  BY DEF IInv, BucketsInv
<1>11. ASSUME NEW t \in Int, t < to, NEW e \in Covering(E, t), NEW b \in Covering(F, t)
       PROVE  b \in E \/ (b.width = WidthHour /\ ~(to <= hourMark))
  <2>1. b \in F /\ b.start <= t /\ t < b.start + b.width /\ e \in E /\ e.start <= t /\ t < e.start + e.width
    BY DEF Covering
  <2>2. e \in buckets /\ b \in buckets' /\ e.start \in Nat
    BY <1>2, <1>3, <1>10, <2>1
  <2>3. t < minuteMark
    BY <1>0, <1>7, <1>10, <2>1, <2>2
  <2>4. b \notin N
    BY <1>7, <1>8, <2>1, <2>3
  <2>5. CASE b \in H
    BY <1>7, <1>9, <1>11, <2>1, <2>5
  <2>6. CASE b \in buckets /\ b.width = WidthHour
    BY <1>0, <1>2, <1>3, <2>1, <2>6
  <2>7. CASE b \in buckets /\ b.width = WidthMinute
    <3> DEFINE x == Floor(b.start, WidthHour)
    <3> SUFFICES ASSUME ~Shown(buckets, from, to, x) PROVE FALSE
      BY <1>2, <2>7
    <3>0. b.start \in Nat /\ Aligned(b.start, WidthMinute)
      BY <1>0, <1>10, <2>7
    <3>1. Shown(buckets', from, to, x)
      BY <1>0, <1>3, <2>1, <2>7
    <3>2. x \in Int /\ x <= b.start
      <4>1. b.start \in Int
        BY <3>0
      <4>. QED BY <1>0, <4>1, FloorIs
    <3> HIDE DEF x
    <3>3. PICK h \in buckets' : /\ h.width = WidthHour /\ low <= h.start /\ h.start < to
                                /\ h.verdict # "up" \/ h.errors > 0
                                /\ x = h.start
      BY <3>1 DEF Shown
    <3>4. h \notin buckets
      BY <3>3 DEF Shown
    <3>5. h \in H
      BY <1>0, <1>1, <1>8, <3>3, <3>4
    <3>6. hourMark <= t
      BY <1>7, <1>9, <2>1, <3>0, <3>2, <3>3, <3>5
    <3>7. e.width = WidthMinute /\ Aligned(e.start, WidthMinute)
      BY <1>0, <1>7, <1>10, <2>1, <2>2, <3>6
    <3>8. e.start = b.start
      BY <2>1, <2>2, <2>7, <3>0, <3>7, OneMinute
    <3>9. Shown(buckets, from, to, Floor(e.start, WidthHour))
      BY <1>0, <1>2, <2>1, <3>7
    <3>. QED BY <3>8, <3>9 DEF x
  <2>8. b \in buckets => b.width = WidthMinute \/ b.width = WidthHour
    BY <1>10
  <2>. QED BY <1>1, <2>2, <2>4, <2>5, <2>6, <2>7, <2>8
<1>. QED BY <1>6, <1>11 DEF E, F

\* A bucket that is no finer than what a monitor's evidence has changes nothing of
\* the seconds the evidence speaks for.
LEMMA StillSaw ==
    ASSUME NEW E, NEW F, Tidy(F), E \subseteq F, NEW t \in Int, NEW m,
           \A b \in Covering(F, t) : b \in E \/ b.width = WidthHour,
           \A b \in E : b.width <= WidthHour
    PROVE  (Saw(E, m, t) => Saw(F, m, t)) /\ (Fell(E, m, t) => Fell(F, m, t))
<1> SUFFICES ASSUME Covering(Of(E, m), t) # {}
             PROVE  Covering(Of(F, m), t) # {} /\ Finest(Of(F, m), t) = Finest(Of(E, m), t)
  BY DEF Saw, Fell
<1> DEFINE O == Of(E, m)
           Q == Of(F, m)
           f == Finest(O, t)
           g == Finest(Q, t)
<1>0. Tidy(E)
  BY TidySubset
<1>1. Tidy(O) /\ (\A b \in O : b.monitor = m) /\ Tidy(Q) /\ \A b \in Q : b.monitor = m
  BY <1>0, OfOne
<1>2. O \subseteq E /\ Covering(O, t) \subseteq Covering(Q, t)
  BY DEF Of, Covering
<1>3. \A b \in Covering(Q, t) : b \in Covering(O, t) \/ b.width = WidthHour
  BY DEF Of, Covering
<1>4. \A b \in Covering(Q, t) : b \in Q
  BY DEF Covering
<1>5. \A b \in Covering(O, t) : b \in O
  BY DEF Covering
<1> HIDE DEF O, Q
<1>6. Covering(O, t) # {}
  BY DEF O
<1>7. f \in Covering(O, t) /\ \A b \in Covering(O, t) : f.width <= b.width
  BY <1>1, <1>6, FinestIs
<1>8. f \in Covering(Q, t) /\ Covering(Q, t) # {}
  BY <1>2, <1>7
<1>9. /\ g \in Covering(Q, t)
      /\ \A b \in Covering(Q, t) : g.width <= b.width
      /\ \A b \in Covering(Q, t) : b.width = g.width => b = g
  BY <1>1, <1>8, FinestIs
<1> HIDE DEF f, g
<1>10. f.width \in Nat /\ g.width \in Nat
  BY <1>1, <1>4, <1>8, <1>9 DEF Tidy
<1>11. f.width <= WidthHour
  BY <1>2, <1>5, <1>7
<1>12. f.width <= g.width
  BY <1>3, <1>7, <1>9, <1>11
<1>13. g.width <= f.width
  BY <1>8, <1>9
<1>14. f.width = g.width
  BY <1>10, <1>12, <1>13
<1>15. f = g
  BY <1>8, <1>9, <1>14
<1>. QED BY <1>8, <1>15 DEF f, g, O, Q

\* The same evidence on a second says the same.
LEMMA SameSaw ==
    ASSUME NEW E, NEW F, E \subseteq F, NEW t, NEW m, \A b \in Covering(F, t) : b \in E
    PROVE  (Saw(E, m, t) <=> Saw(F, m, t)) /\ (Fell(E, m, t) <=> Fell(F, m, t))
<1>1. Covering(Of(E, m), t) = Covering(Of(F, m), t)
  BY DEF Of, Covering
<1>2. Finest(Of(E, m), t) = Finest(Of(F, m), t)
  BY <1>1 DEF Finest
<1>. QED BY <1>1, <1>2 DEF Saw, Fell

\* A component that was down at a second of a period is down at it still.
LEMMA DownStays ==
    ASSUME NEW E, NEW F, Tidy(F), E \subseteq F, NEW t \in Int, NEW c \in Components,
           \A b \in Covering(F, t) : b \in E \/ b.width = WidthHour,
           \A b \in E : b.width <= WidthHour,
           (\A b \in Covering(F, t) : b \in E) \/ Rollup[c] = "any",
           DownAt(c, E, t)
    PROVE  DownAt(c, F, t)
<1>1. CASE \A b \in Covering(F, t) : b \in E
  <2>1. \A m : (Saw(E, m, t) <=> Saw(F, m, t)) /\ (Fell(E, m, t) <=> Fell(F, m, t))
    BY <1>1, SameSaw
  <2>2. Seers(c, E, t) = Seers(c, F, t) /\ Fallen(c, E, t) = Fallen(c, F, t)
    BY <2>1 DEF Seers, Fallen
  <2>. QED BY <2>2 DEF DownAt
<1>2. CASE Rollup[c] = "any"
  <2>1. \A m : (Saw(E, m, t) => Saw(F, m, t)) /\ (Fell(E, m, t) => Fell(F, m, t))
    BY StillSaw
  <2>2. Seers(c, E, t) \subseteq Seers(c, F, t) /\ Fallen(c, E, t) \subseteq Fallen(c, F, t)
    BY <2>1 DEF Seers, Fallen
  <2>3. \A k, n : Bad("any", k, n) <=> k > 0
    BY DEF Bad
  <2>4. IsFiniteSet(Mine(c))
    BY ReportsAssumption, FS_Subset DEF Mine
  <2>5. IsFiniteSet(Fallen(c, E, t)) /\ IsFiniteSet(Fallen(c, F, t))
    BY <2>4, FS_Subset DEF Fallen
  <2>6. Cardinality(Fallen(c, E, t)) > 0 /\ Seers(c, E, t) # {}
    BY <1>2, <2>3 DEF DownAt
  <2>7. Fallen(c, E, t) # {}
    BY <2>6, FS_EmptySet
  <2>8. Fallen(c, F, t) # {}
    BY <2>2, <2>7
  <2>9. Cardinality(Fallen(c, F, t)) \in Nat /\ Cardinality(Fallen(c, F, t)) # 0
    BY <2>5, <2>8, FS_CardinalityType, FS_EmptySet
  <2>10. Cardinality(Fallen(c, F, t)) > 0
    BY <2>9
  <2>. QED BY <1>2, <2>2, <2>3, <2>6, <2>10 DEF DownAt
<1>. QED BY <1>1, <1>2

\* The seconds a component is said to be down are before the watermark.
LEMMA DownFolded ==
    ASSUME MarksInv, BucketsInv, NEW c, NEW from \in Nat, NEW to \in Nat, NEW t \in DownTo(c, from, to)
    PROVE  t \in Int /\ t < minuteMark /\ Covering(Evidence(from, to), t) # {}
<1>0. WidthHour \in Nat \ {0} /\ WidthMinute \in Nat \ {0}
  BY WidthAssumption
<1>1. t \in from..(to - 1) /\ Seers(c, Evidence(from, to), t) # {}
  BY DEF DownTo, NetTo, DownAt
<1>2. PICK m : Covering(Of(Evidence(from, to), m), t) # {}
  BY <1>1 DEF Seers, Saw
<1>3. PICK b \in Covering(Of(Evidence(from, to), m), t) : TRUE
  BY <1>2
<1>4. b \in Covering(Evidence(from, to), t) /\ b \in Evidence(from, to) /\ t < b.start + b.width
  BY <1>3 DEF Covering, Of
<1>5. b \in buckets
  BY <1>4 DEF Evidence, evidenceBuckets
<1>6. /\ b.start \in Nat /\ minuteMark \in Nat /\ hourMark \in Nat /\ hourMark <= minuteMark
      /\ \/ b.width = WidthMinute /\ b.start + WidthMinute <= minuteMark
         \/ b.width = WidthHour /\ b.start + WidthHour <= hourMark
  BY <1>5 DEF BucketsInv, MarksInv
<1>7. t \in Int
  BY <1>1
<1>. QED BY <1>0, <1>4, <1>6, <1>7

\* The step of a fold.
LEMMA FoldKeeps ==
    ASSUME IInv, Fold
    PROVE  IInv'
<1>1. Tidy(buckets') /\ BucketsInv'
  BY FoldKeepsBuckets
<1>2. now' = now /\ samples' = samples /\ windows' = windows /\ report' = report
  BY DEF Fold
<1>3. MarksInv' /\ minuteMark <= minuteMark' /\ hourMark <= hourMark'
  BY FoldAdds
<1>4. minuteMark \in Nat /\ minuteMark' \in Nat /\ hourMark \in Nat /\ hourMark' \in Nat
  BY <1>3 DEF IInv, MarksInv
<1>5. windows' \in [Windows -> Window] /\ WindowsTyped' /\ now' \in Nat /\ SamplesInv'
  BY <1>2 DEF IInv, WindowsTyped, SamplesInv
<1>6. ReportInv'
  <2>1. report.mark \in Nat /\ report.mark <= hourMark
    BY DEF IInv, ReportInv
  <2>2. report.mark <= hourMark'
    BY <1>3, <1>4, <2>1
  <2>3. \A c \in Components : \A t \in report.down[c] : t \in Int /\ t < minuteMark
    BY DEF IInv, ReportInv
  <2>4. \A c \in Components : \A t \in report.down[c] : t \in Int /\ t < minuteMark'
    BY <1>3, <1>4, <2>3
  <2>. QED BY <1>2, <2>1, <2>2, <2>4 DEF IInv, ReportInv
<1>7. ReportStands'
  <2> DEFINE from == report.from
             to == report.to
             E == evidenceBuckets(buckets, from, to)
             F == evidenceBuckets(buckets', from, to)
  <2>1. from \in Nat /\ to \in Nat /\ MaxTime \in Nat /\ report.mark \in Nat /\ report.mark <= hourMark
    BY ReportsAssumption DEF IInv, ReportInv
  <2>2. \A t : NetAt(t)' <=> NetAt(t)
    BY <1>2 DEF NetAt
  <2>3. \A c : DownTo(c, from, to) = {t \in NetTo(from, to) : DownAt(c, E, t)}
    BY DEF DownTo, Evidence
  <2>4. NetTo(from, to)' = NetTo(from, to)
    BY <1>2, <2>2 DEF NetTo
  <2>5. \A c : DownTo(c, from, to)' = {t \in NetTo(from, to) : DownAt(c, F, t)}
    <3>1. \A c : DownTo(c, from, to)' = {t \in NetTo(from, to)' : DownAt(c, F, t)}
      BY <1>2 DEF DownTo, Evidence
    <3>. QED BY <2>4, <3>1
  <2>6. /\ E \subseteq F
        /\ \A t \in Int : \A b \in Covering(F, t) :
              Covering(E, t) # {} /\ t < to => b \in E \/ (b.width = WidthHour /\ ~(to <= hourMark))
    BY <2>1, EvidenceGrows
  <2>7. Tidy(F)
    <3>1. F \subseteq buckets'
      BY DEF evidenceBuckets
    <3>. QED BY <1>1, <3>1, TidySubset
  <2>8. \A b \in E : b.width <= WidthHour
    <3>1. \A b \in E : b \in buckets
      BY DEF evidenceBuckets
    <3>2. \A b \in buckets : b.width = WidthMinute \/ b.width = WidthHour
      BY DEF IInv, BucketsInv
    <3>3. WidthMinute <= WidthHour /\ WidthHour <= WidthHour
      BY WidthAssumption
    <3>. QED BY <3>1, <3>2, <3>3
  <2>9. \A c : \A t \in DownTo(c, from, to) : t \in Int /\ t < to /\ Covering(E, t) # {}
    <3> SUFFICES ASSUME NEW c, NEW t \in DownTo(c, from, to) PROVE t \in Int /\ t < to /\ Covering(E, t) # {}
      OBVIOUS
    <3>1. t \in Int /\ Covering(E, t) # {}
      BY <2>1, DownFolded DEF IInv, Evidence
    <3>2. t \in from..(to - 1)
      BY DEF DownTo, NetTo
    <3>. QED BY <2>1, <3>1, <3>2
  <2> HIDE DEF E, F
  <2>10. ASSUME NEW c \in Components, to <= report.mark \/ Rollup[c] = "any", NEW t \in DownTo(c, from, to)
         PROVE  t \in DownTo(c, from, to)'
    <3>0. t \in Int /\ t < to /\ Covering(E, t) # {}
      BY <2>9
    <3>1. \A b \in Covering(F, t) : b \in E \/ (b.width = WidthHour /\ ~(to <= hourMark))
      BY <2>6, <3>0
    <3>2. (\A b \in Covering(F, t) : b \in E) \/ Rollup[c] = "any"
      <4>1. CASE Rollup[c] = "any"
        BY <4>1
      <4>2. CASE to <= report.mark
        <5>1. to <= hourMark
          BY <1>4, <2>1, <4>2
        <5>. QED BY <3>1, <5>1
      <4>. QED BY <2>10, <4>1, <4>2
    <3>3. t \in NetTo(from, to) /\ DownAt(c, E, t)
      BY <2>3
    <3>4. DownAt(c, F, t)
      BY <2>6, <2>7, <2>8, <3>0, <3>1, <3>2, <3>3, DownStays
    <3>. QED BY <2>5, <3>3, <3>4
  <2>11. \A c \in Components : to <= report.mark \/ Rollup[c] = "any" => report.down[c] \subseteq DownTo(c, from, to)'
    BY <2>10 DEF IInv, ReportStands
  <2>. QED BY <1>2, <2>11 DEF ReportStands
<1>. QED BY <1>1, <1>3, <1>5, <1>6, <1>7 DEF IInv

\* The step of a minute.
LEMMA ReadsKeeps ==
    ASSUME IInv, NEW v, Reads(v)
    PROVE  IInv'
<1> DEFINE on == {n \in Monitors : v[n] # "none"}
           reading == [m \in on |-> [monitor |-> m, at |-> now, verdict |-> v[m], manual |-> FALSE]]
           new == {reading[m] : m \in on}
<1>1. /\ now' = now + WidthMinute /\ samples' = samples \cup new
      /\ minuteMark' = minuteMark /\ hourMark' = hourMark /\ buckets' = buckets
      /\ windows' = windows /\ report' = report
  BY DEF Reads, foldVars
<1>2. now \in Nat /\ WidthMinute \in Nat \ {0}
  BY WidthAssumption DEF IInv
<1>3. SamplesInv'
  <2>1. IsFiniteSet(on)
    BY ReportsAssumption, FS_Subset
  <2>2. \A m \in on : reading[m].at = now
    OBVIOUS
  <2> HIDE DEF on, reading
  <2>3. IsFiniteSet(new)
    BY <2>1, FiniteImage
  <2>4. \A s \in new : s.at = now
    BY <2>2
  <2> HIDE DEF new
  <2>5. IsFiniteSet(samples \cup new)
    BY <2>3, FS_Union DEF IInv, SamplesInv
  <2>6. \A s \in samples \cup new : s.at \in Nat
    BY <1>2, <2>4 DEF IInv, SamplesInv
  <2>. QED BY <1>1, <2>5, <2>6 DEF SamplesInv
<1>4. MarksInv'
  BY <1>1, <1>2 DEF IInv, MarksInv
<1>5. Tidy(buckets)' /\ BucketsInv' /\ WindowsTyped' /\ ReportInv' /\ windows' \in [Windows -> Window]
  BY <1>1 DEF IInv, BucketsInv, WindowsTyped, ReportInv
<1>6. ReportStands'
  <2>1. \A c : DownTo(c, report.from, report.to)' = DownTo(c, report.from, report.to)
    BY <1>1 DEF DownTo, NetTo, NetAt, Evidence
  <2>. QED BY <1>1, <2>1 DEF IInv, ReportStands
<1>7. now' \in Nat
  BY <1>1, <1>2
<1>. QED BY <1>3, <1>4, <1>5, <1>6, <1>7 DEF IInv

\* A step of the windows alone, which takes no second before now out of the net.
LEMMA WindowsKeep ==
    ASSUME IInv, UNCHANGED <<now, samples, foldVars, report>>, windows' \in [Windows -> Window], WindowsTyped',
           \A t \in Int : t < now /\ NetAt(t) => NetAt(t)'
    PROVE  IInv'
<1>0. /\ now' = now /\ samples' = samples /\ minuteMark' = minuteMark /\ hourMark' = hourMark
      /\ buckets' = buckets /\ report' = report
  BY DEF foldVars
<1>1. Tidy(buckets)' /\ BucketsInv' /\ SamplesInv' /\ MarksInv' /\ ReportInv' /\ now' \in Nat
  BY <1>0 DEF IInv, BucketsInv, SamplesInv, MarksInv, ReportInv
<1>2. ReportStands'
  <2> DEFINE from == report.from
             to == report.to
  <2>1. from \in Nat /\ to \in Nat /\ now \in Nat /\ minuteMark \in Nat /\ minuteMark <= now
    BY DEF IInv, ReportInv, MarksInv
  <2>2. ASSUME NEW c \in Components, NEW t \in DownTo(c, from, to) PROVE t \in DownTo(c, from, to)'
    <3>1. t \in from..(to - 1) /\ NetAt(t) /\ DownAt(c, Evidence(from, to), t)
      BY DEF DownTo, NetTo
    <3>2. t \in Int /\ t < minuteMark
      BY <2>1, DownFolded DEF IInv
    <3>3. NetAt(t)'
      BY <2>1, <3>1, <3>2
    <3>4. t \in NetTo(from, to)'
      BY <1>0, <3>1, <3>3 DEF NetTo
    <3>5. Evidence(from, to)' = Evidence(from, to)
      BY <1>0 DEF Evidence
    <3>. QED BY <1>0, <3>1, <3>4, <3>5 DEF DownTo
  <2>. QED BY <1>0, <2>2 DEF ReportStands, IInv
<1>. QED BY <1>1, <1>2 DEF IInv

\* A window declared with the notice asked for is in the time to come.
LEMMA DeclareKeeps ==
    ASSUME IInv, NEW w \in Windows, NEW class \in Classes, NEW from \in 0..MaxTime, NEW to \in 0..MaxTime,
           DeclareMaintenance(w, class, from, to)
    PROVE  IInv'
<1> DEFINE x == [class |-> class, from |-> from, to |-> to, excluded |-> Excluded(class, from), cancelled |-> FALSE]
<1>1. windows' = [windows EXCEPT ![w] = x] /\ UNCHANGED <<now, samples, foldVars, report>>
  BY DEF DeclareMaintenance
<1>2. windows \in [Windows -> Window] /\ WindowsTyped /\ now \in Nat
  BY DEF IInv
<1>3. /\ x \in Window /\ x.from = from /\ x.to = to /\ x.class = class /\ x.from \in Int /\ x.to \in Int
      /\ x.excluded <=> Excluded(class, from)
  <2>1. Excluded(class, from) \in BOOLEAN
    BY DEF Excluded
  <2>2. from \in Int /\ to \in Int /\ class \in Classes \cup {"none"} /\ FALSE \in BOOLEAN
    OBVIOUS
  <2> DEFINE e == Excluded(class, from)
  <2> HIDE DEF e
  <2>3. x = [class |-> class, from |-> from, to |-> to, excluded |-> e, cancelled |-> FALSE] /\ e \in BOOLEAN
    BY <2>1 DEF e
  <2> HIDE DEF x
  <2>4. x \in Window
    BY <2>2, <2>3 DEF Window
  <2>5. x.from = from /\ x.to = to /\ x.class = class
    BY <2>3
  <2>6. x.excluded = e
    BY <2>3
  <2>7. x.excluded <=> Excluded(class, from)
    BY <2>6 DEF e
  <2>. QED BY <2>2, <2>4, <2>5, <2>7
<1>4. x.excluded => x.class # "none"
  BY <1>3 DEF Excluded
<1>5. x.excluded => now < from
  <2>1. MaintenanceLeadTime \in Nat \ {0} /\ from \in Int
    BY ReportsAssumption
  <2>2. Excluded(class, from) => from - now >= MaintenanceLeadTime
    BY DEF Excluded
  <2>. QED BY <1>2, <1>3, <2>1, <2>2
<1> HIDE DEF x
<1>6. windows' \in [Windows -> Window]
  BY <1>1, <1>2, <1>3
<1>7. \A u \in Windows : windows'[u] = IF u = w THEN x ELSE windows[u]
  BY <1>1, <1>2
<1>8. WindowsTyped'
  BY <1>2, <1>3, <1>4, <1>7 DEF WindowsTyped
<1>9. ASSUME NEW t \in Int, t < now, NetAt(t) PROVE NetAt(t)'
  <2>1. t \in Secs(Scheduled) /\ \A u \in Windows : windows[u].excluded /\ ~windows[u].cancelled => t \notin Secs({windows[u]})
    BY <1>9 DEF NetAt
  <2>2. x.excluded => t \notin Secs({x})
    <3> SUFFICES ASSUME x.excluded PROVE t \notin Secs({x})
      OBVIOUS
    <3>1. Secs({x}) = x.from..(x.to - 1)
      BY DEF Secs
    <3>. QED BY <1>2, <1>3, <1>5, <1>9, <3>1
  <2>3. \A u \in Windows : windows'[u].excluded /\ ~windows'[u].cancelled => t \notin Secs({windows'[u]})
    BY <1>7, <2>1, <2>2
  <2>. QED BY <2>1, <2>3 DEF NetAt
<1>. QED BY <1>1, <1>6, <1>8, <1>9, WindowsKeep

LEMMA CancelKeeps ==
    ASSUME IInv, NEW w \in Windows, CancelMaintenance(w)
    PROVE  IInv'
<1> DEFINE x == [windows[w] EXCEPT !.cancelled = TRUE]
<1>1. windows' = [windows EXCEPT ![w] = x] /\ UNCHANGED <<now, samples, foldVars, report>>
  BY DEF CancelMaintenance
<1>2. windows \in [Windows -> Window] /\ WindowsTyped /\ now \in Nat
  BY DEF IInv
<1>3. windows[w] \in Window
  BY <1>2
<1>4. /\ x \in Window /\ x.from = windows[w].from /\ x.to = windows[w].to /\ x.class = windows[w].class
      /\ x.excluded = windows[w].excluded /\ x.cancelled
  BY <1>3 DEF Window
<1> HIDE DEF x
<1>5. windows' \in [Windows -> Window]
  BY <1>1, <1>2, <1>4
<1>6. \A u \in Windows : windows'[u] = IF u = w THEN x ELSE windows[u]
  BY <1>1, <1>2
<1>7. WindowsTyped'
  BY <1>2, <1>4, <1>6 DEF WindowsTyped
<1>8. ASSUME NEW t \in Int, t < now, NetAt(t) PROVE NetAt(t)'
  <2>1. t \in Secs(Scheduled) /\ \A u \in Windows : windows[u].excluded /\ ~windows[u].cancelled => t \notin Secs({windows[u]})
    BY <1>8 DEF NetAt
  <2>2. \A u \in Windows : windows'[u].excluded /\ ~windows'[u].cancelled => t \notin Secs({windows'[u]})
    BY <1>4, <1>6, <2>1
  <2>. QED BY <2>1, <2>2 DEF NetAt
<1>. QED BY <1>1, <1>5, <1>7, <1>8, WindowsKeep

LEMMA GenerateKeeps ==
    ASSUME IInv, NEW p \in Periods, GenerateReport(p)
    PROVE  IInv'
<1>1. /\ now' = now /\ samples' = samples /\ minuteMark' = minuteMark /\ hourMark' = hourMark
      /\ buckets' = buckets /\ windows' = windows
  BY DEF GenerateReport, foldVars
<1>2. p.from \in 0..MaxTime /\ p.to \in 0..MaxTime /\ MaxTime \in Nat
  BY ReportsAssumption
<1> DEFINE from == p.from
           to == p.to
<1>3. from \in Nat /\ to \in Nat
  BY <1>2
<1>4. /\ report'.from = from /\ report'.to = to /\ report'.mark = hourMark
      /\ \A c \in Components : report'.down[c] = DownTo(c, from, to)
  <2> DEFINE r == Compute(from, to)
  <2>1. report' = [from |-> from, to |-> to, mark |-> hourMark, down |-> [c \in Components |-> Secs(r.components[c])]]
    BY DEF GenerateReport
  <2> HIDE DEF from, to
  <2>2. \A c \in Components : Secs(r.components[c]) = DownTo(c, from, to)
    <3>1. Tidy(buckets) /\ WindowsTyped
      BY DEF IInv
    <3>. QED BY <1>3, <3>1, FiguresAre
  <2> HIDE DEF r
  <2>. QED BY <2>1, <2>2
<1> HIDE DEF from, to
<1>5. \A c \in Components : DownTo(c, from, to)' = DownTo(c, from, to)
  BY <1>1 DEF DownTo, NetTo, NetAt, Evidence, from, to
<1>6. ReportStands'
  <2>1. \A c \in Components : DownTo(c, report.from, report.to)' = DownTo(c, from, to)
    BY <1>1, <1>4 DEF DownTo, NetTo, NetAt, Evidence
  <2>. QED BY <1>4, <2>1 DEF ReportStands
<1>7. ReportInv'
  <2>1. \A c \in Components : \A t \in DownTo(c, from, to) : t \in Int /\ t < minuteMark
    BY <1>3, DownFolded DEF IInv
  <2>2. hourMark \in Nat /\ hourMark <= hourMark
    BY DEF IInv, MarksInv
  <2>3. from \in 0..MaxTime /\ to \in 0..MaxTime
    BY <1>2 DEF from, to
  <2>. QED BY <1>1, <1>4, <2>1, <2>2, <2>3 DEF ReportInv
<1>8. /\ Tidy(buckets)' /\ BucketsInv' /\ windows' \in [Windows -> Window] /\ WindowsTyped'
      /\ SamplesInv' /\ MarksInv' /\ now' \in Nat
  BY <1>1 DEF IInv, BucketsInv, WindowsTyped, SamplesInv, MarksInv
<1>. QED BY <1>6, <1>7, <1>8 DEF IInv

LEMMA InvStep == IInv /\ [Next]_vars => IInv'
<1> SUFFICES ASSUME IInv, [Next]_vars PROVE IInv'
  OBVIOUS
<1>1. ASSUME NEW p \in Periods, GenerateReport(p) PROVE IInv'
  BY <1>1, GenerateKeeps
<1>2. ASSUME NEW v, Reads(v) PROVE IInv'
  BY <1>2, ReadsKeeps
<1>3. CASE Fold
  BY <1>3, FoldKeeps
<1>4. ASSUME NEW w \in Windows, NEW class \in Classes, NEW from \in 0..MaxTime, NEW to \in 0..MaxTime,
             DeclareMaintenance(w, class, from, to)
      PROVE  IInv'
  BY <1>4, DeclareKeeps
<1>5. ASSUME NEW w \in Windows, CancelMaintenance(w) PROVE IInv'
  BY <1>5, CancelKeeps
<1>6. CASE UNCHANGED vars
  <2>1. UNCHANGED <<now, samples, foldVars, report>> /\ windows' = windows
    BY <1>6 DEF vars, foldVars
  <2>2. windows' \in [Windows -> Window] /\ WindowsTyped' /\ \A t \in Int : NetAt(t) => NetAt(t)'
    BY <2>1 DEF IInv, WindowsTyped, NetAt
  <2>. QED BY <2>1, <2>2, WindowsKeep
<1>. QED BY <1>1, <1>2, <1>3, <1>4, <1>5, <1>6 DEF Next

\* The inductive invariant: Fold leaves buckets of one monitor and width apart, minutes and
\* hours behind their watermarks and the hours' watermark behind the minutes', windows are
\* typed, and no fold, declaration or cancellation takes back what the last report said was
\* downtime.
THEOREM ReportsSound == Spec => []IInv
<1>1. IInv /\ [Next]_vars => IInv'
  BY InvStep
<1>. QED BY <1>1, InvInit, PTL DEF Spec

\* In every state Compute's figures of the last report's period (net agreed service time,
\* downtime of components and service, outages, coverage, gaps) are those counted second by
\* second, wherever the period begins and ends and however far behind it Fold is.
THEOREM FiguresAgree == Spec => []FiguresExact
<1>1. IInv => FiguresExact
  <2> SUFFICES ASSUME IInv PROVE FiguresExact
    OBVIOUS
  <2>1. report.from \in Nat /\ report.to \in Nat /\ Tidy(buckets) /\ WindowsTyped
    BY DEF IInv, ReportInv
  <2>. QED BY <2>1, ReferenceAgrees
<1>. QED BY <1>1, ReportsSound, PTL

\* A window declared, moved or cancelled after a report, and minutes and hours folded after
\* it, leave the downtime it named where it was: DeclareMaintenance asks for notice, so a
\* planned window begins later than anything folded, and a period folded to hours gains no
\* evidence.  Of a period that was not, only the rule "any" is safe.
THEOREM DowntimeStays == Spec => []ReportedStays
<1>1. IInv => ReportedStays
  <2> SUFFICES ASSUME IInv PROVE ReportedStays
    OBVIOUS
  <2> DEFINE from == report.from
             to == report.to
             r == Compute(from, to)
  <2>1. from \in Nat /\ to \in Nat /\ Tidy(buckets) /\ WindowsTyped
    BY DEF IInv, ReportInv
  <2>3. Figures = r
    BY DEF Figures
  <2> HIDE DEF from, to
  <2>2. \A c \in Components : Secs(r.components[c]) = DownTo(c, from, to)
    BY <2>1, FiguresAre
  <2> HIDE DEF r
  <2>4. \A c \in Components : to <= report.mark \/ Rollup[c] = "any" => report.down[c] \subseteq Secs(r.components[c])
    BY <2>2 DEF IInv, ReportStands, from, to
  <2>. QED BY <2>3, <2>4 DEF ReportedStays, to
<1>. QED BY <1>1, ReportsSound, PTL

-----------------------------------------------------------------------------
(* Ratios.                                                                 *)

LEMMA SmallRemainder ==
    ASSUME NEW x \in Nat, NEW k \in Nat \ {0}, x < k
    PROVE  x % k = x
<1>1. Floor(x, k) = 0 * k
  <2>1. 0 * k <= x /\ x < 0 * k + k /\ x \in Int /\ 0 \in Int
    OBVIOUS
  <2>. QED BY <2>1, FloorOnly
<1>2. (x \div k) * k = 0
  BY <1>1 DEF Floor
<1>3. x = (x \div k) * k + (x % k) /\ x % k \in Int /\ x \div k \in Int
  OBVIOUS
<1>. QED BY <1>2, <1>3

\* What fits the integers is not wrapped.
LEMMA WrapFits ==
    ASSUME NEW n \in Nat, n <= IntMax
    PROVE  Wrap(n) = n
<1> DEFINE x == n + IntMax + 1
           k == 2 * (IntMax + 1)
<1>0. IntMax \in Nat
  BY PPMAssumption
<1>1. x \in Nat /\ k \in Nat \ {0} /\ x < k
  BY <1>0
<1>2. x % k = x
  <2> HIDE DEF x, k
  <2>. QED BY <1>1, SmallRemainder
<1>3. Wrap(n) = x - IntMax - 1
  BY <1>2 DEF Wrap
<1>. QED BY <1>0, <1>3

\* Ratio, "rounded to nearest": it is within half a part of the fraction as long as the
\* product it forms fits the integers, so that nothing wraps.
THEOREM RatioRounds ==
    ASSUME NEW n \in Nat, NEW d \in Nat \ {0}, n <= d, (2 * PPM + 1) * d <= IntMax
    PROVE  /\ Ratio(n, d) \in Nat
           /\ 2 * (Ratio(n, d) * d) <= 2 * (PPM * n) + d
           /\ 2 * (PPM * n) <= 2 * (Ratio(n, d) * d) + d
<1>0. PPM \in Nat /\ PPM > 0 /\ IntMax \in Nat
  BY PPMAssumption
<1>1. CASE n = d
  <2>1. Ratio(n, d) = PPM
    BY <1>1 DEF Ratio
  <2>. QED BY <1>0, <1>1, <2>1
<1>2. CASE n = 0
  <2>1. Ratio(n, d) = 0
    BY <1>2 DEF Ratio
  <2>. QED BY <1>0, <1>2, <2>1
<1>3. CASE n # d /\ n # 0
  <2> DEFINE a == n * PPM * 2 + d
             e == d * 2
             q == a \div e
             p == PPM * n
  <2>1. a = 2 * p + d /\ p \in Nat
    BY <1>0
  <2>2. p <= PPM * d
    <3>1. d - n \in Nat /\ PPM * (d - n) \in Nat
      BY <1>0
    <3>2. PPM * (d - n) = PPM * d - PPM * n
      BY <1>0
    <3>. QED BY <1>0, <3>1, <3>2
  <2>3. (2 * PPM + 1) * d = 2 * (PPM * d) + d /\ PPM * d \in Nat
    BY <1>0
  <2>4. PPM * d >= d
    BY <1>0
  <2>5. a \in Nat /\ a <= IntMax
    <3> HIDE DEF a, p
    <3>. QED BY <1>0, <2>1, <2>2, <2>3
  <2>6. e \in Nat \ {0} /\ e <= IntMax
    BY <1>0, <2>3, <2>4
  <2>7. Wrap(a) = a /\ Wrap(e) = e
    <3> HIDE DEF a, e
    <3>. QED BY <2>5, <2>6, WrapFits
  <2>8. Ratio(n, d) = Quotient(Wrap(a), Wrap(e))
    <3>1. ~(d <= 0 \/ (n > 0 /\ n >= d)) /\ ~(n <= 0)
      BY <1>3
    <3>. QED BY <3>1 DEF Ratio
  <2> HIDE DEF a, e
  <2>9. Quotient(a, e) = a \div e
    BY <2>5 DEF Quotient
  <2>10. Ratio(n, d) = q
    BY <2>7, <2>8, <2>9
  <2>11. /\ Floor(a, e) \in Int /\ Floor(a, e) <= a /\ a < Floor(a, e) + e
    <3>1. a \in Int
      BY <2>5
    <3>. QED BY <2>6, <3>1, FloorIs
  <2>12. Floor(a, e) = q * e
    BY DEF Floor
  <2>13. q \in Nat
    BY <2>5, <2>6
  <2> HIDE DEF q
  <2>14. q * e = 2 * (q * d) /\ q * d \in Nat
    BY <2>13 DEF e
  <2> HIDE DEF p
  <2>15. 2 * (q * d) <= 2 * p + d /\ 2 * p + d < 2 * (q * d) + d * 2
    <3>1. e = d * 2
      BY DEF e
    <3>. QED BY <2>1, <2>11, <2>12, <2>14, <3>1
  <2>16. 2 * p <= 2 * (q * d) + d
    BY <2>1, <2>14, <2>15
  <2>. QED BY <2>10, <2>13, <2>15, <2>16 DEF p
<1>. QED BY <1>1, <1>2, <1>3

\* A ratio that reaches k parts: the fraction does, but for what rounding forgives.
LEMMA RatioReaches ==
    ASSUME NEW n \in Nat, NEW d \in Nat \ {0}, n <= d, (2 * PPM + 1) * d <= IntMax,
           NEW k \in Nat, Ratio(n, d) >= k
    PROVE  2 * PPM * n >= (2 * k - 1) * d
<1> DEFINE q == Ratio(n, d)
<1>0. PPM \in Nat
  BY PPMAssumption
<1>1. q \in Nat /\ 2 * (q * d) <= 2 * (PPM * n) + d
  BY RatioRounds
<1>2. q >= k
  OBVIOUS
<1> HIDE DEF q
<1>3. q * d >= k * d
  <2>1. q - k \in Nat /\ (q - k) * d \in Nat
    BY <1>1, <1>2
  <2>2. (q - k) * d = q * d - k * d
    BY <1>1
  <2>. QED BY <1>1, <2>1, <2>2
<1>4. (2 * k - 1) * d = 2 * (k * d) - d /\ 2 * PPM * n = 2 * (PPM * n)
  BY <1>0
<1>5. k * d \in Nat /\ q * d \in Nat /\ PPM * n \in Nat
  BY <1>0, <1>1
<1>. QED BY <1>1, <1>3, <1>4, <1>5

\* Every period's seconds in parts of the whole fit the integers.
SecondsFit == (2 * PPM + 1) * MaxTime <= IntMax

\* What fits a larger number of parts fits a smaller one.
LEMMA LessFits ==
    ASSUME NEW n \in Nat, NEW m \in Nat, n <= m, (2 * PPM + 1) * m <= IntMax
    PROVE  (2 * PPM + 1) * n <= IntMax
<1> DEFINE K == 2 * PPM + 1
<1>1. K \in Nat /\ m - n \in Nat /\ K * m <= IntMax /\ IntMax \in Nat
  BY PPMAssumption
<1> HIDE DEF K
<1>2. K * (m - n) \in Nat /\ K * (m - n) = K * m - K * n /\ K * m \in Nat /\ K * n \in Nat
  BY <1>1
<1>3. K * n <= IntMax
  BY <1>1, <1>2
<1>. QED BY <1>3 DEF K

\* The numbers behind the figures of a period.
LEMMA CountsAre ==
    ASSUME NEW F \in 0..MaxTime, NEW T \in 0..MaxTime
    PROVE  LET N == Cardinality(NetTo(F, T))
           IN  /\ IsFiniteSet(NetTo(F, T)) /\ N \in Nat /\ N <= MaxTime
               /\ AllDown(F, T) \subseteq NetTo(F, T) /\ AllSeen(F, T) \subseteq NetTo(F, T)
               /\ Cardinality(AllDown(F, T)) \in 0..N /\ Cardinality(AllSeen(F, T)) \in 0..N
               /\ Cardinality(NetTo(F, T) \ AllSeen(F, T)) = N - Cardinality(AllSeen(F, T))
               /\ \A c \in Components : Cardinality(DownTo(c, F, T)) \in 0..N
<1> DEFINE net == NetTo(F, T)
           N == Cardinality(net)
<1>0. MaxTime \in Nat /\ F \in Nat /\ T \in Nat /\ T <= MaxTime
  BY ReportsAssumption
<1>1. IsFiniteSet(F..(T - 1)) /\ Cardinality(F..(T - 1)) <= MaxTime
  <2>1. CASE T <= F
    <3>1. F..(T - 1) = {}
      BY <1>0, <2>1
    <3>. QED BY <1>0, <3>1, FS_EmptySet
  <2>2. CASE F < T
    <3>1. IsFiniteSet(F..(T - 1)) /\ Cardinality(F..(T - 1)) = T - F
      BY <1>0, <2>2, SpanCount
    <3>. QED BY <1>0, <3>1
  <2>. QED BY <1>0, <2>1, <2>2
<1>2. net \subseteq F..(T - 1)
  BY DEF NetTo
<1>3. AllDown(F, T) \subseteq net /\ AllSeen(F, T) \subseteq net /\ \A c \in Components : DownTo(c, F, T) \subseteq net
  BY DEF AllDown, AllSeen, DownTo, SeenTo
<1> HIDE DEF net
<1>4. IsFiniteSet(net) /\ N <= Cardinality(F..(T - 1))
  BY <1>1, <1>2, FS_Subset
<1>5. N \in Nat /\ Cardinality(F..(T - 1)) \in Nat
  BY <1>1, <1>4, FS_CardinalityType
<1>6. N <= MaxTime
  BY <1>0, <1>1, <1>4, <1>5
<1>7. ASSUME NEW S, S \subseteq net PROVE IsFiniteSet(S) /\ Cardinality(S) \in 0..N
  <2>1. IsFiniteSet(S) /\ Cardinality(S) <= N
    BY <1>4, <1>7, FS_Subset
  <2>2. Cardinality(S) \in Nat
    BY <2>1, FS_CardinalityType
  <2>. QED BY <1>5, <2>1, <2>2
<1>8. Cardinality(net \ AllSeen(F, T)) = N - Cardinality(AllSeen(F, T))
  <2>1. net \cap AllSeen(F, T) = AllSeen(F, T)
    BY <1>3
  <2>2. Cardinality(net \ AllSeen(F, T)) = N - Cardinality(net \cap AllSeen(F, T))
    BY <1>4, FS_Difference
  <2>. QED BY <2>1, <2>2
<1>9. Cardinality(AllDown(F, T)) \in 0..N /\ Cardinality(AllSeen(F, T)) \in 0..N
  BY <1>3, <1>7
<1>10. \A c \in Components : Cardinality(DownTo(c, F, T)) \in 0..N
  BY <1>3, <1>7
<1>. QED BY <1>3, <1>4, <1>5, <1>6, <1>8, <1>9, <1>10 DEF net

-----------------------------------------------------------------------------
(* The figure of the users.                                                *)

WeighStep(f, of, cs, n) ==
    f = [k \in 0..n |-> IF k = 0 THEN 0 ELSE f[k - 1] + UserWeight[cs[k]] * of[cs[k]]]

LEMMA WeighsExist ==
    ASSUME NEW of, NEW cs, NEW n \in Nat
    PROVE  \E f : WeighStep(f, of, cs, n)
<1> DEFINE Missing == {k \in Nat : ~ \E f : WeighStep(f, of, cs, k)}
           share(k) == UserWeight[cs[k]] * of[cs[k]]
<1>1. Missing = {}
  <2> SUFFICES ASSUME Missing # {} PROVE FALSE
    OBVIOUS
  <2>1. PICK k \in Missing : \A j \in Missing : k <= j
    <3>1. Missing \in SUBSET Nat
      OBVIOUS
    <3> HIDE DEF Missing
    <3>. QED BY <3>1, LeastNat
  <2>2. CASE k = 0
    <3> DEFINE f == [m \in 0..0 |-> 0]
    <3>1. WeighStep(f, of, cs, 0)
      BY DEF WeighStep
    <3>. QED BY <2>1, <2>2, <3>1
  <2>3. CASE k # 0
    <3>1. k - 1 \in Nat /\ k - 1 \notin Missing
      BY <2>1, <2>3
    <3>2. PICK g : WeighStep(g, of, cs, k - 1)
      BY <3>1
    <3> DEFINE f == [m \in 0..k |-> IF m = k THEN g[k - 1] + share(k) ELSE g[m]]
    <3>3. \A m \in 0..(k - 1) : g[m] = IF m = 0 THEN 0 ELSE g[m - 1] + share(m)
      BY <3>2 DEF WeighStep
    <3> HIDE DEF share
    <3>4. \A m \in 0..k : f[m] = IF m = 0 THEN 0 ELSE f[m - 1] + share(m)
      BY <2>1, <2>3, <3>3
    <3>5. f = [m \in 0..k |-> f[m]]
      OBVIOUS
    <3> HIDE DEF f
    <3>6. WeighStep(f, of, cs, k)
      BY <3>4, <3>5 DEF WeighStep, share
    <3>. QED BY <2>1, <3>6
  <2>. QED BY <2>2, <2>3
<1>. QED BY <1>1

\* The components in an order, and the sums of their shares.
LEMMA WeighedIs ==
    ASSUME NEW of
    PROVE  LET cs == SetToSeq(Components)
           IN  /\ Len(cs) \in Nat /\ \A n \in 1..Len(cs) : cs[n] \in Components
               /\ \E f : WeighStep(f, of, cs, Len(cs)) /\ Weighed(of) = f[Len(cs)]
<1> DEFINE cs == SetToSeq(Components)
           k == Cardinality(Components)
           one == CHOOSE f : WeighStep(f, of, cs, Len(cs))
<1>1. k \in Nat /\ ExistsBijection(1..k, Components)
  BY ReportsAssumption, FS_CardinalityType
<1>2. PICK g : g \in [1..k -> Components] /\ \A a, b \in 1..k : g[a] = g[b] => a = b
  BY <1>1 DEF ExistsBijection, Bijection, Injection, IsInjective
<1>3. g \in [1..k -> Components] /\ IsInjective(g)
  BY <1>2 DEF IsInjective
<1> HIDE DEF k
<1>4. cs \in [1..k -> Components]
  BY <1>3 DEF SetToSeq, k
<1> HIDE DEF cs
<1>5. Len(cs) = k
  BY <1>1, <1>4
<1>6. Len(cs) \in Nat /\ \A n \in 1..Len(cs) : cs[n] \in Components
  BY <1>1, <1>4, <1>5
<1>7. WeighStep(one, of, cs, Len(cs))
  BY <1>6, WeighsExist
<1>8. Weighed(of) = one[Len(cs)]
  BY DEF Weighed, WeighStep, cs
<1> HIDE DEF one
<1>. QED BY <1>6, <1>7, <1>8 DEF cs

\* The more of each component, the more in all.
LEMMA WeighedGrows ==
    ASSUME NEW of, NEW up, \A c \in Components : of[c] \in Nat /\ up[c] \in Nat /\ of[c] <= up[c]
    PROVE  Weighed(of) \in Nat /\ Weighed(up) \in Nat /\ Weighed(of) <= Weighed(up)
<1> DEFINE cs == SetToSeq(Components)
           top == Len(cs)
<1>1. top \in Nat /\ \A n \in 1..top : cs[n] \in Components
  BY WeighedIs
<1>2. PICK f : WeighStep(f, of, cs, top) /\ Weighed(of) = f[top]
  BY WeighedIs
<1>3. PICK g : WeighStep(g, up, cs, top) /\ Weighed(up) = g[top]
  BY WeighedIs
<1> DEFINE low == [n \in 1..top |-> UserWeight[cs[n]] * of[cs[n]]]
           high == [n \in 1..top |-> UserWeight[cs[n]] * up[cs[n]]]
           Holds(n) == f[n] \in Nat /\ g[n] \in Nat /\ f[n] <= g[n]
           Wrong == {n \in 0..top : ~Holds(n)}
<1> HIDE DEF cs, top
<1>4. f[0] = 0 /\ \A n \in 1..top : f[n] = f[n - 1] + low[n]
  <2>1. \A n \in 0..top : f[n] = IF n = 0 THEN 0 ELSE f[n - 1] + UserWeight[cs[n]] * of[cs[n]]
    BY <1>2 DEF WeighStep
  <2>2. 0 \in 0..top /\ \A n \in 1..top : n \in 0..top /\ n # 0
    BY <1>1
  <2>. QED BY <2>1, <2>2
<1>5. g[0] = 0 /\ \A n \in 1..top : g[n] = g[n - 1] + high[n]
  <2>1. \A n \in 0..top : g[n] = IF n = 0 THEN 0 ELSE g[n - 1] + UserWeight[cs[n]] * up[cs[n]]
    BY <1>3 DEF WeighStep
  <2>2. 0 \in 0..top /\ \A n \in 1..top : n \in 0..top /\ n # 0
    BY <1>1
  <2>. QED BY <2>1, <2>2
<1>6. ASSUME NEW n \in 1..top PROVE low[n] \in Nat /\ high[n] \in Nat /\ low[n] <= high[n]
  <2> DEFINE w == UserWeight[cs[n]]
             a == of[cs[n]]
             b == up[cs[n]]
  <2>1. w \in Nat /\ a \in Nat /\ b \in Nat /\ a <= b
    BY <1>1, ReportsAssumption
  <2>2. low[n] = w * a /\ high[n] = w * b
    OBVIOUS
  <2> HIDE DEF w, a, b, low, high
  <2>3. w * (b - a) \in Nat /\ w * (b - a) = w * b - w * a /\ w * a \in Nat /\ w * b \in Nat
    BY <2>1
  <2>. QED BY <2>2, <2>3
<1> HIDE DEF low, high
<1>7. Holds(0)
  BY <1>4, <1>5
<1>8. Wrong = {}
  <2> SUFFICES ASSUME Wrong # {} PROVE FALSE
    OBVIOUS
  <2>1. PICK k \in Wrong : \A j \in Wrong : k <= j
    <3>1. Wrong \in SUBSET Nat
      BY <1>1
    <3> HIDE DEF Wrong
    <3>. QED BY <3>1, LeastNat
  <2>2. k \in 0..top /\ ~Holds(k)
    BY <2>1
  <2>3. k # 0
    BY <1>7, <2>2
  <2>4. k - 1 \in 0..top /\ k \in 1..top /\ ~(k <= k - 1)
    BY <1>1, <2>2, <2>3
  <2>5. k - 1 \notin Wrong
    BY <2>1, <2>4
  <2>6. f[k - 1] \in Nat /\ g[k - 1] \in Nat /\ f[k - 1] <= g[k - 1]
    BY <2>4, <2>5
  <2>7. f[k] = f[k - 1] + low[k] /\ g[k] = g[k - 1] + high[k]
    BY <1>4, <1>5, <2>4
  <2>8. low[k] \in Nat /\ high[k] \in Nat /\ low[k] <= high[k]
    BY <1>6, <2>4
  <2> HIDE DEF Wrong
  <2>9. Holds(k)
    BY <2>6, <2>7, <2>8
  <2>. QED BY <2>2, <2>9
<1>9. top \in 0..top
  BY <1>1
<1>10. Holds(top)
  BY <1>8, <1>9
<1>. QED BY <1>2, <1>3, <1>10

\* All users' seconds in parts of the whole fit the integers.
UsersFit == (2 * PPM + 1) * Weighed([c \in Components |-> MaxTime]) <= IntMax

\* The users' seconds of a period, and those of them with an outage.
Potential(F, T) == Weighed([c \in Components |-> Cardinality(NetTo(F, T))])
Outage(F, T) == Weighed([c \in Components |-> Cardinality(DownTo(c, F, T))])

\* The user-weighted figure is the ratio of these, and they fit the integers.
LEMMA UsersOf ==
    ASSUME Tidy(buckets), WindowsTyped, UsersFit, NEW F \in 0..MaxTime, NEW T \in 0..MaxTime
    PROVE  /\ Outage(F, T) \in Nat /\ Potential(F, T) \in Nat /\ Outage(F, T) <= Potential(F, T)
           /\ (2 * PPM + 1) * Potential(F, T) <= IntMax
           /\ Compute(F, T).userAvailability = IF Potential(F, T) > 0
                                                THEN Ratio(Potential(F, T) - Outage(F, T), Potential(F, T))
                                                ELSE Compute(F, T).availability
<1> DEFINE r == Compute(F, T)
           net == [c \in Components |-> Cardinality(NetTo(F, T))]
           out == [c \in Components |-> Cardinality(DownTo(c, F, T))]
           most == [c \in Components |-> MaxTime]
<1>0. MaxTime \in Nat /\ F \in Nat /\ T \in Nat
  BY ReportsAssumption
<1>6. /\ r.net = Cardinality(NetTo(F, T))
      /\ \A c \in Components : Total(r.components[c]) = Cardinality(DownTo(c, F, T))
      /\ LET potential == Weighed([c \in Components |-> r.net])
         IN  r.userAvailability = IF potential > 0
                                  THEN Ratio(potential - UserOutage(r.components), potential)
                                  ELSE r.availability
  BY <1>0, FiguresAre
<1> HIDE DEF r
<1>7. [c \in Components |-> r.net] = net
  BY <1>6
<1>8. UserOutage(r.components) = Weighed(out)
  <2>1. [c \in Components |-> Total(r.components[c])] = out
    BY <1>6
  <2>. QED BY <2>1 DEF UserOutage
<1>9. /\ Cardinality(NetTo(F, T)) \in Nat /\ Cardinality(NetTo(F, T)) <= MaxTime
      /\ \A c \in Components : Cardinality(DownTo(c, F, T)) \in 0..Cardinality(NetTo(F, T))
  BY CountsAre
<1>10. \A c \in Components : out[c] \in Nat /\ net[c] \in Nat /\ most[c] \in Nat /\ out[c] <= net[c] /\ net[c] <= most[c]
  BY <1>0, <1>9
<1>11. Potential(F, T) = Weighed(net) /\ Outage(F, T) = Weighed(out) /\ (2 * PPM + 1) * Weighed(most) <= IntMax
  BY DEF Potential, Outage, UsersFit
<1> HIDE DEF net, out, most
<1>12. /\ Weighed(out) \in Nat /\ Weighed(net) \in Nat /\ Weighed(out) <= Weighed(net)
       /\ Weighed(most) \in Nat /\ Weighed(net) <= Weighed(most)
  BY <1>10, WeighedGrows
<1>13. (2 * PPM + 1) * Weighed(net) <= IntMax
  BY <1>11, <1>12, LessFits
<1>14. r.userAvailability = IF Weighed(net) > 0 THEN Ratio(Weighed(net) - Weighed(out), Weighed(net)) ELSE r.availability
  BY <1>6, <1>7, <1>8
<1>. QED BY <1>11, <1>12, <1>13, <1>14 DEF r

\* The reference adds up the same seconds of users.
LEMMA UsersAre ==
    ASSUME IInv
    PROVE  /\ Weighed([c \in Components |-> Cardinality(Reference.net)]) = Potential(report.from, report.to)
           /\ Weighed([c \in Components |-> Cardinality(Reference.components[c])]) = Outage(report.from, report.to)
<1> DEFINE F == report.from
           T == report.to
<1>1. F \in Nat /\ T \in Nat /\ Tidy(buckets) /\ WindowsTyped
  BY ReportsAssumption DEF IInv, ReportInv
<1>2. Reference.net = NetTo(F, T) /\ Reference.components = [c \in Components |-> DownTo(c, F, T)]
  BY <1>1, ReferenceAgrees
<1> HIDE DEF F, T
<1>3. [c \in Components |-> Cardinality(Reference.net)] = [c \in Components |-> Cardinality(NetTo(F, T))]
  BY <1>2
<1>4. [c \in Components |-> Cardinality(Reference.components[c])] = [c \in Components |-> Cardinality(DownTo(c, F, T))]
  BY <1>2
<1>. QED BY <1>3, <1>4 DEF Potential, Outage, F, T

\* The user-weighted figure of Compute, summed over components, is the fraction
\* docs/availability.md gives, wherever the users' seconds fit the integers.
THEOREM UserFigureHolds ==
    ASSUME UsersFit
    PROVE  Spec => []UserFigureExact
<1>1. IInv => UserFigureExact
  <2> DEFINE P == Potential(report.from, report.to)
             O == Outage(report.from, report.to)
             n == P - O
             u == Figures.userAvailability
  <2> SUFFICES ASSUME IInv PROVE UserFigureExact
    OBVIOUS
  <2>1. /\ Weighed([c \in Components |-> Cardinality(Reference.net)]) = P
        /\ Weighed([c \in Components |-> Cardinality(Reference.components[c])]) = O
        /\ O \in Nat /\ P \in Nat /\ O <= P /\ (2 * PPM + 1) * P <= IntMax
        /\ P > 0 => u = Ratio(n, P)
    <3> DEFINE F == report.from
               T == report.to
    <3>1. F \in 0..MaxTime /\ T \in 0..MaxTime /\ Tidy(buckets) /\ WindowsTyped
      BY DEF IInv, ReportInv
    <3>2. Figures = Compute(F, T)
      BY DEF Figures
    <3>3. /\ Weighed([c \in Components |-> Cardinality(Reference.net)]) = P
          /\ Weighed([c \in Components |-> Cardinality(Reference.components[c])]) = O
      BY UsersAre
    <3> HIDE DEF F, T
    <3>4. P = Potential(F, T) /\ O = Outage(F, T)
      BY DEF F, T
    <3> HIDE DEF P, O
    <3>. QED BY <3>1, <3>2, <3>3, <3>4, UsersOf
  <2> HIDE DEF P, O, u
  <2>2. ASSUME P > 0 PROVE (u - 1) * P <= PPM * n /\ PPM * n <= (u + 1) * P
    <3>1. n \in Nat /\ n <= P /\ P \in Nat \ {0}
      BY <2>1, <2>2
    <3>2. u = Ratio(n, P) /\ PPM \in Nat
      BY <2>1, <2>2, PPMAssumption
    <3> HIDE DEF n
    <3>3. u \in Nat /\ 2 * (u * P) <= 2 * (PPM * n) + P /\ 2 * (PPM * n) <= 2 * (u * P) + P
      BY <2>1, <3>1, <3>2, RatioRounds
    <3>4. (u - 1) * P = u * P - P /\ (u + 1) * P = u * P + P /\ u * P \in Nat /\ PPM * n \in Nat
      BY <3>1, <3>2, <3>3
    <3>. QED BY <3>1, <3>3, <3>4
  <2>3. \A ref \in {Reference}, x \in {u} :
            LET potential == Weighed([c \in Components |-> Cardinality(ref.net)])
                outage == Weighed([c \in Components |-> Cardinality(ref.components[c])])
            IN  potential > 0 => /\ (x - 1) * potential <= PPM * (potential - outage)
                                 /\ PPM * (potential - outage) <= (x + 1) * potential
    BY <2>1, <2>2
  <2>. QED BY <2>3 DEF UserFigureExact, u
<1>. QED BY <1>1, ReportsSound, PTL

\* evaluate with the coverage floor "keeps the report honest": wherever the seconds of a
\* period and of its users fit the integers, an objective on either figure that is met
\* means enough time seen and little enough of it down.
THEOREM ObjectivesHonest ==
    ASSUME SecondsFit, UsersFit
    PROVE  Spec => []MetHonestly
<1>1. IInv => MetHonestly
  <2> DEFINE F == report.from
             T == report.to
             r == Figures
             N == Cardinality(NetTo(F, T))
             D == Cardinality(AllDown(F, T))
             O == Cardinality(AllSeen(F, T))
             P == Potential(F, T)
             L == Outage(F, T)
  <2> SUFFICES ASSUME IInv, NEW o \in Objectives, evaluate(o, r) = "met"
               PROVE  /\ N > 0
                      /\ 2 * PPM * O >= (2 * CoverageFloor - 1) * N
                      /\ IF o.metric = "availability" \/ P = 0
                         THEN 2 * PPM * (N - D) >= (2 * o.target - 1) * N
                         ELSE 2 * PPM * (P - L) >= (2 * o.target - 1) * P
    <3> SUFFICES ASSUME IInv PROVE MetHonestly
      OBVIOUS
    <3>0. F \in 0..MaxTime /\ T \in 0..MaxTime /\ Tidy(buckets) /\ WindowsTyped /\ MaxTime \in Nat
      BY ReportsAssumption DEF IInv, ReportInv
    <3>1. F \in Nat /\ T \in Nat
      BY <3>0
    <3>2. /\ Cardinality(Reference.net) = N /\ Cardinality(Reference.down) = D
          /\ Cardinality(Reference.unseen) = Cardinality(NetTo(F, T) \ AllSeen(F, T))
      BY <3>0, <3>1, ReferenceAgrees
    <3>3. N \in Nat /\ O \in 0..N /\ Cardinality(NetTo(F, T) \ AllSeen(F, T)) = N - O
      BY <3>0, CountsAre
    <3>4. /\ Weighed([c \in Components |-> Cardinality(Reference.net)]) = P
          /\ Weighed([c \in Components |-> Cardinality(Reference.components[c])]) = L
      BY UsersAre
    <3> HIDE DEF N, D, O, P, L, F, T
    <3>5. N - Cardinality(Reference.unseen) = O
      BY <3>2, <3>3
    <3> HIDE DEF r
    <3>6. \A o \in Objectives : evaluate(o, r) = "met" =>
                      /\ N > 0
                      /\ 2 * PPM * O >= (2 * CoverageFloor - 1) * N
                      /\ IF o.metric = "availability" \/ P = 0
                         THEN 2 * PPM * (N - D) >= (2 * o.target - 1) * N
                         ELSE 2 * PPM * (P - L) >= (2 * o.target - 1) * P
      BY DEF N, D, O, P, L, F, T, r
    <3>7. ASSUME NEW o \in Objectives, evaluate(o, r) = "met"
          PROVE  LET net == Cardinality(Reference.net)
                     potential == Weighed([c \in Components |-> net])
                     outage == Weighed([c \in Components |-> Cardinality(Reference.components[c])])
                 IN  /\ net > 0
                     /\ 2 * PPM * (net - Cardinality(Reference.unseen)) >= (2 * CoverageFloor - 1) * net
                     /\ IF o.metric = "availability" \/ potential = 0
                        THEN 2 * PPM * (net - Cardinality(Reference.down)) >= (2 * o.target - 1) * net
                        ELSE 2 * PPM * (potential - outage) >= (2 * o.target - 1) * potential
      BY <3>2, <3>4, <3>5, <3>6, <3>7
    <3>. QED BY <3>7 DEF MetHonestly, r
  <2>0. F \in 0..MaxTime /\ T \in 0..MaxTime /\ Tidy(buckets) /\ WindowsTyped /\ MaxTime \in Nat
    BY ReportsAssumption DEF IInv, ReportInv
  <2>r. r = Compute(F, T)
    BY DEF Figures
  <2>u. /\ L \in Nat /\ P \in Nat /\ L <= P /\ (2 * PPM + 1) * P <= IntMax
        /\ r.userAvailability = IF P > 0 THEN Ratio(P - L, P) ELSE r.availability
    <3> HIDE DEF F, T, r
    <3>. QED BY <2>0, <2>r, UsersOf
  <2> HIDE DEF r, F, T
  <2>1. /\ r.net = N /\ r.downtime = D /\ r.observed = O
        /\ r.availability = Availability(r.net, r.downtime) /\ r.coverage = Ratio(r.observed, r.net)
    <3>1. F \in Nat /\ T \in Nat
      BY <2>0
    <3>. QED BY <2>0, <2>r, <3>1, FiguresAre
  <2>3. N \in Nat /\ N <= MaxTime /\ D \in 0..N /\ O \in 0..N
    BY <2>0, CountsAre
  <2>4. /\ ~(r.net = 0 \/ (CoverageFloor > 0 /\ r.coverage < CoverageFloor)) /\ achieved(o, r) >= o.target
    BY DEF evaluate
  <2> HIDE DEF N, D, O, P, L
  <2>5. PPM \in Nat /\ CoverageFloor \in Nat /\ o.target \in Nat /\ IntMax \in Nat
    BY PPMAssumption, ReportsAssumption
  <2>6. N \in Nat \ {0} /\ N > 0 /\ N - D \in Nat /\ N - D <= N /\ O \in Nat /\ O <= N
    BY <2>1, <2>3, <2>4
  <2>7. (2 * PPM + 1) * N <= IntMax
    BY <2>0, <2>3, LessFits DEF SecondsFit
  <2>8. Availability(N, D) = Ratio(N - D, N)
    <3>1. N - D \in Int /\ 0 \in Int
      BY <2>6
    <3>2. Max({N - D, 0}) \in {N - D, 0} /\ Max({N - D, 0}) >= N - D /\ Max({N - D, 0}) >= 0
      BY <3>1, MaxPair
    <3>3. Max({N - D, 0}) = N - D
      BY <2>6, <3>2
    <3>4. ~(N <= 0)
      BY <2>6
    <3>. QED BY <3>3, <3>4 DEF Availability
  <2>9. ASSUME o.metric = "availability" \/ P = 0 PROVE 2 * PPM * (N - D) >= (2 * o.target - 1) * N
    <3> DEFINE n == N - D
               k == o.target
    <3>1. achieved(o, r) = r.availability
      BY <2>u, <2>9 DEF achieved
    <3>2. n \in Nat /\ n <= N /\ Ratio(n, N) >= k /\ k \in Nat
      BY <2>1, <2>4, <2>5, <2>6, <2>8, <3>1
    <3> HIDE DEF n, k
    <3>3. 2 * PPM * n >= (2 * k - 1) * N
      BY <2>5, <2>6, <2>7, <3>2, RatioReaches
    <3>. QED BY <3>3 DEF n, k
  <2>10. ASSUME ~(o.metric = "availability" \/ P = 0) PROVE 2 * PPM * (P - L) >= (2 * o.target - 1) * P
    <3> DEFINE n == P - L
               k == o.target
    <3>1. achieved(o, r) = r.userAvailability /\ P > 0 /\ P \in Nat \ {0}
      BY <2>u, <2>10 DEF achieved
    <3>2. n \in Nat /\ n <= P /\ Ratio(n, P) >= k /\ k \in Nat
      BY <2>4, <2>5, <2>u, <3>1
    <3> HIDE DEF n, k
    <3>3. 2 * PPM * n >= (2 * k - 1) * P
      BY <2>5, <2>u, <3>1, <3>2, RatioReaches
    <3>. QED BY <3>3 DEF n, k
  <2>11. 2 * PPM * O >= (2 * CoverageFloor - 1) * N
    <3>1. CASE CoverageFloor = 0
      <4>1. (2 * CoverageFloor - 1) * N = -N
        BY <2>6, <3>1
      <4>2. 2 * PPM * O \in Nat
        BY <2>5, <2>6
      <4>. QED BY <2>6, <4>1, <4>2
    <3>2. CASE CoverageFloor # 0
      <4>1. Ratio(O, N) \in Nat
        BY <2>6, <2>7, RatioRounds
      <4>2. ~(Ratio(O, N) < CoverageFloor)
        BY <2>1, <2>4, <2>5, <3>2
      <4>3. Ratio(O, N) >= CoverageFloor
        BY <2>5, <4>1, <4>2
      <4>. QED BY <2>5, <2>6, <2>7, <4>3, RatioReaches
    <3>. QED BY <3>1, <3>2
  <2>. QED BY <2>6, <2>9, <2>10, <2>11
<1>. QED BY <1>1, ReportsSound, PTL
=============================================================================
