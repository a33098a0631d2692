------------------------------ MODULE Intervals -----------------------------
(***************************************************************************)
(* The arithmetic of intervals and ratios (internal/availability/          *)
(* interval.go).  A list of intervals is a set here: every operation sorts *)
(* its lists before it reads them, and none depends on repetitions.        *)
(***************************************************************************)
EXTENDS Integers, Sequences, FiniteSets, FiniteSetsExt

CONSTANTS
    PPM,        \* one hundred per cent
    IntMax      \* the largest integer the arithmetic can hold

ASSUME PPMAssumption == PPM \in Nat \ {0} /\ IntMax \in Nat \ {0}

Interval(from, to) == [from |-> from, to |-> to]
Seconds(iv) == iv.to - iv.from

Earlier(a, b) == a.from < b.from \/ (a.from = b.from /\ a.to < b.to)

\* sort.Slice: a set of intervals in order.
Sorted(S) ==
    LET before == [x \in S |-> Cardinality({y \in S : Earlier(y, x)})]
    IN  [n \in 1..Cardinality(S) |-> CHOOSE x \in S : before[x] = n - 1]

\* The next interval is taken into the last one when it overlaps or touches it.
Join(s, iv) ==
    IF iv.from <= s.last.to THEN [out |-> s.out, last |-> Interval(s.last.from, Max({s.last.to, iv.to}))]
    ELSE [out |-> s.out \cup {s.last}, last |-> iv]

\* What a sorted list has become after each of its intervals.
Joins(s) ==
    LET upTo[n \in 1..Len(s)] ==
            IF n = 1 THEN [out |-> {}, last |-> s[1]] ELSE Join(upTo[n - 1], s[n])
    IN  upTo

\* Merge: overlapping and touching intervals made one, empty ones dropped.
Merge(in) ==
    LET s == Sorted({iv \in in : iv.to > iv.from})
        all == Joins(s)[Len(s)]
    IN  IF Len(s) = 0 THEN {} ELSE all.out \cup {all.last}

\* Two sorted lists read side by side: the one that ends first is moved on.
Pass(s, xs, ys) ==
    IF s.i > Len(xs) \/ s.j > Len(ys) THEN s
    ELSE LET a == xs[s.i]
             b == ys[s.j]
             both == Interval(Max({a.from, b.from}), Min({a.to, b.to}))
         IN  [i |-> IF a.to < b.to THEN s.i + 1 ELSE s.i, j |-> IF a.to < b.to THEN s.j ELSE s.j + 1,
              out |-> IF both.to > both.from THEN s.out \cup {both} ELSE s.out]
Passes(xs, ys) ==
    LET after[n \in 0..(Len(xs) + Len(ys))] ==
            IF n = 0 THEN [i |-> 1, j |-> 1, out |-> {}] ELSE Pass(after[n - 1], xs, ys)
    IN  after

\* Intersect: the parts of a that fall inside b.
Intersect(a, b) ==
    LET xs == Sorted(Merge(a))
        ys == Sorted(Merge(b))
    IN  Passes(xs, ys)[Len(xs) + Len(ys)].out

\* One cut into what is left of an interval: the part before the cut is kept.
Cut(s, c) ==
    IF c.to <= s.cur.from \/ c.from >= s.cur.to THEN s
    ELSE [out |-> IF c.from > s.cur.from THEN s.out \cup {Interval(s.cur.from, c.from)} ELSE s.out,
          cur |-> Interval(Min({c.to, s.cur.to}), s.cur.to)]

\* An interval after each of a list of cuts, and what all of them leave of it.
Cuts(b, cuts) ==
    LET after[n \in 0..Len(cuts)] == IF n = 0 THEN [out |-> {}, cur |-> b] ELSE Cut(after[n - 1], cuts[n])
    IN  after
Left(b, cuts) == LET all == Cuts(b, cuts)[Len(cuts)] IN all.out \cup {all.cur}

\* Subtract: each interval of base with every cut taken out of it.
Subtract(base, cut) == Merge(UNION {Left(b, Sorted(Merge(cut))) : b \in Merge(base)})

\* Total: the seconds of the merged intervals, added up.
Totals(s) == LET upTo[n \in 0..Len(s)] == IF n = 0 THEN 0 ELSE upTo[n - 1] + Seconds(s[n]) IN upTo
Total(in) == LET s == Sorted(Merge(in)) IN Totals(s)[Len(s)]

Clip(in, from, to) == Intersect(in, {Interval(from, to)})

-----------------------------------------------------------------------------

\* Integers are two's complement: beyond IntMax they wrap.
Wrap(n) == ((n + IntMax + 1) % (2 * (IntMax + 1))) - IntMax - 1

\* Division truncates.
Quotient(n, d) == IF n < 0 THEN -((-n) \div d) ELSE n \div d

\* Ratio: parts of the whole, rounded to nearest; no whole is all of it.
Ratio(numerator, denominator) ==
    IF denominator <= 0 \/ (numerator > 0 /\ numerator >= denominator) THEN PPM
    ELSE IF numerator <= 0 THEN 0
    ELSE Quotient(Wrap(numerator * PPM * 2 + denominator), Wrap(denominator * 2))

Availability(ast, downtime) == IF ast <= 0 THEN PPM ELSE Ratio(Max({ast - downtime, 0}), ast)

-----------------------------------------------------------------------------
(* The reference: the seconds a list of intervals covers.                  *)

Secs(in) == UNION {iv.from..(iv.to - 1) : iv \in in}

\* Normalised: no interval is empty, and no two overlap or touch.
Normal(in) ==
    /\ \A iv \in in : iv.to > iv.from
    /\ \A a, b \in in : a # b => a.to < b.from \/ b.to < a.from
=============================================================================
