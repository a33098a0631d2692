------------------------------ MODULE MCReports -----------------------------
(***************************************************************************)
(* Reports on a small service: two monitors on one component and one on    *)
(* another.                                                                *)
(***************************************************************************)
EXTENDS Reports

TwoAndOne == [m \in Monitors |-> IF m = "m3" THEN "c2" ELSE "c1"]
Rules == [c \in Components |-> IF c = "c1" THEN "majority" ELSE "any"]
Weights == [c \in Components |-> IF c = "c1" THEN 1 ELSE 3]

\* Two windows of agreed service time.
Scheduled_split == {Interval(0, 1), Interval(2, MaxTime)}

\* interval.go against sets of seconds, on every pair of lists of at most two
\* intervals, empty and backward ones included: "sorts and coalesces", "the parts of
\* a that fall inside b" and "removes cut from base" hold to the second.
Lists == LET given == [from : 0..3, to : 0..3]
         IN  {{i, j} : i, j \in given} \cup {{}}
ASSUME IntervalsExact ==
    \A a, b \in Lists :
        /\ Secs(Merge(a)) = Secs(a) /\ Normal(Merge(a)) /\ Total(a) = Cardinality(Secs(a))
        /\ Secs(Intersect(a, b)) = Secs(a) \cap Secs(b) /\ Normal(Intersect(a, b))
        /\ Secs(Subtract(a, b)) = Secs(a) \ Secs(b) /\ Normal(Subtract(a, b))

\* What the minutes bring: a monitor that fails or errs beside one that outvotes it
\* or is silent, and a component whose only monitor fails or is silent in between.
Minute(one, two, three) == {[m \in Monitors |-> CASE m = "m1" -> a [] m = "m2" -> b [] m = "m3" -> c] :
                               a \in one, b \in two, c \in three}
Readable_three ==
    [t \in 0..(MaxTime + 1) |-> CASE t = 0 -> Minute({"error", "down"}, {"none", "up"}, {"up"})
                     [] t = 1 -> Minute({"error", "down"}, {"none", "up"}, {"none", "down"})
                     [] t > 1 -> Minute({"down"}, {"none", "up"}, {"up"})]

\* A whole hour, and one cut short at either end.
Periods_cut == {Interval(0, 3), Interval(0, 2), Interval(1, 3)}

Objectives_two == {[metric |-> "availability", target |-> 50], [metric |-> "user_availability", target |-> 70],
                   [metric |-> "unknown", target |-> 50]}
=============================================================================
