------------------------------ MODULE Folding -------------------------------
(***************************************************************************)
(* Folding readings into intervals, and choosing the intervals a report    *)
(* rests on (internal/core: samples.go, reports.go; internal/availability: *)
(* monitorSegments).  Latencies and maintenance counts are left out: no    *)
(* verdict depends on them.                                                *)
(***************************************************************************)
EXTENDS Integers, FiniteSets, FiniteSetsExt

CONSTANTS
    WidthMinute,    \* the width of a minute bucket
    WidthHour       \* the width of an hour bucket

ASSUME WidthAssumption ==
    /\ WidthMinute \in Nat \ {0} /\ WidthHour \in Nat \ {0}
    /\ WidthHour > WidthMinute /\ WidthHour % WidthMinute = 0

Verdicts == {"up", "degraded", "down", "error"}

\* The interval of width w that t falls in.
Floor(t, w) == (t \div w) * w

Tally(S, v) == Cardinality({s \in S : s.verdict = v})

\* verdict of a minute, from its readings: down when at least half failed.
minuteVerdict(up, degraded, down) ==
    IF up + degraded + down = 0 THEN "error"
    ELSE IF down * 2 >= up + degraded + down THEN "down"
    ELSE IF down > 0 \/ degraded > 0 THEN "degraded" ELSE "up"

\* verdict of an hour: down when a minute inside it was.
hourVerdict(up, degraded, minutes) ==
    IF \E b \in minutes : b.verdict = "down" THEN "down"
    ELSE IF degraded > 0 THEN "degraded"
    ELSE IF up > 0 THEN "up" ELSE "error"

\* The bucket of a minute's readings (addSample, op).
minuteBucket(m, start, S) ==
    [monitor |-> m, start |-> start, width |-> WidthMinute,
     up |-> Tally(S, "up"), degraded |-> Tally(S, "degraded"),
     down |-> Tally(S, "down"), errors |-> Tally(S, "error"),
     verdict |-> minuteVerdict(Tally(S, "up"), Tally(S, "degraded"), Tally(S, "down"))]

\* The bucket of an hour's minutes (addBucket, op).
hourBucket(m, start, B) ==
    LET up == MapThenSumSet(LAMBDA b : b.up, B)
        degraded == MapThenSumSet(LAMBDA b : b.degraded, B)
    IN  [monitor |-> m, start |-> start, width |-> WidthHour,
         up |-> up, degraded |-> degraded,
         down |-> MapThenSumSet(LAMBDA b : b.down, B),
         errors |-> MapThenSumSet(LAMBDA b : b.errors, B),
         verdict |-> hourVerdict(up, degraded, B)]

\* foldMinutes: the buckets of the scheduled readings from one time to another.
minuteFolds(samples, from, to) ==
    LET rows == {s \in samples : from <= s.at /\ s.at < to /\ ~s.manual}
        of(k) == {s \in rows : s.monitor = k[1] /\ Floor(s.at, WidthMinute) = k[2]}
    IN  {minuteBucket(k[1], k[2], of(k)) : k \in {<<s.monitor, Floor(s.at, WidthMinute)>> : s \in rows}}

\* foldHours: the buckets of the minute buckets from one time to another.
hourFolds(buckets, from, to) ==
    LET rows == {b \in buckets : b.width = WidthMinute /\ from <= b.start /\ b.start < to}
        of(k) == {b \in rows : b.monitor = k[1] /\ Floor(b.start, WidthHour) = k[2]}
    IN  {hourBucket(k[1], k[2], of(k)) : k \in {<<b.monitor, Floor(b.start, WidthHour)>> : b \in rows}}

-----------------------------------------------------------------------------

\* Mutant: the hour the period ends in is not read at minute resolution.
Mut_interesting(hours, from, to) ==
    {b.start : b \in {h \in hours : h.verdict # "up" \/ h.errors > 0}} \cup {Floor(from, WidthHour)}

\* The hours whose minutes are read: those not uniformly up, the first and the last.
interesting(hours, from, to) ==
    {b.start : b \in {h \in hours : h.verdict # "up" \/ h.errors > 0}}
        \cup {Floor(from, WidthHour), Floor(to - 1, WidthHour)}

\* evidenceBuckets: the hours of the period, and the minutes of the interesting ones.
evidenceBuckets(buckets, from, to) ==
    LET hours == {b \in buckets : /\ b.width = WidthHour
                                  /\ Floor(from, WidthHour) <= b.start /\ b.start < to}
    IN  hours \cup {b \in buckets : /\ b.width = WidthMinute
                                    /\ Floor(b.start, WidthHour) \in interesting(hours, from, to)}

\* monitorSegments: the bucket that speaks for time t is the finest that covers it.
Covering(B, t) == {b \in B : b.start <= t /\ t < b.start + b.width}
Finest(B, t) == CHOOSE b \in Covering(B, t) : \A c \in Covering(B, t) : b.width <= c.width

\* The times one monitor's buckets say the service was observed, and was down.
Observed(B, times) ==
    {t \in times : Covering(B, t) # {} /\ LET b == Finest(B, t) IN b.up + b.degraded + b.down > 0}
Down(B, times) ==
    {t \in times : Covering(B, t) # {} /\ Finest(B, t).verdict = "down"}
=============================================================================
