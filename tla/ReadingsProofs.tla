--------------------------- MODULE ReadingsProofs ---------------------------
(***************************************************************************)
(* The buckets of Readings, for any number of monitors, any intervals,     *)
(* widths, lag and limits, and any readings.                               *)
(***************************************************************************)
EXTENDS Readings, WellFoundedInduction, NaturalsInduction, TLAPS

-----------------------------------------------------------------------------
(* Arithmetic.                                                             *)

\* An interval begins at or before what falls in it, and ends after it.
LEMMA FloorIs ==
    ASSUME NEW t \in Int, NEW w \in Nat \ {0}
    PROVE  /\ Floor(t, w) \in Int /\ Floor(t, w) <= t /\ t < Floor(t, w) + w
           /\ \E q \in Int : Floor(t, w) = q * w
           /\ t >= 0 => Floor(t, w) >= 0
<1>1. t \div w \in Int /\ Floor(t, w) = (t \div w) * w
  BY DEF Floor
<1>2. Floor(t, w) \in Int /\ Floor(t, w) <= t
  BY DEF Floor
<1>3. t < Floor(t, w) + w
  BY DEF Floor
<1>4. ASSUME t >= 0 PROVE Floor(t, w) >= 0
  <2>1. t \div w \in Nat
    BY <1>4
  <2> QED
    BY <1>1, <2>1
<1> QED
  BY <1>1, <1>2, <1>3, <1>4

\* Of two times at which intervals begin, the earlier is a whole interval earlier.
LEMMA WholeIntervals ==
    ASSUME NEW k \in Int, NEW q \in Int, NEW w \in Nat \ {0}, q * w < k * w
    PROVE  q * w + w <= k * w
<1>1. q < k
  OBVIOUS
<1>2. k - q \in Nat /\ k - q >= 1
  BY <1>1
<1>3. (k - q) * w >= w
  BY <1>2
<1>4. (k - q) * w = k * w - q * w
  OBVIOUS
<1> QED
  BY <1>3, <1>4

\* An interval that begins at some time keeps apart what falls before and after it.
LEMMA FloorSplits ==
    ASSUME NEW w \in Nat \ {0}, NEW k \in Int, NEW t \in Int
    PROVE  /\ k * w <= t => k * w <= Floor(t, w)
           /\ t < k * w => Floor(t, w) < k * w
<1>0. k * w \in Int
  OBVIOUS
<1>1. PICK q \in Int : Floor(t, w) = q * w
  BY FloorIs
<1>2. Floor(t, w) \in Int /\ Floor(t, w) <= t /\ t < Floor(t, w) + w
  BY FloorIs
<1>3. q * w < k * w => q * w + w <= k * w
  BY WholeIntervals
<1> QED
  BY <1>0, <1>1, <1>2, <1>3

\* The least of two numbers is at most each of them.
LEMMA MinPair ==
    ASSUME NEW a \in Int, NEW b \in Int
    PROVE  Min({a, b}) \in Int /\ Min({a, b}) <= a /\ Min({a, b}) <= b
<1>1. \E x \in {a, b} : \A y \in {a, b} : x <= y
  OBVIOUS
<1>2. Min({a, b}) \in {a, b} /\ \A y \in {a, b} : Min({a, b}) <= y
  BY <1>1 DEF Min
<1> QED
  BY <1>2

\* A set of times that is not empty has a first one.
LEMMA MinTime ==
    ASSUME NEW T \in SUBSET Nat, T # {}
    PROVE  Min(T) \in T /\ \A y \in T : Min(T) <= y
<1>1. PICK m \in T : \A y \in T : ~(<<y, m>> \in {p \in Nat \X Nat : p[1] < p[2]})
  BY NatLessThanWellFounded, WFMin, Zenon DEF OpToRel
<1>2. \A y \in T : m <= y
  <2> SUFFICES ASSUME NEW y \in T PROVE m <= y
    OBVIOUS
  <2>1. y \in Nat /\ m \in Nat
    OBVIOUS
  <2>2. <<y, m>> \notin {p \in Nat \X Nat : p[1] < p[2]}
    BY <1>1
  <2> QED
    BY <2>1, <2>2
<1>3. \E x \in T : \A y \in T : x <= y
  BY <1>1, <1>2
<1> QED
  BY <1>3 DEF Min

-----------------------------------------------------------------------------
(* Folding.                                                                *)

\* The scheduled readings from one time to another, and the buckets of a set of
\* readings.
Rows(S, from, to) == {s \in S : from <= s.at /\ s.at < to /\ ~s.manual}
Minute(s) == Floor(s.at, WidthMinute)
Group(R, m, start) == {r \in R : r.monitor = m /\ Minute(r) = start}
FoldsOf(R) == {minuteBucket(s.monitor, Minute(s), Group(R, s.monitor, Minute(s))) : s \in R}

\* minuteFolds depends on the scheduled readings of its period only.
LEMMA FoldsAre ==
    ASSUME NEW S, NEW from, NEW to
    PROVE  minuteFolds(S, from, to) = FoldsOf(Rows(S, from, to))
<1> DEFINE R == Rows(S, from, to)
           keyOf(s) == <<s.monitor, Minute(s)>>
           keys == {keyOf(s) : s \in R}
           f(k) == minuteBucket(k[1], k[2], {s \in R : s.monitor = k[1] /\ Minute(s) = k[2]})
           g(s) == minuteBucket(s.monitor, Minute(s), Group(R, s.monitor, Minute(s)))
<1>1. minuteFolds(S, from, to) = {f(k) : k \in keys}
  BY DEF minuteFolds, Rows, Minute
<1>2. FoldsOf(R) = {g(s) : s \in R}
  BY DEF FoldsOf
<1> HIDE DEF R
<1>3. \A s \in R : f(keyOf(s)) = g(s)
  BY DEF Group
<1> HIDE DEF f, g, keyOf
<1>4. {f(k) : k \in keys} = {g(s) : s \in R}
  BY <1>3
<1> QED
  BY <1>1, <1>2, <1>4 DEF R

\* Readings of different minutes fold apart.
LEMMA FoldsApart ==
    ASSUME NEW R, NEW Q, \A r \in R, q \in Q : Minute(r) # Minute(q)
    PROVE  FoldsOf(R \cup Q) = FoldsOf(R) \cup FoldsOf(Q)
<1>1. \A s \in R : Group(R \cup Q, s.monitor, Minute(s)) = Group(R, s.monitor, Minute(s))
  BY DEF Group
<1>2. \A s \in Q : Group(R \cup Q, s.monitor, Minute(s)) = Group(Q, s.monitor, Minute(s))
  BY DEF Group
<1> QED
  BY <1>1, <1>2 DEF FoldsOf

\* A bucket of readings is of a minute one of them fell in.
LEMMA FoldsStart ==
    ASSUME NEW R, NEW b \in FoldsOf(R)
    PROVE  b.width = WidthMinute /\ \E s \in R : b.start = Minute(s)
BY DEF FoldsOf, minuteBucket

\* A bucket of an hour is of an hour a folded minute began in.
LEMMA HoursStart ==
    ASSUME NEW B, NEW from, NEW to, NEW h \in hourFolds(B, from, to)
    PROVE  /\ h.width = WidthHour
           /\ \E b \in B : /\ b.width = WidthMinute /\ from <= b.start /\ b.start < to
                           /\ h.start = Floor(b.start, WidthHour)
<1> DEFINE rows == {b \in B : b.width = WidthMinute /\ from <= b.start /\ b.start < to}
           of(k) == {b \in rows : b.monitor = k[1] /\ Floor(b.start, WidthHour) = k[2]}
           keys == {<<b.monitor, Floor(b.start, WidthHour)>> : b \in rows}
<1>1. hourFolds(B, from, to) = {hourBucket(k[1], k[2], of(k)) : k \in keys}
  BY DEF hourFolds
<1>2. PICK k \in keys : h = hourBucket(k[1], k[2], of(k))
  BY <1>1
<1>3. h.width = WidthHour /\ h.start = k[2]
  BY <1>2 DEF hourBucket
<1>4. PICK b \in rows : k = <<b.monitor, Floor(b.start, WidthHour)>>
  BY <1>2
<1> QED
  BY <1>3, <1>4

-----------------------------------------------------------------------------
(* The invariant.                                                          *)

Taken == samples \cup removed

\* Times are whole; every scheduled reading is earlier than the ticks to come, so
\* no two ticks record a reading of the same time.
TimesInv ==
    /\ now \in Nat /\ now >= Start
    /\ \A s \in Taken : s.at \in Nat /\ s.at >= Start /\ s.at <= now
    /\ ticker # 0 => /\ ticker \in Nat /\ ticker >= Start /\ ticker <= now
                     /\ \A s \in Taken : ~s.manual => s.at < ticker
    /\ journey # NoJourney => /\ journey.at \in Nat /\ journey.at >= Start /\ journey.at <= now
                              /\ \A s \in Taken : ~s.manual => s.at < journey.at
                              /\ ticker # 0 => journey.at < ticker

\* The watermarks are at the beginning of an interval; what was removed, or came
\* late, is below the first.
MarksInv ==
    /\ \E k \in Int : minuteMark = k * WidthMinute
    /\ \E k \in Int : hourMark = k * WidthHour
    /\ \A s \in removed \cup late : s.at < minuteMark
    /\ late \subseteq Taken

\* Every bucket is below its watermark.
BucketsInv ==
    \A b \in buckets :
        /\ b.start \in Nat
        /\ \/ b.width = WidthMinute /\ b.start < minuteMark
           \/ b.width = WidthHour /\ b.start < hourMark

IInv == TimesInv /\ MarksInv /\ BucketsInv /\ AccountedFor

\* At the start nothing is recorded.
LEMMA InvInit == Init => IInv
<1> SUFFICES ASSUME Init PROVE IInv
  OBVIOUS
<1>1. Start \in Nat /\ 0 = 0 * WidthMinute /\ 0 = 0 * WidthHour
  BY WidthAssumption DEF Start
<1>2. TimesInv /\ BucketsInv
  BY <1>1 DEF Init, TimesInv, BucketsInv, Taken
<1>3. MarksInv
  BY <1>1 DEF Init, MarksInv, Taken
<1>4. AccountedFor
  <2>1. Rows((samples \cup removed) \ late, Start, minuteMark) = {}
    BY DEF Init, Rows
  <2>2. FoldsOf({}) = {}
    BY DEF FoldsOf
  <2>3. Minutes = {}
    BY DEF Init, Minutes
  <2> QED
    BY <2>1, <2>2, <2>3, FoldsAre DEF AccountedFor
<1> QED
  BY <1>2, <1>3, <1>4 DEF IInv

\* Readings of times not seen before keep the account: those below the watermark
\* are late, the others not folded yet.
LEMMA RecordKeeps ==
    ASSUME IInv, NEW S, Record(S),
           \A s \in S : s.at \in Nat,
           \A s \in S : ~s.manual => s \notin Taken
    PROVE  MarksInv' /\ BucketsInv' /\ AccountedFor'
<1>1. /\ samples' = samples \cup S /\ late' = late \cup {s \in S : ~s.manual /\ s.at < minuteMark}
      /\ UNCHANGED <<now, buckets, minuteMark, hourMark, removed>>
  BY DEF Record, foldVars
<1>2. MarksInv'
  BY <1>1 DEF IInv, MarksInv, Taken
<1>3. BucketsInv'
  BY <1>1 DEF IInv, BucketsInv
<1>4. Rows((samples' \cup removed) \ late', Start, minuteMark) = Rows((samples \cup removed) \ late, Start, minuteMark)
  <2>1. ASSUME NEW s \in S, ~s.manual, s.at < minuteMark PROVE s \notin (samples \cup removed)
    BY <2>1 DEF Taken
  <2> QED
    BY <1>1, <2>1 DEF Rows
<1>5. AccountedFor'
  BY <1>1, <1>4, FoldsAre DEF IInv, AccountedFor, Minutes
<1> QED
  BY <1>2, <1>3, <1>5

\* What a fold writes.
NewMinutes ==
    IF HasMinutes /\ MinutesFrom < minuteEnd(now - RollupLag)
    THEN minuteFolds(samples, MinutesFrom, minuteEnd(now - RollupLag)) ELSE {}
NewHours ==
    IF HasHours /\ HoursFrom < hourEnd(now - RollupLag)
    THEN hourFolds(buckets, HoursFrom, hourEnd(now - RollupLag)) ELSE {}

\* What a fold writes is at or above the watermarks, and below the new ones.
LEMMA FoldedAbove ==
    ASSUME IInv, Fold
    PROVE  /\ \A b \in NewMinutes :
                  /\ b.width = WidthMinute /\ b.start \in Nat /\ b.start < minuteMark'
                  /\ minuteMark # 0 => minuteMark <= b.start
           /\ \A b \in NewHours :
                  /\ b.width = WidthHour /\ b.start \in Nat /\ b.start < hourMark'
                  /\ hourMark # 0 => hourMark <= b.start
           /\ minuteMark' \in Int /\ hourMark' \in Int
           /\ \E k \in Int : minuteMark' = k * WidthMinute
           /\ \E k \in Int : hourMark' = k * WidthHour
           /\ minuteMark # 0 => minuteMark <= minuteMark'
           /\ hourMark # 0 => hourMark <= hourMark'
<1> DEFINE toMinute == minuteEnd(now - RollupLag)
           toHour == hourEnd(now - RollupLag)
           minutes == HasMinutes /\ MinutesFrom < toMinute
           hours == HasHours /\ HoursFrom < toHour
<1>1. /\ minuteMark' = IF minutes THEN toMinute ELSE minuteMark
      /\ hourMark' = IF hours THEN toHour ELSE hourMark
  BY DEF Fold
<1>2. WidthMinute \in Nat \ {0} /\ WidthHour \in Nat \ {0} /\ now - RollupLag \in Int
  BY WidthAssumption, ReadingsAssumption DEF IInv, TimesInv
<1>3. /\ toMinute \in Int /\ \E k \in Int : toMinute = k * WidthMinute
      /\ toHour \in Int /\ \E k \in Int : toHour = k * WidthHour
  BY <1>2, FloorIs DEF minuteEnd, hourEnd
<1>4. /\ minuteMark \in Int /\ \E k \in Int : minuteMark = k * WidthMinute
      /\ hourMark \in Int /\ \E k \in Int : hourMark = k * WidthHour
  <2>1. PICK k \in Int : minuteMark = k * WidthMinute
    BY DEF IInv, MarksInv
  <2>2. PICK h \in Int : hourMark = h * WidthHour
    BY DEF IInv, MarksInv
  <2>3. minuteMark \in Int /\ hourMark \in Int
    BY <1>2, <2>1, <2>2
  <2> QED
    BY <2>1, <2>2, <2>3
<1>5. minuteMark # 0 => MinutesFrom = minuteMark
  BY DEF MinutesFrom
<1>6. hourMark # 0 => HoursFrom = hourMark
  BY DEF HoursFrom
<1> HIDE DEF toMinute, toHour
<1>7. ASSUME NEW b \in NewMinutes
      PROVE  /\ b.width = WidthMinute /\ b.start \in Nat /\ b.start < minuteMark'
             /\ minuteMark # 0 => minuteMark <= b.start
  <2>1. minutes /\ b \in FoldsOf(Rows(samples, MinutesFrom, toMinute))
    BY FoldsAre DEF NewMinutes, toMinute
  <2>2. PICK s \in Rows(samples, MinutesFrom, toMinute) : b.start = Minute(s)
    BY <2>1, FoldsStart
  <2>3. b.width = WidthMinute
    BY <2>1, FoldsStart
  <2>4. s.at \in Nat /\ MinutesFrom <= s.at /\ s.at < toMinute
    BY <2>2 DEF Rows, IInv, TimesInv, Taken
  <2>5. b.start \in Int /\ b.start <= s.at /\ b.start >= 0
    <3>1. s.at \in Int /\ s.at >= 0
      BY <2>4
    <3>2. /\ Floor(s.at, WidthMinute) \in Int /\ Floor(s.at, WidthMinute) <= s.at
          /\ Floor(s.at, WidthMinute) >= 0
      BY <1>2, <3>1, FloorIs
    <3> QED
      BY <2>2, <3>2 DEF Minute
  <2>6. ASSUME minuteMark # 0 PROVE minuteMark <= b.start
    <3>1. PICK k \in Int : minuteMark = k * WidthMinute
      BY <1>4
    <3>2. s.at \in Int /\ k * WidthMinute <= s.at
      BY <1>5, <2>4, <2>6, <3>1
    <3>3. k * WidthMinute <= Floor(s.at, WidthMinute)
      BY <1>2, <3>2, FloorSplits
    <3> QED
      BY <2>2, <3>1, <3>3 DEF Minute
  <2> QED
    BY <1>1, <1>3, <2>1, <2>3, <2>4, <2>5, <2>6
<1>8. ASSUME NEW h \in NewHours
      PROVE  /\ h.width = WidthHour /\ h.start \in Nat /\ h.start < hourMark'
             /\ hourMark # 0 => hourMark <= h.start
  <2>1. hours /\ h \in hourFolds(buckets, HoursFrom, toHour)
    BY DEF NewHours, toHour
  <2>2. PICK b \in buckets : /\ HoursFrom <= b.start /\ b.start < toHour
                             /\ h.start = Floor(b.start, WidthHour)
    BY <2>1, HoursStart
  <2>3. h.width = WidthHour
    BY <2>1, HoursStart
  <2>4. b.start \in Nat
    BY DEF IInv, BucketsInv
  <2>5. h.start \in Int /\ h.start <= b.start /\ h.start >= 0
    <3>1. b.start \in Int /\ b.start >= 0
      BY <2>4
    <3>2. /\ Floor(b.start, WidthHour) \in Int /\ Floor(b.start, WidthHour) <= b.start
          /\ Floor(b.start, WidthHour) >= 0
      BY <1>2, <3>1, FloorIs
    <3> QED
      BY <2>2, <3>2
  <2>6. ASSUME hourMark # 0 PROVE hourMark <= h.start
    <3>1. PICK k \in Int : hourMark = k * WidthHour
      BY <1>4
    <3>2. b.start \in Int /\ k * WidthHour <= b.start
      BY <1>6, <2>2, <2>4, <2>6, <3>1
    <3>3. k * WidthHour <= Floor(b.start, WidthHour)
      BY <1>2, <3>2, FloorSplits
    <3> QED
      BY <2>2, <3>1, <3>3
  <2> QED
    BY <1>1, <1>3, <2>1, <2>2, <2>3, <2>4, <2>5, <2>6
<1> QED
  BY <1>1, <1>3, <1>4, <1>5, <1>6, <1>7, <1>8

\* A fold adds to the buckets and takes nothing from them.
LEMMA FoldAdds ==
    ASSUME IInv, Fold
    PROVE  buckets' = buckets \cup NewMinutes \cup NewHours
<1>1. buckets' = Upsert(NewMinutes \cup NewHours)
  BY DEF Fold, NewMinutes, NewHours
<1>2. WidthMinute # WidthHour /\ minuteMark \in Int /\ hourMark \in Int
  BY WidthAssumption DEF IInv, MarksInv
<1>3. ASSUME NEW b \in buckets, NEW c \in NewMinutes \cup NewHours
      PROVE  ~(c.start = b.start /\ c.width = b.width)
  <2>1. /\ b.start \in Nat
        /\ b.width = WidthMinute => b.start < minuteMark
        /\ b.width = WidthHour => b.start < hourMark
    BY <1>2 DEF IInv, BucketsInv
  <2>2. CASE c \in NewMinutes
    <3>1. c.width = WidthMinute /\ c.start \in Nat /\ (minuteMark # 0 => minuteMark <= c.start)
      BY <2>2, FoldedAbove
    <3> QED
      BY <1>2, <2>1, <3>1
  <2>3. CASE c \in NewHours
    <3>1. c.width = WidthHour /\ c.start \in Nat /\ (hourMark # 0 => hourMark <= c.start)
      BY <2>3, FoldedAbove
    <3> QED
      BY <1>2, <2>1, <3>1
  <2> QED
    BY <2>2, <2>3
<1> QED
  BY <1>1, <1>3 DEF Upsert

\* A fold counts the readings between the watermarks, and no other.
LEMMA FoldKeeps ==
    ASSUME IInv, Fold
    PROVE  IInv'
<1> DEFINE A == (samples \cup removed) \ late
           toMinute == minuteEnd(now - RollupLag)
           minutes == HasMinutes /\ MinutesFrom < toMinute
<1>0. UNCHANGED <<now, ticker, journey, lastRun, samples, removed, late>>
  BY DEF Fold, loopVars
<1>1. WidthMinute \in Nat \ {0} /\ WidthMinute # WidthHour /\ minuteMark \in Int /\ hourMark \in Int
  BY WidthAssumption DEF IInv, MarksInv
<1>2. /\ \A b \in NewMinutes : b.width = WidthMinute /\ b.start \in Nat /\ b.start < minuteMark'
      /\ \A b \in NewHours : b.width = WidthHour /\ b.start \in Nat /\ b.start < hourMark'
      /\ minuteMark' \in Int /\ hourMark' \in Int
      /\ \E k \in Int : minuteMark' = k * WidthMinute
      /\ \E k \in Int : hourMark' = k * WidthHour
      /\ minuteMark # 0 => minuteMark <= minuteMark'
      /\ hourMark # 0 => hourMark <= hourMark'
  BY FoldedAbove
<1>3. buckets' = buckets \cup NewMinutes \cup NewHours
  BY FoldAdds
<1>4. TimesInv'
  BY <1>0 DEF IInv, TimesInv, Taken
<1>5. \A s \in Taken : s.at \in Nat /\ s.at >= Start
  BY DEF IInv, TimesInv
<1>6. \A s \in removed \cup late : s \in Taken /\ s.at < minuteMark
  BY DEF IInv, MarksInv, Taken
<1>7. MarksInv'
  <2>1. \A s \in removed \cup late : s.at < minuteMark'
    <3> SUFFICES ASSUME NEW s \in removed \cup late PROVE s.at < minuteMark'
      OBVIOUS
    <3>1. s.at \in Nat /\ s.at < minuteMark
      BY <1>5, <1>6
    <3> QED
      BY <1>1, <1>2, <3>1
  <2> QED
    BY <1>0, <1>2, <2>1 DEF IInv, MarksInv, Taken
<1>8. BucketsInv'
  <2> SUFFICES ASSUME NEW b \in buckets'
               PROVE  /\ b.start \in Nat
                      /\ \/ b.width = WidthMinute /\ b.start < minuteMark'
                         \/ b.width = WidthHour /\ b.start < hourMark'
    BY DEF BucketsInv
  <2>1. CASE b \in buckets
    <3>1. /\ b.start \in Nat
          /\ \/ b.width = WidthMinute /\ b.start < minuteMark
             \/ b.width = WidthHour /\ b.start < hourMark
      BY <2>1 DEF IInv, BucketsInv
    <3> QED
      BY <1>1, <1>2, <3>1
  <2>2. CASE b \in NewMinutes \cup NewHours
    BY <1>2, <2>2
  <2> QED
    BY <1>3, <2>1, <2>2
<1>9. Minutes' = Minutes \cup NewMinutes
  BY <1>1, <1>2, <1>3 DEF Minutes
<1>10. Minutes = FoldsOf(Rows(A, Start, minuteMark))
  BY FoldsAre DEF IInv, AccountedFor
<1>11. Minutes \cup NewMinutes = FoldsOf(Rows(A, Start, minuteMark'))
  <2>1. CASE ~minutes
    <3>1. minuteMark' = minuteMark /\ NewMinutes = {}
      BY <2>1 DEF Fold, NewMinutes
    <3> QED
      BY <1>10, <3>1
  <2>2. CASE minutes /\ minuteMark # 0
    <3>1. minuteMark' = toMinute /\ MinutesFrom = minuteMark
      BY <2>2 DEF Fold, MinutesFrom
    <3>2. NewMinutes = FoldsOf(Rows(samples, minuteMark, minuteMark'))
      BY <2>2, <3>1, FoldsAre DEF NewMinutes
    <3> HIDE DEF toMinute
    <3>3. minuteMark <= minuteMark'
      BY <1>2, <2>2
    <3>4. Rows(A, Start, minuteMark') = Rows(A, Start, minuteMark) \cup Rows(samples, minuteMark, minuteMark')
      <4>0. Start \in Int
        BY WidthAssumption DEF Start
      <4>1. \A s \in A : s.at \in Int /\ s.at >= Start
        BY <1>5 DEF Taken
      <4>2. \A s \in A : minuteMark <= s.at => s \in samples
        BY <1>1, <1>6, <4>1
      <4>3. \A s \in samples : s.at \in Int /\ s.at >= Start /\ (minuteMark <= s.at => s \in A)
        BY <1>1, <1>5, <1>6 DEF Taken
      <4> HIDE DEF A
      <4> QED
        BY <1>1, <1>2, <3>3, <4>0, <4>1, <4>2, <4>3 DEF Rows
    <3>5. ASSUME NEW r \in Rows(A, Start, minuteMark), NEW q \in Rows(samples, minuteMark, minuteMark')
          PROVE  Minute(r) # Minute(q)
      <4>1. r.at \in Int /\ r.at < minuteMark /\ q.at \in Int /\ minuteMark <= q.at
        BY <1>5 DEF Rows, Taken
      <4>2. PICK k \in Int : minuteMark = k * WidthMinute
        BY DEF IInv, MarksInv
      <4>3. Minute(r) < minuteMark
        BY <1>1, <4>1, <4>2, FloorSplits DEF Minute
      <4>4. minuteMark <= Minute(q)
        BY <1>1, <4>1, <4>2, FloorSplits DEF Minute
      <4>5. Minute(r) \in Int /\ Minute(q) \in Int
        BY <1>1, <4>1, FloorIs DEF Minute
      <4> QED
        BY <1>1, <4>3, <4>4, <4>5
    <3> QED
      BY <1>10, <3>2, <3>4, <3>5, FoldsApart
  <2>3. CASE minutes /\ minuteMark = 0
    <3>1. minuteMark' = toMinute /\ NewMinutes = FoldsOf(Rows(samples, MinutesFrom, toMinute))
      BY <2>3, FoldsAre DEF Fold, NewMinutes
    <3>2. removed = {} /\ late = {}
      BY <1>5, <1>6, <2>3
    <3>3. Minutes = {}
      BY <1>1, <2>3 DEF IInv, BucketsInv, Minutes
    <3> DEFINE T == {s.at : s \in samples}
    <3>4. T \in SUBSET Nat /\ T # {} /\ MinutesFrom = Floor(Min(T), WidthMinute)
      BY <1>5, <2>3 DEF HasMinutes, MinutesFrom, Taken
    <3>5. Min(T) \in Nat /\ \A y \in T : Min(T) <= y
      <4> HIDE DEF T
      <4> QED
        BY <3>4, MinTime
    <3>6. MinutesFrom \in Int /\ MinutesFrom <= Min(T)
      <4> HIDE DEF T
      <4> QED
        BY <1>1, <3>4, <3>5, FloorIs
    <3>7. \A s \in samples : s.at \in Int /\ MinutesFrom <= s.at /\ Start <= s.at
      <4>1. \A s \in samples : s.at \in Nat /\ Min(T) <= s.at /\ Start <= s.at
        BY <1>5, <3>5 DEF Taken
      <4> HIDE DEF T
      <4> QED
        BY <3>5, <3>6, <4>1
    <3>8. Rows(A, Start, toMinute) = Rows(samples, MinutesFrom, toMinute)
      <4> HIDE DEF toMinute
      <4> QED
        BY <3>2, <3>7 DEF Rows
    <3> QED
      BY <3>1, <3>3, <3>8
  <2> QED
    BY <2>1, <2>2, <2>3
<1>12. AccountedFor'
  BY <1>0, <1>9, <1>11, FoldsAre DEF AccountedFor
<1> QED
  BY <1>4, <1>7, <1>8, <1>12 DEF IInv

-----------------------------------------------------------------------------
(* The other steps.                                                        *)

\* The ticker and the journeys move no reading and no bucket.
LEMMA LoopKeeps ==
    ASSUME IInv, UNCHANGED <<samples, buckets, minuteMark, hourMark, removed, late>>
    PROVE  MarksInv' /\ BucketsInv' /\ AccountedFor'
BY DEF IInv, MarksInv, BucketsInv, AccountedFor, Minutes, Taken

\* Every tick recorded is later than those recorded before.
LEMMA TickKeeps ==
    ASSUME IInv, TickRecords
    PROVE  IInv'
<1>1. PICK v \in [journey.due -> Outcomes] :
         Record({[monitor |-> m, at |-> journey.at, verdict |-> v[m], manual |-> FALSE] : m \in journey.due})
  BY DEF TickRecords
<1> DEFINE S == {[monitor |-> m, at |-> journey.at, verdict |-> v[m], manual |-> FALSE] : m \in journey.due}
<1>2. journey # NoJourney /\ journey' = NoJourney /\ UNCHANGED <<ticker, lastRun>>
  BY DEF TickRecords
<1>3. samples' = samples \cup S /\ UNCHANGED <<now, removed>>
  BY <1>1 DEF Record
<1>4. \A s \in S : s.at = journey.at /\ s.manual = FALSE
  OBVIOUS
<1>5. /\ journey.at \in Nat /\ journey.at >= Start /\ journey.at <= now
      /\ \A s \in Taken : ~s.manual => s.at < journey.at
      /\ ticker # 0 => journey.at < ticker
  BY <1>2 DEF IInv, TimesInv
<1> HIDE DEF S
<1>6. \A s \in S : s.at \in Nat /\ s \notin Taken
  BY <1>4, <1>5
<1>7. MarksInv' /\ BucketsInv' /\ AccountedFor'
  <2>1. Record(S)
    BY <1>1 DEF S
  <2> QED
    BY <1>6, <2>1, RecordKeeps
<1>8. TimesInv'
  <2>1. Taken' = Taken \cup S
    BY <1>3 DEF Taken
  <2> QED
    BY <1>2, <1>3, <1>4, <1>5, <2>1 DEF IInv, TimesInv
<1> QED
  BY <1>7, <1>8 DEF IInv

\* A reading taken by hand is in no account.
LEMMA ManualKeeps ==
    ASSUME IInv, NEW m \in Monitors, RunOnce(m)
    PROVE  IInv'
<1>1. PICK v \in Outcomes : Record({[monitor |-> m, at |-> now, verdict |-> v, manual |-> TRUE]})
  BY DEF RunOnce
<1> DEFINE S == {[monitor |-> m, at |-> now, verdict |-> v, manual |-> TRUE]}
<1>2. UNCHANGED <<ticker, journey, lastRun>> /\ samples' = samples \cup S /\ UNCHANGED <<now, removed>>
  BY <1>1 DEF RunOnce, Record, loopVars
<1>3. now \in Nat /\ now >= Start
  BY DEF IInv, TimesInv
<1>4. \A s \in S : s.at = now /\ s.manual = TRUE
  OBVIOUS
<1>5. Record(S)
  BY <1>1
<1> HIDE DEF S
<1>6. MarksInv' /\ BucketsInv' /\ AccountedFor'
  BY <1>3, <1>4, <1>5, RecordKeeps
<1>7. TimesInv'
  <2>1. Taken' = Taken \cup S
    BY <1>2 DEF Taken
  <2>2. now <= now
    BY <1>3
  <2> QED
    BY <1>2, <1>3, <1>4, <2>1, <2>2 DEF IInv, TimesInv
<1> QED
  BY <1>6, <1>7 DEF IInv

\* A prune takes away only what is below the watermark.
LEMMA PruneKeeps ==
    ASSUME IInv, NEW before \in Times, PruneSamples(before)
    PROVE  IInv'
<1>1. PICK R \in Oldest({s \in samples : s.at < Min({before, minuteMark})}, PruneLimit) :
         /\ samples' = samples \ R
         /\ removed' = removed \cup R
         /\ UNCHANGED <<now, loopVars, foldVars, late>>
  BY DEF PruneSamples
<1>2. R \subseteq {s \in samples : s.at < Min({before, minuteMark})}
  BY DEF Oldest, kSubset
<1>3. before \in Int /\ minuteMark \in Int
  <2>1. Start \in Int /\ MaxTime \in Int
    BY WidthAssumption, ReadingsAssumption DEF Start
  <2>2. PICK k \in Int : minuteMark = k * WidthMinute
    BY DEF IInv, MarksInv
  <2> QED
    BY <2>1, <2>2, WidthAssumption DEF Times
<1>4. Min({before, minuteMark}) \in Int /\ Min({before, minuteMark}) <= minuteMark
  BY <1>3, MinPair
<1>5. \A s \in R : s \in samples /\ s.at \in Nat /\ s.at < minuteMark
  <2> SUFFICES ASSUME NEW s \in R PROVE s \in samples /\ s.at \in Nat /\ s.at < minuteMark
    OBVIOUS
  <2>1. s \in samples /\ s.at < Min({before, minuteMark})
    BY <1>2
  <2>2. s.at \in Nat
    BY <2>1 DEF IInv, TimesInv, Taken
  <2> QED
    BY <1>3, <1>4, <2>1, <2>2
<1>6. samples' \cup removed' = samples \cup removed
  BY <1>1, <1>5
<1>7. UNCHANGED <<now, ticker, journey, lastRun, buckets, minuteMark, hourMark, late>>
  BY <1>1 DEF loopVars, foldVars
<1>8. TimesInv'
  BY <1>6, <1>7 DEF IInv, TimesInv, Taken
<1>9. MarksInv'
  BY <1>1, <1>5, <1>6, <1>7 DEF IInv, MarksInv, Taken
<1>10. BucketsInv' /\ AccountedFor'
  BY <1>6, <1>7 DEF IInv, BucketsInv, AccountedFor, Minutes
<1> QED
  BY <1>8, <1>9, <1>10 DEF IInv

\* Every step keeps the invariant.
LEMMA InvStep ==
    ASSUME IInv, [Next]_vars
    PROVE  IInv'
<1> USE DEF loopVars, foldVars
<1>1. CASE UNCHANGED vars
  <2>1. UNCHANGED <<samples, buckets, minuteMark, hourMark, removed, late, now, ticker, journey>>
    BY <1>1 DEF vars
  <2>2. TimesInv'
    BY <2>1 DEF IInv, TimesInv, Taken
  <2> QED
    BY <2>1, <2>2, LoopKeeps DEF IInv
<1>2. CASE Passes
  <2>1. /\ now' = now + 1 /\ ticker' = IF ticker = 0 THEN now' ELSE ticker
        /\ UNCHANGED <<journey, samples, buckets, minuteMark, hourMark, removed, late>>
    BY <1>2 DEF Passes
  <2>2. TimesInv'
    <3>1. Start \in Nat
      BY WidthAssumption DEF Start
    <3>2. Taken' = Taken
      BY <2>1 DEF Taken
    <3>3. /\ now \in Nat /\ now >= Start /\ now' \in Nat /\ now' >= Start
          /\ \A t \in Nat : t <= now => t < now' /\ t <= now'
      BY <2>1, <3>1 DEF IInv, TimesInv
    <3>4. \A s \in Taken' : s.at \in Nat /\ s.at >= Start /\ s.at < now' /\ s.at <= now'
      BY <3>2, <3>3 DEF IInv, TimesInv
    <3>5. ticker' # 0 => /\ ticker' \in Nat /\ ticker' >= Start /\ ticker' <= now'
                         /\ \A s \in Taken' : ~s.manual => s.at < ticker'
      <4>1. CASE ticker = 0
        BY <2>1, <3>3, <3>4, <4>1
      <4>2. CASE ticker # 0
        BY <2>1, <3>2, <3>3, <4>2 DEF IInv, TimesInv
      <4> QED
        BY <4>1, <4>2
    <3>6. journey' # NoJourney =>
             /\ journey'.at \in Nat /\ journey'.at >= Start /\ journey'.at <= now'
             /\ \A s \in Taken' : ~s.manual => s.at < journey'.at
             /\ ticker' # 0 => journey'.at < ticker'
      BY <2>1, <3>2, <3>3 DEF IInv, TimesInv
    <3> QED
      BY <3>3, <3>4, <3>5, <3>6 DEF TimesInv
  <2> QED
    BY <2>1, <2>2, LoopKeeps DEF IInv
<1>3. CASE TickBegins
  <2>1. /\ journey = NoJourney /\ ticker # 0 /\ ticker' = 0
        /\ journey' = IF due(ticker) = {} THEN NoJourney ELSE [at |-> ticker, due |-> due(ticker)]
        /\ UNCHANGED <<now, samples, buckets, minuteMark, hourMark, removed, late>>
    BY <1>3 DEF TickBegins
  <2>2. journey' # NoJourney => journey'.at = ticker
    BY <2>1
  <2>3. TimesInv'
    BY <2>1, <2>2 DEF IInv, TimesInv, Taken
  <2> QED
    BY <2>1, <2>3, LoopKeeps DEF IInv
<1>4. CASE TickRecords
  BY <1>4, TickKeeps
<1>5. CASE TickLost \/ Restart
  <2>1. /\ journey' = NoJourney /\ ticker' \in {0, ticker}
        /\ UNCHANGED <<now, samples, buckets, minuteMark, hourMark, removed, late>>
    BY <1>5 DEF TickLost, Restart
  <2>2. TimesInv'
    BY <2>1 DEF IInv, TimesInv, Taken
  <2> QED
    BY <2>1, <2>2, LoopKeeps DEF IInv
<1>6. CASE Fold
  BY <1>6, FoldKeeps
<1>7. ASSUME NEW m \in Monitors, RunOnce(m) PROVE IInv'
  BY <1>7, ManualKeeps
<1>8. ASSUME NEW before \in Times, PruneSamples(before) PROVE IInv'
  BY <1>8, PruneKeeps
<1> QED
  BY <1>1, <1>2, <1>3, <1>4, <1>5, <1>6, <1>7, <1>8 DEF Next

\* No step takes a bucket away or writes it again.
LEMMA FinalStep ==
    ASSUME IInv, [Next]_vars
    PROVE  buckets \subseteq buckets'
<1> USE DEF loopVars, foldVars
<1>1. CASE UNCHANGED vars \/ Passes \/ TickBegins \/ TickLost \/ Restart
  <2>1. UNCHANGED buckets
    BY <1>1 DEF vars, Passes, TickBegins, TickLost, Restart
  <2> QED
    BY <2>1
<1>2. CASE TickRecords \/ \E m \in Monitors : RunOnce(m)
  <2>1. UNCHANGED buckets
    BY <1>2 DEF TickRecords, RunOnce, Record
  <2> QED
    BY <2>1
<1>3. CASE \E before \in Times : PruneSamples(before)
  <2>1. UNCHANGED buckets
    BY <1>3 DEF PruneSamples
  <2> QED
    BY <2>1
<1>4. CASE Fold
  BY <1>4, FoldAdds
<1> QED
  BY <1>1, <1>2, <1>3, <1>4 DEF Next

\* The inductive invariant of Fold, PruneSamples, RecordSamples and the ticker.
THEOREM ReadingsSound == Spec => []IInv
BY InvInit, InvStep, PTL DEF Spec

\* foldMinutes, PruneSamples and RunOnce: for any monitors, widths, lag and limits,
\* the minute buckets count exactly the scheduled readings recorded in time.
THEOREM ReadingsAccounted == Spec => []AccountedFor
<1>1. IInv => AccountedFor
  BY DEF IInv
<1> QED
  BY <1>1, ReadingsSound, PTL

\* Fold: for any widths and lag, a bucket is written once and never revised.
THEOREM BucketsStay == Spec => BucketsFinal
<1>1. IInv /\ [Next]_vars => buckets \subseteq buckets'
  BY FinalStep
<1> QED
  BY <1>1, ReadingsSound, PTL DEF Spec, BucketsFinal

-----------------------------------------------------------------------------
(* The evidence of a report.                                               *)

\* A time falls in one interval only.
LEMMA FloorOnly ==
    ASSUME NEW w \in Nat \ {0}, NEW k \in Int, NEW t \in Int, k * w <= t, t < k * w + w
    PROVE  Floor(t, w) = k * w
<1>0. k * w \in Int
  OBVIOUS
<1>1. PICK q \in Int : Floor(t, w) = q * w
  BY FloorIs
<1>2. Floor(t, w) \in Int /\ Floor(t, w) <= t /\ t < Floor(t, w) + w
  BY FloorIs
<1>3. q * w < k * w => q * w + w <= k * w
  BY WholeIntervals
<1>4. k * w < q * w => k * w + w <= q * w
  BY WholeIntervals
<1> QED
  BY <1>0, <1>1, <1>2, <1>3, <1>4

\* A minute and the times in it are of the same hour.
LEMMA SameHour ==
    ASSUME NEW t \in Int
    PROVE  Floor(Floor(t, WidthMinute), WidthHour) = Floor(t, WidthHour)
<1> DEFINE w == WidthMinute
           h == WidthHour
           a == Floor(t, w)
<1>1. w \in Nat \ {0} /\ h \in Nat \ {0}
  BY WidthAssumption
<1>2. PICK n \in Int : h = n * w
  <2>1. h % w = 0
    BY WidthAssumption
  <2>2. h = (h \div w) * w + (h % w) /\ h \div w \in Int
    BY <1>1
  <2>3. h = (h \div w) * w
    BY <1>1, <2>1, <2>2
  <2> QED
    BY <2>2, <2>3
<1>3. PICK k \in Int : Floor(t, h) = k * h
  BY <1>1, FloorIs
<1>4. a \in Int /\ a <= t
  BY <1>1, FloorIs
<1>5. Floor(t, h) \in Int /\ Floor(t, h) <= t /\ t < Floor(t, h) + h
  BY <1>1, FloorIs
<1>6. (k * n) \in Int /\ (k * n) * w = k * h
  BY <1>1, <1>2
<1>7. k * h <= a
  <2>1. (k * n) * w <= t
    BY <1>3, <1>5, <1>6
  <2> QED
    BY <1>1, <1>6, <2>1, FloorSplits
<1>8. k * h \in Int /\ k * h <= a /\ a < k * h + h
  BY <1>1, <1>3, <1>4, <1>5, <1>7
<1>9. Floor(a, h) = k * h
  <2> HIDE DEF a, h
  <2> QED
    BY <1>1, <1>4, <1>8, FloorOnly
<1> QED
  BY <1>3, <1>9

\* The minute buckets of a monitor that cover a time are one at most: the bucket of
\* the minute the time falls in.
LEMMA OneMinute ==
    ASSUME IInv, NEW t \in Int, NEW b \in Minutes, b.start <= t, t < b.start + b.width
    PROVE  /\ b.width = WidthMinute /\ b.start = Floor(t, WidthMinute)
           /\ \A c \in Minutes : c.monitor = b.monitor /\ c.start = b.start => c = b
<1> DEFINE R == Rows((samples \cup removed) \ late, Start, minuteMark)
           bucketOf(m, start) == minuteBucket(m, start, Group(R, m, start))
<1>1. Minutes = {bucketOf(s.monitor, Minute(s)) : s \in R}
  BY FoldsAre DEF IInv, AccountedFor, FoldsOf
<1>2. \A m, start : bucketOf(m, start).monitor = m /\ bucketOf(m, start).start = start
  BY DEF minuteBucket
<1>3. \A s \in R : s.at \in Nat
  BY DEF IInv, TimesInv, Taken, Rows
<1>4. b.width = WidthMinute
  BY DEF Minutes
<1> HIDE DEF R, bucketOf
<1>5. \A c \in Minutes : c = bucketOf(c.monitor, c.start)
  BY <1>1, <1>2
<1>6. PICK s \in R : b.start = Minute(s)
  BY <1>1, <1>2
<1>7. WidthMinute \in Nat \ {0}
  BY WidthAssumption
<1>8. PICK k \in Int : b.start = k * WidthMinute
  <2>1. s.at \in Int
    BY <1>3
  <2> QED
    BY <1>6, <1>7, <2>1, FloorIs DEF Minute
<1>9. b.start = Floor(t, WidthMinute)
  <2>1. k * WidthMinute <= t /\ t < k * WidthMinute + WidthMinute
    BY <1>4, <1>8
  <2> QED
    BY <1>7, <1>8, <2>1, FloorOnly
<1> QED
  BY <1>4, <1>5, <1>9

\* Where a bucket of the least width is among those that cover a time, one of that
\* width speaks for it.
LEMMA FinestIs ==
    ASSUME NEW B, NEW t, NEW b \in Covering(B, t), \A c \in Covering(B, t) : b.width <= c.width
    PROVE  /\ Finest(B, t) \in Covering(B, t)
           /\ \A c \in Covering(B, t) : Finest(B, t).width <= c.width
BY DEF Finest

\* The buckets of one monitor.
Of(B, m) == {b \in B : b.monitor = m}

\* The minutes of the hours a period begins and ends in are in the evidence.
LEMMA EdgeShown ==
    ASSUME IInv, NEW from, NEW to, NEW m, NEW t \in Int,
           Floor(t, WidthHour) \in {Floor(from, WidthHour), Floor(to - 1, WidthHour)},
           Covering(Of(Minutes, m), t) # {}, Finest(Of(Minutes, m), t).verdict = "down"
    PROVE  LET E == Of(evidenceBuckets(buckets, from, to), m)
           IN  Covering(E, t) # {} /\ Finest(E, t).verdict = "down"
<1> DEFINE M == Of(Minutes, m)
           E == Of(evidenceBuckets(buckets, from, to), m)
<1>0. /\ M = {b \in Minutes : b.monitor = m}
      /\ E = {b \in evidenceBuckets(buckets, from, to) : b.monitor = m}
      /\ Covering(M, t) # {} /\ Finest(M, t).verdict = "down"
  BY DEF Of
<1> HIDE DEF M, E
<1>1. WidthMinute \in Int /\ WidthHour \in Int /\ WidthMinute < WidthHour
  BY WidthAssumption
<1>2. \A b \in M : b \in buckets /\ b.width = WidthMinute /\ b.monitor = m
  BY <1>0 DEF Minutes
<1>3. Finest(M, t) \in Covering(M, t)
  <2>1. PICK b \in Covering(M, t) : TRUE
    BY <1>0
  <2>2. \A c \in Covering(M, t) : b.width <= c.width
    BY <1>1, <1>2 DEF Covering
  <2> QED
    BY <2>2, FinestIs
<1> DEFINE b == Finest(M, t)
<1>4. b \in Minutes /\ b.monitor = m /\ b.start <= t /\ t < b.start + b.width
  BY <1>0, <1>3 DEF Covering
<1> HIDE DEF b
<1>5. b.width = WidthMinute /\ b.start = Floor(t, WidthMinute)
  BY <1>4, OneMinute
<1>6. Floor(b.start, WidthHour) = Floor(t, WidthHour)
  BY <1>5, SameHour
<1>7. b \in E
  BY <1>0, <1>4, <1>5, <1>6 DEF evidenceBuckets, interesting, Minutes
<1>8. b \in Covering(E, t)
  BY <1>4, <1>7 DEF Covering
<1>9. \A c \in E : c \in buckets /\ c.monitor = m /\ c.width \in {WidthMinute, WidthHour}
  BY <1>0 DEF evidenceBuckets
<1>10. \A c \in Covering(E, t) : b.width <= c.width
  BY <1>1, <1>5, <1>9 DEF Covering
<1> DEFINE e == Finest(E, t)
<1>11. e \in Covering(E, t) /\ e.width <= b.width
  BY <1>8, <1>10, FinestIs
<1> HIDE DEF e
<1>12. e \in Minutes /\ e.monitor = m /\ e.start <= t /\ t < e.start + e.width
  BY <1>1, <1>5, <1>9, <1>11 DEF Covering, Minutes
<1>13. e.start = Floor(t, WidthMinute)
  BY <1>12, OneMinute
<1>14. e = b
  BY <1>4, <1>5, <1>12, <1>13, OneMinute
<1> QED
  BY <1>0, <1>8, <1>14 DEF b, e, E

\* evidenceBuckets: for any widths, lag and limits, whatever was recorded late, removed
\* or taken by hand, a minute that was down in the hours a period begins and ends in is
\* down in the evidence.
THEOREM EdgesShown == Spec => []EdgesExact
<1>1. ASSUME IInv PROVE EdgesExact
  <2> SUFFICES ASSUME NEW from \in Times, NEW to \in Times, NEW m \in Monitors, from < to
               PROVE  LET edge == {t \in from..(to - 1) :
                                      Floor(t, WidthHour) \in {Floor(from, WidthHour), Floor(to - 1, WidthHour)}}
                      IN  Down({b \in Minutes : b.monitor = m}, edge)
                              \subseteq Down({b \in evidenceBuckets(buckets, from, to) : b.monitor = m}, edge)
    BY Zenon DEF EdgesExact
  <2> DEFINE edge == {t \in from..(to - 1) :
                         Floor(t, WidthHour) \in {Floor(from, WidthHour), Floor(to - 1, WidthHour)}}
             M == {b \in Minutes : b.monitor = m}
             E == {b \in evidenceBuckets(buckets, from, to) : b.monitor = m}
  <2> SUFFICES ASSUME NEW t \in Down(M, edge) PROVE t \in Down(E, edge)
    OBVIOUS
  <2>0. t \in edge /\ Covering(M, t) # {} /\ Finest(M, t).verdict = "down"
    <3> HIDE DEF M, edge
    <3>. QED BY DEF Down
  <2>4. t \in from..(to - 1) /\ Floor(t, WidthHour) \in {Floor(from, WidthHour), Floor(to - 1, WidthHour)}
    BY <2>0
  <2>1. t \in Int
    BY <2>4, WidthAssumption, ReadingsAssumption DEF Times, Start
  <2>2. M = Of(Minutes, m) /\ E = Of(evidenceBuckets(buckets, from, to), m)
    BY DEF Of
  <2>5. Covering(Of(Minutes, m), t) # {} /\ Finest(Of(Minutes, m), t).verdict = "down"
    BY <2>0, <2>2
  <2> HIDE DEF M, E
  <2>6. Covering(E, t) # {} /\ Finest(E, t).verdict = "down"
    BY <1>1, <2>1, <2>2, <2>4, <2>5, EdgeShown
  <2> HIDE DEF edge
  <2> QED
    BY <2>0, <2>6 DEF Down, M, E, edge
<1> QED
  BY <1>1, ReadingsSound, PTL
=============================================================================
