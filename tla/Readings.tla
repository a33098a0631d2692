------------------------------ MODULE Readings ------------------------------
(***************************************************************************)
(* Taking readings, folding them and removing them (internal/probe: Run,   *)
(* tick, due, RunOnce; internal/core: RecordSamples, Fold, PruneSamples).  *)
(*                                                                         *)
(* One goroutine takes ticks, folds and prunes; a tick runs its journeys   *)
(* and waits for them, so the next tick waits in the ticker and the ones   *)
(* after it are dropped.  Readings asked for by hand come in beside it.    *)
(* The record survives a restart.                                          *)
(***************************************************************************)
EXTENDS Folding

CONSTANTS
    Monitors,
    Interval,       \* the interval of every monitor
    Offset,         \* a monitor's place in its interval
    RollupLag,      \* how far behind the present the folder works
    PruneLimit,     \* readings removed at once
    Outcomes,       \* verdicts a journey may come to
    MaxTime,        \* bound on the time
    MaxManual       \* bound on the readings taken by hand

ASSUME ReadingsAssumption ==
    /\ Interval \in [Monitors -> Nat \ {0}] /\ Offset \in [Monitors -> Nat]
    /\ RollupLag \in Nat /\ PruneLimit \in Nat \ {0} /\ MaxTime \in Nat
    /\ Outcomes \subseteq Verdicts /\ MaxManual \in Nat

VARIABLES
    now,            \* the time, in seconds
    ticker,         \* the tick waiting in ticker.C, or 0
    journey,        \* the tick whose journeys run: its time, or 0, and the monitors due
    lastRun,        \* when a monitor last ran, or 0
    samples,        \* the samples table
    buckets,        \* the buckets table
    minuteMark,     \* watermark fold.minute
    hourMark,       \* watermark fold.hour
    removed,        \* readings removed from the record
    late            \* readings recorded below the watermark

loopVars == <<ticker, journey, lastRun>>
foldVars == <<buckets, minuteMark, hourMark>>
vars == <<now, ticker, journey, lastRun, samples, buckets, minuteMark, hourMark, removed, late>>

\* Time starts at an hour, well after zero, which stands for never.
Start == WidthHour
Times == Start..MaxTime
NoJourney == [at |-> 0, due |-> {}]

Init ==
    /\ now = Start /\ ticker = 0 /\ journey = NoJourney
    /\ lastRun = [m \in Monitors |-> 0]
    /\ samples = {} /\ buckets = {} /\ minuteMark = 0 /\ hourMark = 0
    /\ removed = {} /\ late = {}

-----------------------------------------------------------------------------

\* A second passes; its tick waits, unless one waits already.
Passes ==
    /\ now < MaxTime
    /\ now' = now + 1
    /\ ticker' = IF ticker = 0 THEN now' ELSE ticker
    /\ UNCHANGED <<journey, lastRun, samples, foldVars, removed, late>>

\* due: the monitors whose slot t is.
due(t) ==
    {m \in Monitors : /\ (t + Offset[m]) % Interval[m] = 0
                      /\ lastRun[m] # 0 => t - lastRun[m] >= Interval[m]}

\* tick: the journeys due are started.
TickBegins ==
    /\ journey = NoJourney /\ ticker # 0
    /\ ticker' = 0
    /\ lastRun' = [m \in Monitors |-> IF m \in due(ticker) THEN ticker ELSE lastRun[m]]
    /\ journey' = IF due(ticker) = {} THEN NoJourney ELSE [at |-> ticker, due |-> due(ticker)]
    /\ UNCHANGED <<now, samples, foldVars, removed, late>>

\* Readings are written; those below the watermark come too late to be folded.
Record(S) ==
    /\ samples' = samples \cup S
    /\ late' = late \cup {s \in S : ~s.manual /\ s.at < minuteMark}
    /\ UNCHANGED <<now, foldVars, removed>>

\* tick: every journey ended; the readings are recorded with the tick's time.
TickRecords ==
    /\ journey # NoJourney
    /\ \E v \in [journey.due -> Outcomes] :
          Record({[monitor |-> m, at |-> journey.at, verdict |-> v[m], manual |-> FALSE] :
                     m \in journey.due})
    /\ journey' = NoJourney
    /\ UNCHANGED <<ticker, lastRun>>

\* tick: the readings could not be recorded.
TickLost ==
    /\ journey # NoJourney
    /\ journey' = NoJourney
    /\ UNCHANGED <<now, ticker, lastRun, samples, foldVars, removed, late>>

\* RunOnce: a reading taken by hand.
RunOnce(m) ==
    /\ Cardinality({s \in samples \cup removed : s.manual}) < MaxManual
    /\ \E v \in Outcomes :
          Record({[monitor |-> m, at |-> now, verdict |-> v, manual |-> TRUE]})
    /\ UNCHANGED loopVars

\* The end of the last closed minute.
minuteEnd(before) == Floor(before, WidthMinute)

\* The end of the last closed hour.
hourEnd(before) == Floor(before, WidthHour)

\* Where foldMinutes goes on from: the watermark, or the first reading.
MinutesFrom ==
    IF minuteMark # 0 THEN minuteMark
    ELSE Floor(Min({s.at : s \in samples}), WidthMinute)

\* Mutant: the last folded hour is folded again, for minutes that came late.
Mut_HoursFrom ==
    IF hourMark # 0 THEN hourMark - WidthHour
    ELSE Floor(Min({b.start : b \in {c \in buckets : c.width = WidthMinute}}), WidthHour)

\* Where foldHours goes on from: the watermark, or the first minute bucket.
HoursFrom ==
    IF hourMark # 0 THEN hourMark
    ELSE Floor(Min({b.start : b \in {c \in buckets : c.width = WidthMinute}}), WidthHour)

\* Mutant: the watermark is never set for a first time.
Mut_HasMinutes == minuteMark # 0

HasMinutes == minuteMark # 0 \/ samples # {}
HasHours == hourMark # 0 \/ \E b \in buckets : b.width = WidthMinute

\* Rows are written by key: a bucket takes the place of one for the same interval.
Upsert(rows) ==
    {b \in buckets : ~\E c \in rows :
        c.monitor = b.monitor /\ c.start = b.start /\ c.width = b.width} \cup rows

\* Fold: the closed minutes from the readings and the closed hours from the minute
\* buckets the record holds before this transaction, written together.
Fold ==
    LET before == now - RollupLag
        toMinute == minuteEnd(before)
        toHour == hourEnd(before)
        minutes == HasMinutes /\ MinutesFrom < toMinute
        hours == HasHours /\ HoursFrom < toHour
    IN  /\ journey = NoJourney
        /\ buckets' = Upsert(
             (IF minutes THEN minuteFolds(samples, MinutesFrom, toMinute) ELSE {})
                 \cup (IF hours THEN hourFolds(buckets, HoursFrom, toHour) ELSE {}))
        /\ minuteMark' = IF minutes THEN toMinute ELSE minuteMark
        /\ hourMark' = IF hours THEN toHour ELSE hourMark
        /\ UNCHANGED <<now, loopVars, samples, removed, late>>

\* The rows a query for the n oldest may give.
Oldest(S, n) ==
    {R \in kSubset(Min({n, Cardinality(S)}), S) : \A r \in R, s \in S \ R : r.at <= s.at}

\* Mutant: readings are removed whether or not they were folded.
Mut_PruneSamples(before) ==
    \E R \in Oldest({s \in samples : s.at < before}, PruneLimit) :
        /\ samples' = samples \ R
        /\ removed' = removed \cup R
        /\ UNCHANGED <<now, loopVars, foldVars, late>>

\* PruneSamples: the oldest readings before the cutoff and below the watermark.
PruneSamples(before) ==
    \E R \in Oldest({s \in samples : s.at < Min({before, minuteMark})}, PruneLimit) :
        /\ samples' = samples \ R
        /\ removed' = removed \cup R
        /\ UNCHANGED <<now, loopVars, foldVars, late>>

\* The monitor stops and starts again: the journeys under way leave nothing.
Restart ==
    /\ ticker' = 0 /\ journey' = NoJourney /\ lastRun' = [m \in Monitors |-> 0]
    /\ UNCHANGED <<now, samples, foldVars, removed, late>>

Next ==
    \/ Passes \/ TickBegins \/ TickRecords \/ TickLost \/ Fold \/ Restart
    \/ \E m \in Monitors : RunOnce(m)
    \/ \E before \in Times : PruneSamples(before)

Spec == Init /\ [][Next]_vars

\* Time passes, journeys end, and a folder that keeps being due gets its turn.
Fairness == WF_vars(Passes) /\ WF_vars(TickRecords \/ TickLost) /\ SF_vars(Fold)
FairSpec == Spec /\ Fairness

-----------------------------------------------------------------------------
(* Properties.                                                             *)

Minutes == {b \in buckets : b.width = WidthMinute}
Hours == {b \in buckets : b.width = WidthHour}

\* Fold "only ever folds intervals that are closed, so a bucket is written once and
\* never revised": whatever is recorded late, removed or restarted, a bucket stays as
\* it was first written.
BucketsFinal == [][buckets \subseteq buckets']_vars

\* foldMinutes, PruneSamples and RunOnce together: below the watermark every minute's
\* bucket counts exactly the scheduled readings that were recorded in time, whatever
\* has been removed since and whatever was run by hand.
AccountedFor ==
    Minutes = minuteFolds((samples \cup removed) \ late, Start, minuteMark)

\* evidenceBuckets: in the hours a period begins and ends in, the evidence shows
\* every minute that was down.
EdgesExact ==
    \A from, to \in Times, m \in Monitors : from < to =>
        LET edge == {t \in from..(to - 1) :
                        Floor(t, WidthHour) \in {Floor(from, WidthHour), Floor(to - 1, WidthHour)}}
        IN  Down({b \in Minutes : b.monitor = m}, edge)
                \subseteq Down({b \in evidenceBuckets(buckets, from, to) : b.monitor = m}, edge)

\* Fold: every scheduled reading recorded in time is folded in the end: again and
\* again, no reading whose minute can be closed by the end of the run is unfolded.
FoldedInTheEnd ==
    []<>(\A s \in samples \ late :
            ~s.manual /\ Floor(s.at, WidthMinute) + WidthMinute + RollupLag <= MaxTime =>
                \E b \in Minutes : b.monitor = s.monitor /\ b.start = Floor(s.at, WidthMinute))

\* evidenceBuckets "is exactly what a minute-by-minute computation would give":
\* in a period whose hours are all folded, a minute that was down is down in the
\* evidence.
DowntimeReported ==
    \A from, to \in Times, m \in Monitors : from < to /\ to <= hourMark =>
        Down({b \in Minutes : b.monitor = m}, from..(to - 1))
            \subseteq Down({b \in evidenceBuckets(buckets, from, to) : b.monitor = m}, from..(to - 1))

-----------------------------------------------------------------------------
(* Claims of comments and documents that the code does not keep (README).  *)

\* "An hour is down if any minute inside it was."
HourDown ==
    \A h \in Hours, b \in Minutes :
        b.monitor = h.monitor /\ Floor(b.start, WidthHour) = h.start /\ b.verdict = "down" =>
            h.verdict = "down"

\* "anything still missing is a coverage gap and is reported as one": in a
\* period whose hours are all folded, what the evidence says was observed, a minute
\* bucket observed.
GapsReported ==
    \A from, to \in Times, m \in Monitors : from < to /\ to <= hourMark =>
        Observed({b \in evidenceBuckets(buckets, from, to) : b.monitor = m}, from..(to - 1))
            \subseteq Observed({b \in Minutes : b.monitor = m}, from..(to - 1))

\* "Only readings that have been folded are removed": a scheduled reading that was
\* removed is counted in its minute's bucket.
RemovedWereFolded == \A s \in removed : ~s.manual => s \notin late
=============================================================================
