------------------------------- MODULE Reports ------------------------------
(***************************************************************************)
(* Maintenance windows and the figures of a report (internal/core:         *)
(* maintenance.go, buildReport in reports.go; internal/availability:       *)
(* Compute, monitorSegments, ComponentSeries, evaluate).                   *)
(*                                                                         *)
(* Readings come in minute by minute and are folded some time later, when  *)
(* the folder runs; windows are declared, declared again and cancelled     *)
(* beside them, before, during and after what they cover.  A report may be *)
(* asked for at any time and on any period, one that is not over included: *)
(* it rests on what has been folded by then.                               *)
(***************************************************************************)
EXTENDS Intervals, Folding, SequencesExt

CONSTANTS
    Monitors,
    Components,
    ComponentOf,            \* the component a monitor watches
    Rollup,                 \* a component's rollup rule
    UserWeight,             \* the population a component serves
    Scheduled,              \* the agreed service time
    MaintenanceLeadTime,    \* the notice a planned window needs
    CoverageFloor,          \* the coverage an objective needs
    Objectives,             \* what is asked for: a metric, and its target
    Windows,                \* bound: windows that may be declared
    Classes,                \* classes a window may be declared with
    Readable,               \* bound: what each minute may bring of the monitors, "none" for no reading
    RollupLag,              \* how far behind the present the folder works
    Periods,                \* bound: periods reports may be asked on
    MaxTime,                \* bound on the time
    MaxReports              \* bound on the reports issued

ASSUME ReportsAssumption ==
    /\ IsFiniteSet(Monitors) /\ IsFiniteSet(Components) /\ IsFiniteSet(Windows)
    /\ ComponentOf \in [Monitors -> Components]
    /\ Rollup \in [Components -> {"any", "all", "majority"}]
    /\ UserWeight \in [Components -> Nat]
    /\ Scheduled \subseteq [from : Int, to : Int] /\ IsFiniteSet(Scheduled)
    /\ MaintenanceLeadTime \in Nat \ {0} /\ MaxTime \in Nat /\ MaxReports \in Nat
    /\ CoverageFloor \in 0..PPM
    /\ Objectives \subseteq [metric : {"availability", "user_availability", "unknown"}, target : 0..PPM]
    /\ Classes \subseteq {"planned_maintenance", "third_party", "monitoring_fault"}
    /\ Readable \in [0..(MaxTime + WidthMinute) -> SUBSET [Monitors -> Verdicts \cup {"none"}]]
    /\ RollupLag \in Nat
    /\ Periods \subseteq [from : 0..MaxTime, to : 0..MaxTime] /\ \A p \in Periods : p.from < p.to

VARIABLES
    now,
    samples,    \* the samples table
    minuteMark, \* watermark fold.minute
    hourMark,   \* watermark fold.hour
    buckets,    \* the buckets table
    windows,    \* the maintenance_windows table
    issued,     \* the reports issued so far
    report      \* the last of them: its period, hourMark when it was made, and the
                \* downtime of each component

foldVars == <<minuteMark, hourMark, buckets>>
vars == <<now, samples, minuteMark, hourMark, buckets, windows, issued, report>>

NoWindow == [class |-> "none", from |-> 0, to |-> 0, excluded |-> FALSE, cancelled |-> FALSE]

Init ==
    /\ now = 0 /\ samples = {} /\ minuteMark = 0 /\ hourMark = 0 /\ buckets = {}
    /\ windows = [w \in Windows |-> NoWindow] /\ issued = 0
    /\ report = [from |-> 0, to |-> 0, mark |-> 0, down |-> [c \in Components |-> {}]]

-----------------------------------------------------------------------------
(* The series of a component.                                              *)

\* Mutant: the widest reading wins.
Mut_Finer(a, b) == a.width > b.width \/ (a.width = b.width /\ a.start < b.start)

\* The order buckets are laid down in: the finest first.
Finer(a, b) == a.width < b.width \/ (a.width = b.width /\ a.start < b.start)

\* monitorSegments: each bucket speaks for what no finer one covers.
Whole(b) == Interval(b.start, b.start + b.width)
Alone(b, B) == Subtract({Whole(b)}, {Whole(d) : d \in {e \in B : Finer(e, b)}})
Segment(b, iv) ==
    [from |-> iv.from, to |-> iv.to, monitor |-> b.monitor,
     observed |-> b.up + b.degraded + b.down > 0, down |-> b.verdict = "down"]
monitorSegments(B) == UNION {{Segment(b, iv) : iv \in Alone(b, B)} : b \in B}

\* The rule takes so many monitors down, of those seen, as the component being down.
Bad(rule, down, seen) ==
    CASE rule = "all" -> down = seen [] rule = "majority" -> down * 2 > seen [] rule = "any" -> down > 0

\* The segments that say something of an interval of the sweep.
Speaking(all, iv) == {s \in all : s.from <= iv.from /\ s.to >= iv.to /\ s.observed}

\* The segments of every monitor of a component, and the intervals between
\* consecutive boundaries of them.
Segments(c, B) ==
    UNION {monitorSegments({b \in B : b.monitor = m}) : m \in {n \in Monitors : ComponentOf[n] = c}}
Steps(points) ==
    {Interval(p, Min({q \in points : q > p})) : p \in {q \in points : q < Max(points)}}

\* The sweep: an interval is observed when some segment speaks for it, and down when
\* the rule says so of those that do.
BadOf(rule, S) == Bad(rule, Cardinality({s \in S : s.down}), Cardinality(S))
Sweep(rule, all, steps) ==
    LET observed == {iv \in steps : Speaking(all, iv) # {}}
    IN  [observed |-> Merge(observed), down |-> Merge({iv \in observed : BadOf(rule, Speaking(all, iv))})]

\* ComponentSeries: a sweep over every boundary any monitor's segments have.
ComponentSeries(c, B) ==
    LET all == Segments(c, B)
    IN  Sweep(Rollup[c], all, Steps({s.from : s \in all} \cup {s.to : s \in all}))

-----------------------------------------------------------------------------
(* The figures.                                                            *)

\* A window declared and not cancelled.
InForce(w) == windows[w].class # "none" /\ ~windows[w].cancelled

\* maintenanceBetween, Compute: the windows in force that leave agreed service time.
Applied(scheduled, from, to) ==
    LET between == {w \in Windows : InForce(w) /\ windows[w].from < to /\ windows[w].to > from}
        clipped(w) == Intersect({Interval(windows[w].from, windows[w].to)}, scheduled)
    IN  UNION {clipped(w) : w \in {v \in between : windows[v].excluded}}

\* A figure of each component, added up for the users it serves.
Weighed(of) ==
    LET cs == SetToSeq(Components)
        upTo[n \in 0..Len(cs)] == IF n = 0 THEN 0 ELSE upTo[n - 1] + UserWeight[cs[n]] * of[cs[n]]
    IN  upTo[Len(cs)]

\* Mutant: the users of a component are out whenever the service is down.
Mut_UserOutage(downIn) ==
    Weighed([c \in Components |-> Total(UNION {downIn[d] : d \in Components})])

\* User outage time: each component's downtime, for the users it serves.
UserOutage(downIn) == Weighed([c \in Components |-> Total(downIn[c])])

\* The results: of the service, from the downtime of its components.
Results(scheduled, applied, net, downIn, down, observed) ==
    LET ast == Total(net)
        downtime == Total(down)
        seen == Total(observed)
        potential == Weighed([c \in Components |-> ast])
        availability == Availability(ast, downtime)
    IN  [scheduled |-> Total(scheduled), excluded |-> Total(applied), net |-> ast,
         components |-> downIn, down |-> down, downtime |-> downtime,
         outages |-> Cardinality(down), observed |-> seen, gaps |-> Subtract(net, observed),
         availability |-> availability,
         userAvailability |-> IF potential > 0 THEN Ratio(potential - UserOutage(downIn), potential)
                              ELSE availability,
         coverage |-> Ratio(seen, ast)]

\* Only what falls inside net agreed service time counts.
InService(scheduled, applied, net, series) ==
    LET downIn == [c \in Components |-> Intersect(series[c].down, net)]
        observedIn == {Intersect(series[c].observed, net) : c \in Components}
    IN  Results(scheduled, applied, net, downIn,
                Merge(UNION {downIn[c] : c \in Components}), Merge(UNION observedIn))

\* Compute, of the period from one time to another.
Compute(from, to) ==
    LET B == evidenceBuckets(buckets, from, to)
        scheduled == Clip(Scheduled, from, to)
        applied == Applied(scheduled, from, to)
    IN  InService(scheduled, applied, Subtract(scheduled, applied),
                  [c \in Components |-> ComponentSeries(c, B)])

\* The figure an objective is about.
achieved(o, r) == IF o.metric = "availability" THEN r.availability ELSE r.userAvailability

\* Mutant: an objective is scored on whatever was observed.
Mut_evaluate(o, r) ==
    IF o.metric = "unknown" \/ r.net = 0 THEN "indeterminate"
    ELSE IF achieved(o, r) >= o.target THEN "met" ELSE "breached"

\* evaluate: an objective of a report.
evaluate(o, r) ==
    IF o.metric = "unknown" \/ r.net = 0 \/ (CoverageFloor > 0 /\ r.coverage < CoverageFloor) THEN "indeterminate"
    ELSE IF achieved(o, r) >= o.target THEN "met" ELSE "breached"

-----------------------------------------------------------------------------
(* The steps.                                                              *)

\* RecordSamples: the readings of a minute; some monitors have none.
Reads(v) ==
    /\ now < MaxTime
    /\ now' = now + WidthMinute
    /\ samples' = samples \cup {[monitor |-> m, at |-> now, verdict |-> v[m], manual |-> FALSE] :
                                  m \in {n \in Monitors : v[n] # "none"}}
    /\ UNCHANGED <<foldVars, windows, issued, report>>

\* Where a fold of rows that begin at some times goes on from: its watermark, or the first.
FoldsFrom(mark, starts, width) == IF mark # 0 THEN mark ELSE Floor(Min(starts), width)

\* Fold: the closed minutes from the readings, and the closed hours from the minute
\* buckets the record held before this transaction.
Fold ==
    LET before == now - RollupLag
        toMinute == Floor(before, WidthMinute)
        toHour == Floor(before, WidthHour)
        taken == {s.at : s \in samples}
        starts == {b.start : b \in {c \in buckets : c.width = WidthMinute}}
        fromMinute == FoldsFrom(minuteMark, taken, WidthMinute)
        fromHour == FoldsFrom(hourMark, starts, WidthHour)
        minutes == (minuteMark # 0 \/ taken # {}) /\ fromMinute < toMinute
        hours == (hourMark # 0 \/ starts # {}) /\ fromHour < toHour
    IN  /\ buckets' = buckets \cup (IF minutes THEN minuteFolds(samples, fromMinute, toMinute) ELSE {})
                              \cup (IF hours THEN hourFolds(buckets, fromHour, toHour) ELSE {})
        /\ minuteMark' = IF minutes THEN toMinute ELSE minuteMark
        /\ hourMark' = IF hours THEN toHour ELSE hourMark
        /\ UNCHANGED <<now, samples, windows, issued, report>>

\* Mutant: notice is not asked for.
Mut_Excluded(class, from) == class = "planned_maintenance"

\* The decision on a window declared now.
Excluded(class, from) == class = "planned_maintenance" /\ from - now >= MaintenanceLeadTime

\* DeclareMaintenance, of a new window or of one declared before.
DeclareMaintenance(w, class, from, to) ==
    /\ to > from
    /\ windows' = [windows EXCEPT ![w] =
          [class |-> class, from |-> from, to |-> to, excluded |-> Excluded(class, from), cancelled |-> FALSE]]
    /\ UNCHANGED <<now, samples, foldVars, issued, report>>

CancelMaintenance(w) ==
    /\ windows[w].class # "none"
    /\ windows' = [windows EXCEPT ![w].cancelled = TRUE]
    /\ UNCHANGED <<now, samples, foldVars, issued, report>>

\* GenerateReport, of a period.
GenerateReport(p) ==
    /\ issued < MaxReports
    /\ issued' = issued + 1
    /\ \E r \in {Compute(p.from, p.to)} :
          report' = [from |-> p.from, to |-> p.to, mark |-> hourMark,
                     down |-> [c \in Components |-> Secs(r.components[c])]]
    /\ UNCHANGED <<now, samples, foldVars, windows>>

Next ==
    \/ \E p \in Periods : GenerateReport(p)
    \/ \E v \in Readable[now] : Reads(v)
    \/ Fold
    \/ \E w \in Windows, class \in Classes, from, to \in 0..MaxTime : DeclareMaintenance(w, class, from, to)
    \/ \E w \in Windows : CancelMaintenance(w)

Spec == Init /\ [][Next]_vars

-----------------------------------------------------------------------------
(* The reference: the same figures second by second.                       *)

NetAt(t) ==
    /\ t \in Secs(Scheduled)
    /\ \A w \in Windows : windows[w].excluded /\ ~windows[w].cancelled => t \notin Secs({windows[w]})

\* The seconds of the report's period that count.
NetSecs == {t \in report.from..(report.to - 1) : NetAt(t)}

\* The seconds of net that somebody saw, and those of them that were bad under a
\* rule, with what each of some monitors saw and found down.
Counted(rule, seen, down) ==
    LET number(f, t) == Cardinality({m \in DOMAIN f : t \in f[m]})
        observed == UNION {seen[m] : m \in DOMAIN seen}
    IN  [observed |-> observed, down |-> {t \in observed : Bad(rule, number(down, t), number(seen, t))}]

\* What the finest bucket of each monitor of a component says of the seconds of net.
Witnessed(c, B, net) ==
    LET mine == {m \in Monitors : ComponentOf[m] = c}
        of(m) == {b \in B : b.monitor = m}
    IN  Counted(Rollup[c], [m \in mine |-> Observed(of(m), net)],
                [m \in mine |-> Down(of(m), Observed(of(m), net))])

\* The reference figures: of each component, of the service, and what nobody saw.
Tallied(net, of) ==
    [net |-> net, components |-> [c \in Components |-> of[c].down],
     down |-> UNION {of[c].down : c \in Components},
     unseen |-> net \ UNION {of[c].observed : c \in Components}]

Reference ==
    LET B == evidenceBuckets(buckets, report.from, report.to)
    IN  Tallied(NetSecs, [c \in Components |-> Witnessed(c, B, NetSecs)])

-----------------------------------------------------------------------------
(* Properties, of the figures of the last report's period as they are now. *)

Figures == Compute(report.from, report.to)

\* Compute is "what lets the offline verifier run the same computation": net agreed
\* service time, the downtime of every component and of the service, the count of
\* outages and the gaps are what the finest bucket on each second says, whatever the
\* widths of the evidence and wherever the period, windows and agreed service time
\* cut it.
FiguresExact ==
    \A r \in {Figures}, ref \in {Reference} :
        /\ r.net = Cardinality(ref.net) /\ r.scheduled = r.net + r.excluded
        /\ \A c \in Components : Secs(r.components[c]) = ref.components[c]
        /\ Secs(r.down) = ref.down /\ r.downtime = Cardinality(ref.down)
        /\ r.outages = Cardinality({t \in ref.down : t - 1 \notin ref.down})
        /\ Secs(r.gaps) = ref.unseen /\ r.observed = r.net - Cardinality(ref.unseen)

\* "a window entered after the outage": what a report said was downtime of a component,
\* a later report on the same period says too, whatever windows are declared, moved or
\* cancelled and whatever is folded in between.  A period that was not folded to hours
\* when the report was made is left to the rule "any": the bucket an hour is folded
\* into later also speaks for the minutes a monitor was silent in, and may outvote one
\* that was down (README).
ReportedStays ==
    \A r \in {Figures}, c \in Components :
        report.to <= report.mark \/ Rollup[c] = "any" => report.down[c] \subseteq Secs(r.components[c])

\* The coverage floor "keeps the report honest": an objective is met only on enough
\* agreed service time seen, and with no more downtime, of the service or of its
\* users, than rounding forgives.
MetHonestly ==
    \A r \in {Figures}, ref \in {Reference}, o \in Objectives :
        LET net == Cardinality(ref.net)
            potential == Weighed([c \in Components |-> net])
            outage == Weighed([c \in Components |-> Cardinality(ref.components[c])])
        IN  evaluate(o, r) = "met" =>
                /\ net > 0
                /\ 2 * PPM * (net - Cardinality(ref.unseen)) >= (2 * CoverageFloor - 1) * net
                /\ IF o.metric = "availability" \/ potential = 0
                    THEN 2 * PPM * (net - Cardinality(ref.down)) >= (2 * o.target - 1) * net
                    ELSE 2 * PPM * (potential - outage) >= (2 * o.target - 1) * potential

\* "((Potential User Minutes - User Outage Minutes) / Potential User Minutes) x 100":
\* the user-weighted figure is that fraction, within a part, as long as user-seconds
\* in parts of the whole fit the integers (IntMax).
UserFigureExact ==
    \A u \in {Figures.userAvailability}, ref \in {Reference} :
        LET potential == Weighed([c \in Components |-> Cardinality(ref.net)])
            outage == Weighed([c \in Components |-> Cardinality(ref.components[c])])
        IN  potential > 0 => /\ (u - 1) * potential <= PPM * (potential - outage)
                             /\ PPM * (potential - outage) <= (u + 1) * potential

-----------------------------------------------------------------------------
(* A claim of the documentation that the code does not keep (README).      *)

\* "Excluded from the availability numerator": downtime in a monitoring_fault
\* window is not counted.
FaultsLeftOut ==
    \A w \in Windows : windows[w].class = "monitoring_fault" /\ ~windows[w].cancelled =>
        Secs(Figures.down) \cap Secs({windows[w]}) = {}
=============================================================================
